------------------------- MODULE SerialLink_proofs -------------------------
(***************************************************************************)
(* What both ends of the serial line accept, for any capacity of the line, *)
(* any commands and any number of packets.  The argument follows the       *)
(* stream of bytes that the parser holds and that are still to come: on a  *)
(* clean line it starts and ends at a packet, one damaged byte leaves it   *)
(* with one wrong byte or one gap, and no step of the parser can make it   *)
(* worse.  A packet the parser accepts is the beginning of that stream.    *)
(***************************************************************************)
EXTENDS SerialLink, SequenceTheorems, TLAPS

\* A packet of length n carries n - 3 bytes of payload.
Length == {CommandLength, StatusLength}
Payloads(n) == [1..(n - 3) -> Byte]
Cell(n) == [byte : Byte, of : Payloads(n), at : 1..n]

LEMMA XorCancel == ASSUME NEW a, NEW b, NEW c, Xor(a, b) = Xor(a, c) PROVE b = c
<1>1. \A x : (x \in a /\ x \notin b) \/ (x \in b /\ x \notin a)
             <=> (x \in a /\ x \notin c) \/ (x \in c /\ x \notin a)
  BY DEF Xor
<1>2. \A x : x \in b <=> x \in c
  BY <1>1
<1> QED
  BY <1>2

LEMMA XorCommutes == \A a, b : Xor(a, b) = Xor(b, a)
  BY DEF Xor

LEMMA XorTwice == \A a, b : Xor(a, Xor(a, b)) = b
<1> SUFFICES ASSUME NEW a, NEW b PROVE Xor(a, Xor(a, b)) = b
  OBVIOUS
<1>1. \A x : x \in Xor(a, Xor(a, b)) <=> x \in b
  BY DEF Xor
<1> QED
  BY <1>1

LEMMA XorByte == \A a, b \in Byte : Xor(a, b) \in Byte
  BY DEF Xor, Byte

LEMMA Checksum ==
  ASSUME NEW bytes, NEW n \in {3, 4}, Len(bytes) = n
  PROVE  LET b3 == Xor(Xor(Xor({}, bytes[1]), bytes[2]), bytes[3])
         IN calculate_checksum(bytes) = IF n = 3 THEN b3 ELSE Xor(b3, bytes[4])
<1> DEFINE step(f) == [i \in 0..n |-> IF i = 0 THEN {} ELSE Xor(f[i - 1], bytes[i])]
           checksum == CHOOSE f : f = step(f)
           b1 == Xor({}, bytes[1])
           b2 == Xor(b1, bytes[2])
           b3 == Xor(b2, bytes[3])
           b4 == Xor(b3, bytes[4])
           sums == [i \in 0..n |-> CASE i = 0 -> {} [] i = 1 -> b1 [] i = 2 -> b2
                                     [] i = 3 -> b3 [] OTHER -> b4]
<1>1. calculate_checksum(bytes) = checksum[n]
  BY DEF calculate_checksum
<1>2. checksum = step(checksum)
  <2> HIDE DEF b1, b2, b3, b4
  <2>1. ASSUME NEW i \in 0..n
        PROVE  sums[i] = IF i = 0 THEN {} ELSE Xor(sums[i - 1], bytes[i])
    <3>1. i \in Int /\ 0 <= i /\ i <= 4
      OBVIOUS
    <3>2. /\ b1 = Xor({}, bytes[1]) /\ b2 = Xor(b1, bytes[2])
          /\ b3 = Xor(b2, bytes[3]) /\ b4 = Xor(b3, bytes[4])
      BY DEF b1, b2, b3, b4
    <3>3. i # 0 => i - 1 \in 0..n
      OBVIOUS
    <3>4. CASE i = 0
      BY <3>4
    <3>5. CASE i = 1
      BY <3>2, <3>3, <3>5
    <3>6. CASE i = 2
      BY <3>2, <3>3, <3>6
    <3>7. CASE i = 3
      BY <3>2, <3>3, <3>7
    <3>8. CASE i = 4
      BY <3>2, <3>3, <3>8
    <3> QED
      BY <3>1, <3>4, <3>5, <3>6, <3>7, <3>8
  <2>2. sums = [i \in 0..n |-> sums[i]]
    OBVIOUS
  <2> HIDE DEF sums
  <2>3. step(sums) = [i \in 0..n |-> sums[i]]
    BY <2>1
  <2>4. sums = step(sums)
    BY <2>2, <2>3
  <2> HIDE DEF step
  <2> QED
    BY <2>4
<1> HIDE DEF checksum
<1>3. \A i \in 0..n : checksum[i] = IF i = 0 THEN {} ELSE Xor(checksum[i - 1], bytes[i])
  BY <1>2
<1>4. checksum[0] = {}
  BY <1>3
<1>5. checksum[1] = b1
  BY <1>3, <1>4
<1>6. checksum[2] = b2
  BY <1>3, <1>5
<1>7. checksum[3] = b3
  BY <1>3, <1>6
<1>8. n = 4 => checksum[4] = b4
  BY <1>3, <1>7
<1> QED
  BY <1>1, <1>7, <1>8

\* The checksum of a packet, written out.
Sum(packet, n) ==
  LET sum3 == Xor(Xor(Xor({}, packet[1]), packet[2]), packet[3])
  IN IF n = StatusLength THEN sum3 ELSE Xor(sum3, packet[4])

LEMMA ChecksumIsSum ==
  ASSUME NEW n \in Length, NEW packet \in Seq(Byte), Len(packet) = n
  PROVE  calculate_checksum(SubSeq(packet, 1, n - 1)) = Sum(packet, n)
<1> DEFINE front == SubSeq(packet, 1, n - 1)
<1>1. n = 4 \/ n = 5
  BY DEF Length, CommandLength, StatusLength
<1>2. /\ Len(front) = n - 1
      /\ front[1] = packet[1] /\ front[2] = packet[2] /\ front[3] = packet[3]
      /\ n = 5 => front[4] = packet[4]
  BY <1>1
<1> HIDE DEF front
<1>3. n = 4 => calculate_checksum(front) = Sum(packet, n)
  BY <1>2, Checksum DEF Sum, StatusLength
<1>4. n = 5 => calculate_checksum(front) = Sum(packet, n)
  BY <1>2, Checksum DEF Sum, StatusLength
<1> QED
  BY <1>1, <1>3, <1>4 DEF front

\* What a packet of length n is made of.
LEMMA PacketCells ==
  ASSUME NEW n \in Length, NEW p \in Payloads(n)
  PROVE  /\ Packet(p) \in Seq(Byte) /\ Len(Packet(p)) = n
         /\ Packet(p)[1] = HEADER1 /\ Packet(p)[2] = HEADER2
         /\ \A i \in 3..(n - 1) : Packet(p)[i] = p[i - 2]
         /\ Packet(p)[n] = Sum(Packet(p), n)
<1> DEFINE head == <<HEADER1, HEADER2>> \o p
<1>1. n = 4 \/ n = 5
  BY DEF Length, CommandLength, StatusLength
<1>2. HEADER1 \in Byte /\ HEADER2 \in Byte /\ {} \in Byte
  BY SerialAssumption DEF Byte
<1>3. p \in Seq(Byte) /\ Len(p) = n - 3
  BY <1>1 DEF Payloads
<1>4. /\ head \in Seq(Byte) /\ Len(head) = n - 1
      /\ head[1] = HEADER1 /\ head[2] = HEADER2
      /\ \A i \in 3..(n - 1) : head[i] = p[i - 2]
  <2> HIDE DEF Payloads
  <2>1. <<HEADER1, HEADER2>> \in Seq(Byte) /\ Len(<<HEADER1, HEADER2>>) = 2
    BY <1>2
  <2> QED
    BY <1>1, <1>3, <2>1
<1> HIDE DEF head
<1>5. calculate_checksum(head) = Sum(head, n)
  <2>1. CASE n = 4
    BY <1>4, <2>1, Checksum DEF Sum, StatusLength
  <2>2. CASE n = 5
    BY <1>4, <2>2, Checksum DEF Sum, StatusLength
  <2> QED
    BY <1>1, <2>1, <2>2
<1>6. Sum(head, n) \in Byte
  <2>1. /\ head[1] \in Byte /\ head[2] \in Byte /\ head[3] \in Byte
        /\ n = 5 => head[4] \in Byte
    BY <1>1, <1>4
  <2>2. Xor(Xor(Xor({}, head[1]), head[2]), head[3]) \in Byte
    BY <1>2, <2>1, XorByte
  <2> QED
    BY <1>1, <2>1, <2>2, XorByte DEF Sum, StatusLength
<1>7. Packet(p) = Append(head, Sum(head, n))
  BY <1>5 DEF Packet, head
<1>8. /\ Packet(p) \in Seq(Byte) /\ Len(Packet(p)) = n
      /\ \A i \in 1..(n - 1) : Packet(p)[i] = head[i]
      /\ Packet(p)[n] = Sum(head, n)
  BY <1>1, <1>4, <1>6, <1>7
<1>9. /\ Packet(p)[1] = HEADER1 /\ Packet(p)[2] = HEADER2
      /\ \A i \in 3..(n - 1) : Packet(p)[i] = p[i - 2]
  BY <1>1, <1>4, <1>8
<1>10. Sum(Packet(p), n) = Sum(head, n)
  BY <1>1, <1>8 DEF Sum, StatusLength
<1> QED
  BY <1>8, <1>9, <1>10

LEMMA PlainCells ==
  ASSUME NEW n \in Length, NEW p \in Payloads(n), Plain(p)
  PROVE  \A i \in 3..n : Packet(p)[i] # HEADER1 /\ Packet(p)[i] # HEADER2
  BY PacketCells DEF Plain

\* The checksum of a packet that has lost its byte after the k-th is that byte.
LEMMA GapSum ==
  ASSUME NEW n \in Length, NEW a, NEW b, NEW k \in 2..(n - 1), b[n] = Sum(b, n),
         \A i \in 1..k : a[i] = b[i], \A i \in (k + 1)..(n - 1) : a[i] = b[i + 1]
  PROVE  Sum(a, n) = b[k + 1]
<1>1. n = 4 \/ n = 5
  BY DEF Length, CommandLength, StatusLength
<1>2. a[1] = b[1] /\ a[2] = b[2]
  BY <1>1
<1> DEFINE x == Xor(Xor({}, a[1]), a[2])
<1>3. x = Xor(Xor({}, b[1]), b[2])
  BY <1>2
<1>4. /\ Sum(a, n) = IF n = 4 THEN Xor(x, a[3]) ELSE Xor(Xor(x, a[3]), a[4])
      /\ Sum(b, n) = IF n = 4 THEN Xor(x, b[3]) ELSE Xor(Xor(x, b[3]), b[4])
  BY <1>3 DEF Sum, StatusLength
<1> HIDE DEF x
<1>5. CASE n = 4 /\ k = 2
  <2>1. a[3] = b[4] /\ b[4] = Xor(x, b[3]) /\ Sum(a, n) = Xor(x, a[3])
    BY <1>4, <1>5
  <2> QED
    BY <1>5, <2>1, XorTwice
<1>6. CASE n = 4 /\ k = 3
  <2>1. a[3] = b[3] /\ b[4] = Xor(x, b[3]) /\ Sum(a, n) = Xor(x, a[3])
    BY <1>4, <1>6
  <2> QED
    BY <1>6, <2>1
<1>7. CASE n = 5 /\ k = 2
  <2>1. /\ a[3] = b[4] /\ a[4] = b[5] /\ b[5] = Xor(Xor(x, b[3]), b[4])
        /\ Sum(a, n) = Xor(Xor(x, a[3]), a[4])
    BY <1>4, <1>7
  <2> DEFINE y == Xor(x, b[3])
  <2>2. Sum(a, n) = Xor(Xor(x, b[4]), Xor(y, b[4])) /\ y = Xor(x, b[3])
    BY <2>1
  <2> HIDE DEF y
  <2>3. Xor(Xor(x, b[4]), Xor(y, b[4])) = Xor(x, y)
    BY DEF Xor
  <2> QED
    BY <1>7, <2>2, <2>3, XorTwice
<1>8. CASE n = 5 /\ k = 3
  <2>1. /\ a[3] = b[3] /\ a[4] = b[5] /\ b[5] = Xor(Xor(x, b[3]), b[4])
        /\ Sum(a, n) = Xor(Xor(x, a[3]), a[4])
    BY <1>4, <1>8
  <2> QED
    BY <1>8, <2>1, XorTwice
<1>9. CASE n = 5 /\ k = 4
  <2>1. /\ a[3] = b[3] /\ a[4] = b[4] /\ b[5] = Xor(Xor(x, b[3]), b[4])
        /\ Sum(a, n) = Xor(Xor(x, a[3]), a[4])
    BY <1>4, <1>9
  <2> QED
    BY <1>9, <2>1
<1> QED
  BY <1>1, <1>5, <1>6, <1>7, <1>8, <1>9
-----------------------------------------------------------------------------
\* A stream of cells: what a parser of packets of length n holds, and what is
\* still to come.
Right(cell) == cell.byte = Packet(cell.of)[cell.at]
Follows(a, b, n) == \/ b.of = a.of /\ b.at = a.at + 1
                    \/ a.at = n /\ b.at = 1
Skips(a, b, n) == \/ b.of = a.of /\ b.at = a.at + 2
                  \/ a.at = n - 1 /\ b.at = 1
                  \/ a.at = n /\ b.at = 2

\* Whole packets, as they were sent.
Clean(s, n) ==
  /\ \A i \in 1..Len(s) : Right(s[i])
  /\ \A i \in 1..(Len(s) - 1) : Follows(s[i], s[i + 1], n)
  /\ s # <<>> => s[1].at = 1 /\ s[Len(s)].at = n

\* The k-th cell may have another byte, and the stream may begin anywhere.
Changed(s, n, k) ==
  /\ \A i \in 1..Len(s) : i # k => Right(s[i])
  /\ \A i \in 1..(Len(s) - 1) : Follows(s[i], s[i + 1], n)
  /\ s # <<>> => s[Len(s)].at = n

\* A cell is missing after the k-th.
Gapped(s, n, k) ==
  /\ k \in 1..Len(s)
  /\ \A i \in 1..Len(s) : Right(s[i])
  /\ \A i \in 1..(Len(s) - 1) : i # k => Follows(s[i], s[i + 1], n)
  /\ k = Len(s) => s[k].at = n - 1
  /\ k # Len(s) => Skips(s[k], s[k + 1], n) /\ s[Len(s)].at = n

Near(s, n) == \E k \in Int : Changed(s, n, k) \/ Gapped(s, n, k)

LEMMA CleanIsNear == ASSUME NEW s, NEW n, Clean(s, n) PROVE Changed(s, n, 0) /\ Near(s, n)
  BY DEF Clean, Changed, Near

Drop(s, d) == SubSeq(s, d + 1, Len(s))

LEMMA DropCells ==
  ASSUME NEW S, NEW s \in Seq(S), NEW d \in 0..Len(s), NEW t, t = Drop(s, d)
  PROVE  /\ t \in Seq(S) /\ Len(t) = Len(s) - d /\ Len(s) \in Nat
         /\ \A i \in 1..Len(t) : t[i] = s[i + d] /\ i + d \in 1..Len(s)
         /\ \A i \in 1..(Len(t) - 1) :
              /\ t[i] = s[i + d] /\ t[i + 1] = s[i + d + 1]
              /\ i + d \in 1..(Len(s) - 1)
<1>1. /\ t \in Seq(S) /\ Len(t) = Len(s) - d /\ Len(s) \in Nat
      /\ \A i \in 1..Len(t) : t[i] = s[i + d]
  BY DEF Drop
<1>2. \A i \in 1..Len(t) : i + d \in 1..Len(s)
  BY <1>1
<1>3. ASSUME NEW i \in 1..(Len(t) - 1)
      PROVE  /\ t[i] = s[i + d] /\ t[i + 1] = s[i + d + 1]
             /\ i + d \in 1..(Len(s) - 1)
  <2>1. i \in 1..Len(t) /\ i + 1 \in 1..Len(t) /\ (i + 1) + d = i + d + 1
    BY <1>1
  <2>2. i + d \in 1..(Len(s) - 1)
    BY <1>1
  <2>3. t[i] = s[i + d] /\ t[i + 1] = s[(i + 1) + d]
    BY <1>1, <2>1
  <2> QED
    BY <2>1, <2>2, <2>3
<1> QED
  BY <1>1, <1>2, <1>3

\* What is left of a stream is no worse than the stream.
LEMMA DropNear ==
  ASSUME NEW S, NEW s \in Seq(S), NEW n, Near(s, n), NEW d \in 0..Len(s)
  PROVE  Near(Drop(s, d), n)
<1> DEFINE t == Drop(s, d)
<1>1. /\ t \in Seq(S) /\ Len(t) = Len(s) - d /\ Len(s) \in Nat
      /\ \A i \in 1..Len(t) : t[i] = s[i + d] /\ i + d \in 1..Len(s)
      /\ \A i \in 1..(Len(t) - 1) :
           /\ t[i] = s[i + d] /\ t[i + 1] = s[i + d + 1] /\ i + d \in 1..(Len(s) - 1)
  BY DropCells
<1>2. t # <<>> => Len(t) \in 1..Len(t) /\ t[Len(t)] = s[Len(s)] /\ s # <<>>
  BY <1>1
<1> HIDE DEF t
<1>3. PICK k \in Int : Changed(s, n, k) \/ Gapped(s, n, k)
  BY DEF Near
<1>4. CASE Changed(s, n, k)
  <2>1. ASSUME NEW i \in 1..Len(t), i # k - d PROVE Right(t[i])
    BY <1>1, <1>3, <1>4, <2>1 DEF Changed
  <2>2. ASSUME NEW i \in 1..(Len(t) - 1) PROVE Follows(t[i], t[i + 1], n)
    BY <1>1, <1>4, <2>2 DEF Changed
  <2>3. t # <<>> => t[Len(t)].at = n
    BY <1>2, <1>4 DEF Changed
  <2>4. Changed(t, n, k - d)
    BY <2>1, <2>2, <2>3 DEF Changed
  <2> QED
    BY <1>3, <2>4 DEF Near, t
<1>5. CASE Gapped(s, n, k) /\ k <= d
  <2>1. ASSUME NEW i \in 1..Len(t) PROVE Right(t[i])
    BY <1>1, <1>5, <2>1 DEF Gapped
  <2>2. ASSUME NEW i \in 1..(Len(t) - 1) PROVE Follows(t[i], t[i + 1], n)
    <3>1. i + d # k
      BY <1>3, <1>5
    <3> QED
      BY <1>1, <1>5, <3>1 DEF Gapped
  <2>3. t # <<>> => t[Len(t)].at = n
    <3>1. t # <<>> => k # Len(s)
      BY <1>1, <1>3, <1>5
    <3> QED
      BY <1>2, <1>5, <3>1 DEF Gapped
  <2>4. Changed(t, n, 0)
    BY <2>1, <2>2, <2>3 DEF Changed
  <2> QED
    BY <2>4 DEF Near, t
<1>6. CASE Gapped(s, n, k) /\ ~(k <= d)
  <2>1. /\ k - d \in 1..Len(t) /\ (k - d = Len(t) <=> k = Len(s))
        /\ t # <<>> /\ (k - d) + 1 + d = k + 1 /\ (k - d) + d = k
    BY <1>1, <1>3, <1>6 DEF Gapped
  <2>2. t[k - d] = s[k] /\ (k # Len(s) => t[k - d + 1] = s[k + 1])
    <3>1. k # Len(s) => k - d \in 1..(Len(t) - 1)
      BY <1>1, <1>3, <2>1
    <3> QED
      BY <1>1, <2>1, <3>1
  <2>3. ASSUME NEW i \in 1..Len(t) PROVE Right(t[i])
    BY <1>1, <1>6, <2>3 DEF Gapped
  <2>4. ASSUME NEW i \in 1..(Len(t) - 1), i # k - d PROVE Follows(t[i], t[i + 1], n)
    <3>1. i + d # k
      BY <1>3, <2>4
    <3> QED
      BY <1>1, <1>6, <3>1 DEF Gapped
  <2>5. /\ k - d = Len(t) => t[k - d].at = n - 1
        /\ k - d # Len(t) => /\ Skips(t[k - d], t[k - d + 1], n)
                             /\ t[Len(t)].at = n
    BY <1>2, <1>6, <2>1, <2>2 DEF Gapped
  <2>6. Gapped(t, n, k - d)
    BY <2>1, <2>3, <2>4, <2>5 DEF Gapped
  <2> QED
    BY <1>3, <2>6 DEF Near, t
<1> QED
  BY <1>3, <1>4, <1>5, <1>6

LEMMA DropClean ==
  ASSUME NEW S, NEW s \in Seq(S), NEW n \in Length, Clean(s, n), NEW d \in 0..Len(s),
         d = 0 \/ s[d].at = n, \A i \in 1..Len(s) : s[i].at \in 1..n
  PROVE  Clean(Drop(s, d), n)
<1> DEFINE t == Drop(s, d)
<1>1. /\ t \in Seq(S) /\ Len(t) = Len(s) - d /\ Len(s) \in Nat
      /\ \A i \in 1..Len(t) : t[i] = s[i + d] /\ i + d \in 1..Len(s)
      /\ \A i \in 1..(Len(t) - 1) :
           /\ t[i] = s[i + d] /\ t[i + 1] = s[i + d + 1] /\ i + d \in 1..(Len(s) - 1)
  BY DropCells
<1> HIDE DEF t
<1>2. ASSUME NEW i \in 1..Len(t) PROVE Right(t[i])
  BY <1>1, <1>2 DEF Clean
<1>3. ASSUME NEW i \in 1..(Len(t) - 1) PROVE Follows(t[i], t[i + 1], n)
  BY <1>1, <1>3 DEF Clean
<1>4. ASSUME t # <<>> PROVE t[1].at = 1 /\ t[Len(t)].at = n
  <2>1. /\ 1 \in 1..Len(t) /\ Len(t) \in 1..Len(t) /\ s # <<>>
        /\ t[1] = s[d + 1] /\ t[Len(t)] = s[Len(s)]
    BY <1>1, <1>4
  <2>2. CASE d = 0
    BY <2>1, <2>2 DEF Clean
  <2>3. CASE d # 0
    <3>1. d \in 1..(Len(s) - 1) /\ s[d].at = n
      <4>1. Len(t) >= 1
        BY <1>1, <2>1
      <4> QED
        BY <1>1, <2>3, <4>1
    <3>2. Follows(s[d], s[d + 1], n) /\ s[d + 1].at \in 1..n /\ n \in Int
      BY <3>1, <1>1 DEF Clean, Length, CommandLength, StatusLength
    <3> QED
      BY <2>1, <3>1, <3>2 DEF Follows, Clean
  <2> QED
    BY <2>2, <2>3
<1> QED
  BY <1>2, <1>3, <1>4 DEF Clean, t
-----------------------------------------------------------------------------
LEMMA SentCells ==
  ASSUME NEW n \in Length, NEW p \in Payloads(n)
  PROVE  /\ Sent(p) \in Seq(Cell(n)) /\ Len(Sent(p)) = n
         /\ \A i \in 1..n : /\ Sent(p)[i].of = p /\ Sent(p)[i].at = i
                            /\ Right(Sent(p)[i])
<1>0. n \in Nat
  BY DEF Length, CommandLength, StatusLength
<1>1. Packet(p) \in Seq(Byte) /\ Len(Packet(p)) = n /\ n \in Nat
  BY <1>0, PacketCells
<1>2. Sent(p) = [i \in 1..n |-> [byte |-> Packet(p)[i], of |-> p, at |-> i]]
  BY <1>1 DEF Sent
<1>3. \A i \in 1..n : [byte |-> Packet(p)[i], of |-> p, at |-> i] \in Cell(n)
  BY <1>1 DEF Cell
<1> QED
  BY <1>1, <1>2, <1>3 DEF Right

LEMMA JoinCells ==
  ASSUME NEW S, NEW s \in Seq(S), NEW t \in Seq(S), NEW u, u = s \o t
  PROVE  /\ u \in Seq(S) /\ Len(u) = Len(s) + Len(t) /\ Len(s) \in Nat
         /\ \A i \in 1..Len(s) : u[i] = s[i]
         /\ \A i \in 1..Len(t) : u[Len(s) + i] = t[i]
         /\ \A i \in 1..Len(u) : i \notin 1..Len(s) =>
              i - Len(s) \in 1..Len(t) /\ u[i] = t[i - Len(s)]
<1>1. u \in Seq(S) /\ Len(u) = Len(s) + Len(t) /\ Len(s) \in Nat /\ Len(t) \in Nat
  OBVIOUS
<1>2. ASSUME NEW i \in 1..(Len(s) + Len(t))
      PROVE  u[i] = IF i <= Len(s) THEN s[i] ELSE t[i - Len(s)]
  OBVIOUS
<1>3. \A i \in 1..Len(s) : u[i] = s[i]
  BY <1>1, <1>2
<1>4. ASSUME NEW i \in 1..Len(t) PROVE u[Len(s) + i] = t[i]
  <2>1. /\ Len(s) + i \in 1..(Len(s) + Len(t))
        /\ ~(Len(s) + i <= Len(s)) /\ Len(s) + i - Len(s) = i
    BY <1>1
  <2> QED
    BY <1>2, <2>1
<1>5. ASSUME NEW i \in 1..Len(u), i \notin 1..Len(s)
      PROVE  i - Len(s) \in 1..Len(t) /\ u[i] = t[i - Len(s)]
  <2>1. /\ i \in 1..(Len(s) + Len(t)) /\ ~(i <= Len(s))
        /\ i - Len(s) \in 1..Len(t)
    BY <1>1, <1>5
  <2> QED
    BY <1>2, <2>1
<1> QED
  BY <1>1, <1>3, <1>4, <1>5

\* What is the same for every kind of stream: the packet sent follows the last
\* cell of a packet, and its own cells follow each other.
Extended(u, s, n) ==
  /\ u \in Seq(Cell(n)) /\ Len(u) = Len(s) + n /\ Len(s) \in Nat
  /\ u # <<>> /\ u[Len(u)].at = n /\ u[Len(s) + 1].at = 1
  /\ \A i \in 1..Len(s) : u[i] = s[i]
  /\ \A i \in 1..Len(u) : i \notin 1..Len(s) => Right(u[i])
  /\ \A i \in (Len(s) + 1)..(Len(u) - 1) : Follows(u[i], u[i + 1], n)

LEMMA SendFollows ==
  ASSUME NEW n \in Length, NEW s \in Seq(Cell(n)), NEW p \in Payloads(n)
  PROVE  Extended(s \o Sent(p), s, n)
<1> DEFINE t == Sent(p)
           u == s \o t
<1>1. /\ t \in Seq(Cell(n)) /\ Len(t) = n
      /\ \A i \in 1..n : t[i].of = p /\ t[i].at = i /\ Right(t[i])
  BY SentCells
<1>2. n \in Nat \ {0}
  BY DEF Length, CommandLength, StatusLength
<1> HIDE DEF t
<1>3. u = s \o t
  OBVIOUS
<1> HIDE DEF u
<1>4. /\ u \in Seq(Cell(n)) /\ Len(u) = Len(s) + n /\ Len(s) \in Nat
      /\ \A i \in 1..Len(s) : u[i] = s[i]
      /\ \A i \in 1..n : u[Len(s) + i] = t[i]
      /\ \A i \in 1..Len(u) : i \notin 1..Len(s) =>
           i - Len(s) \in 1..n /\ u[i] = t[i - Len(s)]
  <2>1. t \in Seq(Cell(n)) /\ Len(t) = n
    BY <1>1
  <2> QED
    BY <1>3, <2>1, JoinCells
<1>5. u # <<>> /\ u[Len(u)].at = n /\ u[Len(s) + 1].at = 1
  <2>1. 1 \in 1..n /\ n \in 1..n
    BY <1>2
  <2>2. u[Len(s) + n] = t[n] /\ u[Len(s) + 1] = t[1]
    BY <1>4, <2>1
  <2>3. Len(u) # 0
    BY <1>2, <1>4
  <2> QED
    BY <1>1, <1>4, <2>1, <2>2, <2>3
<1>6. \A i \in 1..Len(u) : i \notin 1..Len(s) => Right(u[i])
  BY <1>1, <1>4
<1>7. ASSUME NEW i \in (Len(s) + 1)..(Len(u) - 1) PROVE Follows(u[i], u[i + 1], n)
  <2> DEFINE j == i - Len(s)
  <2>1. j \in 1..n /\ j + 1 \in 1..n /\ Len(s) + j = i /\ Len(s) + (j + 1) = i + 1
    BY <1>2, <1>4
  <2> HIDE DEF j
  <2>2. u[i] = t[j] /\ u[i + 1] = t[j + 1]
    BY <1>4, <2>1
  <2> QED
    BY <1>1, <2>1, <2>2 DEF Follows
<1>8. Extended(u, s, n)
  BY <1>4, <1>5, <1>6, <1>7 DEF Extended
<1> QED
  BY <1>8 DEF t, u

LEMMA SendClean ==
  ASSUME NEW n \in Length, NEW s \in Seq(Cell(n)), NEW p \in Payloads(n), Clean(s, n)
  PROVE  Clean(s \o Sent(p), n)
<1> DEFINE u == s \o Sent(p)
<1>1. /\ Len(u) = Len(s) + n /\ Len(s) \in Nat /\ u # <<>>
      /\ u[Len(u)].at = n /\ u[Len(s) + 1].at = 1
      /\ \A i \in 1..Len(s) : u[i] = s[i]
      /\ \A i \in 1..Len(u) : i \notin 1..Len(s) => Right(u[i])
      /\ \A i \in (Len(s) + 1)..(Len(u) - 1) : Follows(u[i], u[i + 1], n)
  <2>1. Extended(u, s, n)
    BY SendFollows
  <2> QED
    BY <2>1 DEF Extended
<1> HIDE DEF u
<1>2. ASSUME NEW i \in 1..Len(u) PROVE Right(u[i])
  BY <1>1 DEF Clean
<1>3. ASSUME NEW i \in 1..(Len(u) - 1) PROVE Follows(u[i], u[i + 1], n)
  <2>1. CASE i < Len(s)
    <3>1. i \in 1..(Len(s) - 1) /\ i \in 1..Len(s) /\ i + 1 \in 1..Len(s)
      BY <1>1, <2>1
    <3> QED
      BY <1>1, <3>1 DEF Clean
  <2>2. CASE i = Len(s)
    <3>1. i \in 1..Len(s) /\ s # <<>>
      BY <1>1, <2>2
    <3> QED
      BY <1>1, <2>2, <3>1 DEF Clean, Follows
  <2>3. CASE i > Len(s)
    <3>1. i \in (Len(s) + 1)..(Len(u) - 1)
      BY <1>1, <2>3
    <3> QED
      BY <1>1, <3>1
  <2> QED
    BY <1>1, <2>1, <2>2, <2>3
<1>4. u[1].at = 1
  <2>1. CASE Len(s) = 0
    BY <1>1, <2>1
  <2>2. CASE Len(s) # 0
    <3>1. 1 \in 1..Len(s) /\ s # <<>>
      BY <1>1, <2>2
    <3> QED
      BY <1>1, <3>1 DEF Clean
  <2> QED
    BY <2>1, <2>2
<1> QED
  BY <1>1, <1>2, <1>3, <1>4 DEF Clean, u

LEMMA SendNear ==
  ASSUME NEW n \in Length, NEW s \in Seq(Cell(n)), NEW p \in Payloads(n), Near(s, n)
  PROVE  Near(s \o Sent(p), n)
<1> DEFINE u == s \o Sent(p)
<1>1. /\ Len(u) = Len(s) + n /\ Len(s) \in Nat /\ u # <<>>
      /\ u[Len(u)].at = n /\ u[Len(s) + 1].at = 1
      /\ \A i \in 1..Len(s) : u[i] = s[i]
      /\ \A i \in 1..Len(u) : i \notin 1..Len(s) => Right(u[i])
      /\ \A i \in (Len(s) + 1)..(Len(u) - 1) : Follows(u[i], u[i + 1], n)
  <2>1. Extended(u, s, n)
    BY SendFollows
  <2> QED
    BY <2>1 DEF Extended
<1> HIDE DEF u
<1>2. n \in Nat \ {0}
  BY DEF Length, CommandLength, StatusLength
<1>3. PICK k \in Int : Changed(s, n, k) \/ Gapped(s, n, k)
  BY DEF Near
<1>4. ASSUME NEW i \in 1..(Len(u) - 1), i < Len(s)
      PROVE  i \in 1..(Len(s) - 1) /\ u[i] = s[i] /\ u[i + 1] = s[i + 1]
  <2>1. i \in 1..(Len(s) - 1) /\ i \in 1..Len(s) /\ i + 1 \in 1..Len(s)
    BY <1>1, <1>4
  <2> QED
    BY <1>1, <2>1
<1>5. ASSUME Len(s) # 0 PROVE u[Len(s)] = s[Len(s)] /\ s # <<>>
  <2>1. Len(s) \in 1..Len(s)
    BY <1>1, <1>5
  <2> QED
    BY <1>1, <1>5, <2>1
<1>6. CASE Changed(s, n, k)
  <2>1. ASSUME NEW i \in 1..Len(u), i # k PROVE Right(u[i])
    BY <1>1, <1>6, <2>1 DEF Changed
  <2>2. ASSUME NEW i \in 1..(Len(u) - 1) PROVE Follows(u[i], u[i + 1], n)
    <3>1. CASE i < Len(s)
      BY <1>4, <1>6, <3>1 DEF Changed
    <3>2. CASE i = Len(s)
      BY <1>1, <1>5, <1>6, <3>2 DEF Changed, Follows
    <3>3. CASE i > Len(s)
      BY <1>1, <3>3
    <3> QED
      BY <1>1, <3>1, <3>2, <3>3
  <2>3. Changed(u, n, k)
    BY <1>1, <2>1, <2>2 DEF Changed
  <2> QED
    BY <1>3, <2>3 DEF Near, u
<1>7. CASE Gapped(s, n, k)
  <2>1. k \in 1..Len(s) /\ k \in 1..Len(u) /\ k # Len(u) /\ Len(s) # 0
    BY <1>1, <1>2, <1>7 DEF Gapped
  <2>2. ASSUME NEW i \in 1..Len(u) PROVE Right(u[i])
    BY <1>1, <1>7, <2>2 DEF Gapped
  <2>3. ASSUME NEW i \in 1..(Len(u) - 1), i # k PROVE Follows(u[i], u[i + 1], n)
    <3>1. CASE i < Len(s)
      BY <1>4, <1>7, <2>3, <3>1 DEF Gapped
    <3>2. CASE i = Len(s)
      <4>1. s[i].at = n
        BY <1>7, <2>3, <3>2 DEF Gapped
      <4> QED
        BY <1>1, <1>5, <2>1, <3>2, <4>1 DEF Follows
    <3>3. CASE i > Len(s)
      BY <1>1, <3>3
    <3> QED
      BY <1>1, <3>1, <3>2, <3>3
  <2>4. Skips(u[k], u[k + 1], n)
    <3>1. CASE k = Len(s)
      <4>1. s[k].at = n - 1
        BY <1>7, <3>1 DEF Gapped
      <4> QED
        BY <1>1, <1>5, <2>1, <3>1, <4>1 DEF Skips
    <3>2. CASE k # Len(s)
      <4>1. k \in 1..(Len(u) - 1) /\ k < Len(s)
        BY <1>1, <1>2, <2>1, <3>2
      <4> QED
        BY <1>4, <1>7, <3>2, <4>1 DEF Gapped
    <3> QED
      BY <3>1, <3>2
  <2>5. Gapped(u, n, k)
    BY <1>1, <2>1, <2>2, <2>3, <2>4 DEF Gapped
  <2> QED
    BY <1>3, <2>5 DEF Near, u
<1> QED
  BY <1>3, <1>6, <1>7
-----------------------------------------------------------------------------
Replaced(t, s, k, b, n) ==
  /\ t \in Seq(Cell(n)) /\ Len(t) = Len(s)
  /\ \A i \in 1..Len(s) : i # k => t[i] = s[i]
  /\ \A i \in 1..Len(s) : t[i].of = s[i].of /\ t[i].at = s[i].at
  /\ t[k] = [s[k] EXCEPT !.byte = b]

LEMMA ChangeCells ==
  ASSUME NEW n \in Length, NEW s \in Seq(Cell(n)), NEW k \in 1..Len(s), NEW b \in Byte
  PROVE  Replaced([s EXCEPT ![k].byte = b], s, k, b, n)
<1> DEFINE t == [s EXCEPT ![k].byte = b]
<1>1. Len(s) \in Nat /\ DOMAIN s = 1..Len(s) /\ \A i \in 1..Len(s) : s[i] \in Cell(n)
  OBVIOUS
<1>2. t = [i \in 1..Len(s) |-> IF i = k THEN [s[k] EXCEPT !.byte = b] ELSE s[i]]
  BY <1>1
<1>3. /\ [s[k] EXCEPT !.byte = b] \in Cell(n)
      /\ [s[k] EXCEPT !.byte = b].of = s[k].of /\ [s[k] EXCEPT !.byte = b].at = s[k].at
  BY <1>1 DEF Cell
<1>4. \A i \in 1..Len(s) : t[i] = IF i = k THEN [s[k] EXCEPT !.byte = b] ELSE s[i]
  BY <1>2
<1>5. \A i \in 1..Len(s) : t[i] \in Cell(n)
  BY <1>1, <1>3, <1>4
<1>6. t \in Seq(Cell(n)) /\ Len(t) = Len(s)
  <2>1. t \in [1..Len(s) -> Cell(n)]
    BY <1>2, <1>4, <1>5
  <2> QED
    BY <1>1, <2>1
<1> HIDE DEF t
<1>7. Replaced(t, s, k, b, n)
  BY <1>3, <1>4, <1>6 DEF Replaced
<1> QED
  BY <1>7 DEF t

\* A byte that changes leaves one cell wrong at most.
LEMMA ChangeNear ==
  ASSUME NEW n \in Length, NEW s \in Seq(Cell(n)), NEW k \in 1..Len(s), NEW b \in Byte,
         Clean(s, n)
  PROVE  Near([s EXCEPT ![k].byte = b], n)
<1> DEFINE t == [s EXCEPT ![k].byte = b]
<1>1. /\ Len(t) = Len(s) /\ Len(s) \in Nat
      /\ \A i \in 1..Len(s) : i # k => t[i] = s[i]
      /\ \A i \in 1..Len(s) : t[i].of = s[i].of /\ t[i].at = s[i].at
  <2>1. Replaced(t, s, k, b, n)
    BY ChangeCells
  <2> QED
    BY <2>1 DEF Replaced
<1> HIDE DEF t
<1>2. ASSUME NEW i \in 1..Len(t), i # k PROVE Right(t[i])
  BY <1>1, <1>2 DEF Clean
<1>3. ASSUME NEW i \in 1..(Len(t) - 1) PROVE Follows(t[i], t[i + 1], n)
  <2>1. i \in 1..Len(s) /\ i + 1 \in 1..Len(s) /\ i \in 1..(Len(s) - 1)
    BY <1>1
  <2>2. Follows(s[i], s[i + 1], n)
    BY <2>1 DEF Clean
  <2> QED
    BY <1>1, <2>1, <2>2 DEF Follows
<1>4. t[Len(t)].at = n
  <2>1. Len(s) \in 1..Len(s) /\ s # <<>>
    BY <1>1
  <2> QED
    BY <1>1, <2>1 DEF Clean
<1>5. Changed(t, n, k)
  BY <1>2, <1>3, <1>4 DEF Changed
<1> QED
  BY <1>5 DEF Near, t

Removed(t, s, k, S) ==
  /\ t \in Seq(S) /\ Len(t) = Len(s) - 1 /\ Len(s) \in Nat
  /\ \A i \in 1..(k - 1) : t[i] = s[i]
  /\ \A i \in k..Len(t) : t[i] = s[i + 1]

LEMMA RemoveCells ==
  ASSUME NEW S, NEW s \in Seq(S), NEW k \in 1..Len(s)
  PROVE  Removed(RemoveAt(s, k), s, k, S)
<1> DEFINE t == RemoveAt(s, k)
           a == SubSeq(s, 1, k - 1)
           b == SubSeq(s, k + 1, Len(s))
<1>1. /\ a \in Seq(S) /\ Len(a) = k - 1 /\ \A i \in 1..(k - 1) : a[i] = s[i]
      /\ Len(s) \in Nat
  OBVIOUS
<1>2. /\ b \in Seq(S) /\ Len(b) = Len(s) - k
      /\ \A i \in 1..(Len(s) - k) : b[i] = s[i + k]
  OBVIOUS
<1>3. t = a \o b
  BY DEF RemoveAt
<1> HIDE DEF a, b, t
<1>4. /\ t \in Seq(S) /\ Len(t) = Len(a) + Len(b)
      /\ \A i \in 1..Len(a) : t[i] = a[i]
      /\ \A i \in 1..Len(t) : i \notin 1..Len(a) =>
           i - Len(a) \in 1..Len(b) /\ t[i] = b[i - Len(a)]
  <2>1. a \in Seq(S) /\ b \in Seq(S)
    BY <1>1, <1>2
  <2> QED
    BY <1>3, <2>1, JoinCells
<1>5. ASSUME NEW i \in k..Len(t) PROVE t[i] = s[i + 1]
  <2> DEFINE j == i - (k - 1)
  <2>1. i \in 1..Len(t) /\ i \notin 1..Len(a) /\ j + k = i + 1
    BY <1>1, <1>2, <1>4
  <2>2. j \in 1..Len(b) /\ t[i] = b[j]
    BY <1>1, <1>4, <2>1
  <2> HIDE DEF j
  <2>3. b[j] = s[j + k]
    BY <1>2, <2>2
  <2> QED
    BY <2>1, <2>2, <2>3
<1>6. Removed(t, s, k, S)
  BY <1>1, <1>2, <1>4, <1>5 DEF Removed
<1> QED
  BY <1>6 DEF t

LEMMA FollowsTwice ==
  ASSUME NEW n \in Nat, n >= 4, NEW a, NEW b, NEW c, a.at \in 1..n, b.at \in 1..n,
         Follows(a, b, n), Follows(b, c, n)
  PROVE  Skips(a, c, n)
<1>1. CASE b.of = a.of /\ b.at = a.at + 1
  <2>1. CASE c.of = b.of /\ c.at = b.at + 1
    BY <1>1, <2>1 DEF Skips
  <2>2. CASE b.at = n /\ c.at = 1
    BY <1>1, <2>2 DEF Skips
  <2> QED
    BY <2>1, <2>2 DEF Follows
<1>2. CASE a.at = n /\ b.at = 1
  BY <1>2 DEF Follows, Skips
<1> QED
  BY <1>1, <1>2 DEF Follows

\* A byte that is lost leaves one gap, or none at either end of the stream.
LEMMA RemoveNear ==
  ASSUME NEW n \in Length, NEW s \in Seq(Cell(n)), NEW k \in 1..Len(s), Clean(s, n)
  PROVE  Near(RemoveAt(s, k), n)
<1> DEFINE t == RemoveAt(s, k)
<1>1. /\ Len(t) = Len(s) - 1 /\ Len(s) \in Nat
      /\ \A i \in 1..(k - 1) : t[i] = s[i]
      /\ \A i \in k..Len(t) : t[i] = s[i + 1]
  <2>1. Removed(t, s, k, Cell(n))
    BY RemoveCells
  <2> QED
    BY <2>1 DEF Removed
<1>2. n \in Nat /\ n >= 4 /\ \A i \in 1..Len(s) : s[i] \in Cell(n)
  BY DEF Length, CommandLength, StatusLength
<1>3. \A i \in 1..Len(s) : s[i].at \in 1..n
  BY <1>2 DEF Cell
<1> HIDE DEF t
<1>4. ASSUME NEW i \in 1..Len(t) PROVE Right(t[i])
  <2>1. CASE i < k
    <3>1. i \in 1..(k - 1) /\ i \in 1..Len(s)
      BY <1>1, <2>1
    <3> QED
      BY <1>1, <3>1 DEF Clean
  <2>2. CASE ~(i < k)
    <3>1. i \in k..Len(t) /\ i + 1 \in 1..Len(s)
      BY <1>1, <2>2
    <3> QED
      BY <1>1, <3>1 DEF Clean
  <2> QED
    BY <2>1, <2>2
<1>5. ASSUME NEW i \in 1..(Len(t) - 1), i # k - 1 PROVE Follows(t[i], t[i + 1], n)
  <2>1. CASE i < k - 1
    <3>1. i \in 1..(k - 1) /\ i + 1 \in 1..(k - 1) /\ i \in 1..(Len(s) - 1)
      BY <1>1, <2>1
    <3> QED
      BY <1>1, <3>1 DEF Clean
  <2>2. CASE ~(i < k - 1)
    <3>1. i \in k..Len(t) /\ i + 1 \in k..Len(t) /\ i + 1 \in 1..(Len(s) - 1)
      BY <1>1, <1>5, <2>2
    <3> QED
      BY <1>1, <3>1 DEF Clean
  <2> QED
    BY <2>1, <2>2
<1>6. s # <<>> /\ s[Len(s)].at = n
  BY <1>1 DEF Clean
<1>7. ASSUME k # Len(s) PROVE t # <<>> /\ t[Len(t)].at = n
  <2>1. Len(t) \in k..Len(t) /\ Len(t) + 1 = Len(s) /\ Len(t) # 0
    BY <1>1, <1>7
  <2>2. t[Len(t)] = s[Len(s)]
    BY <1>1, <2>1
  <2> QED
    BY <1>6, <2>1, <2>2
<1>8. CASE k = 1
  <2>1. \A i \in 1..(Len(t) - 1) : i # k - 1
    BY <1>8
  <2>2. t # <<>> => k # Len(s)
    BY <1>1, <1>8
  <2>3. Changed(t, n, 0)
    BY <1>4, <1>5, <1>7, <2>1, <2>2 DEF Changed
  <2> QED
    BY <2>3 DEF Near, t
<1>9. CASE k # 1
  <2>1. /\ k - 1 \in 1..(Len(s) - 1) /\ k - 1 \in 1..(k - 1) /\ k - 1 + 1 = k
        /\ k - 1 \in 1..Len(s) /\ k - 1 \in 1..Len(t)
        /\ (k - 1 = Len(t) <=> k = Len(s))
    BY <1>1, <1>9
  <2>2. Follows(s[k - 1], s[k], n) /\ t[k - 1] = s[k - 1]
    BY <1>1, <2>1 DEF Clean
  <2>3. k = Len(s) => t[k - 1].at = n - 1
    BY <1>2, <1>3, <1>6, <2>1, <2>2 DEF Follows
  <2>4. ASSUME k # Len(s) PROVE Skips(t[k - 1], t[k], n)
    <3>1. k \in 1..(Len(s) - 1) /\ k \in k..Len(t) /\ k + 1 \in 1..Len(s)
      BY <1>1, <2>4
    <3>2. Follows(s[k], s[k + 1], n) /\ t[k] = s[k + 1]
      BY <1>1, <3>1 DEF Clean
    <3>3. s[k].at \in 1..n /\ s[k + 1].at \in 1..n /\ s[k - 1].at \in 1..n
      BY <1>3, <2>1, <3>1
    <3> QED
      BY <1>2, <2>2, <3>2, <3>3, FollowsTwice
  <2>5. Gapped(t, n, k - 1)
    BY <1>4, <1>5, <1>7, <2>1, <2>3, <2>4 DEF Gapped
  <2> QED
    BY <2>1, <2>5 DEF Near, t
<1> QED
  BY <1>8, <1>9
-----------------------------------------------------------------------------
\* The cells that make up a packet of the parser: the first n of the stream.
Held(s, packet, n) ==
  /\ s \in Seq(Cell(n)) /\ Len(s) >= n
  /\ packet \in Seq(Byte) /\ Len(packet) = n
  /\ \A i \in 1..n : packet[i] = s[i].byte

LEMMA HeldCells ==
  ASSUME NEW n \in Length, NEW s, NEW packet, Held(s, packet, n)
  PROVE  /\ n = 4 \/ n = 5
         /\ Len(s) \in Nat /\ Len(s) >= n
         /\ \A i \in 1..n : i \in 1..Len(s) /\ s[i] \in Cell(n)
         /\ \A i \in 1..n : s[i].at \in 1..n /\ s[i].of \in Payloads(n)
<1>1. (n = 4 \/ n = 5) /\ Len(s) \in Nat /\ Len(s) >= n
  BY DEF Length, CommandLength, StatusLength, Held
<1>2. \A i \in 1..n : i \in 1..Len(s) /\ s[i] \in Cell(n)
  BY <1>1 DEF Held
<1> QED
  BY <1>1, <1>2 DEF Cell

LEMMA PayloadIs ==
  ASSUME NEW n \in Length, NEW packet \in Seq(Byte), Len(packet) = n,
         NEW p \in Payloads(n), \A i \in 3..(n - 1) : packet[i] = p[i - 2]
  PROVE  Payload(packet) = p
<1>1. n = 4 \/ n = 5
  BY DEF Length, CommandLength, StatusLength
<1>2. p \in Seq(Byte) /\ Len(p) = n - 3
  BY <1>1 DEF Payloads
<1>3. Payload(packet) = SubSeq(packet, 3, n - 1)
  BY DEF Payload
<1>4. /\ SubSeq(packet, 3, n - 1) \in Seq(Byte)
      /\ Len(SubSeq(packet, 3, n - 1)) = n - 3
      /\ \A i \in 1..(n - 3) : SubSeq(packet, 3, n - 1)[i] = packet[i + 2]
  BY <1>1
<1>5. \A i \in 1..(n - 3) : packet[i + 2] = p[i]
  <2>1. \A i \in 1..(n - 3) : i + 2 \in 3..(n - 1) /\ (i + 2) - 2 = i
    BY <1>1
  <2> QED
    BY <2>1
<1> QED
  BY <1>2, <1>3, <1>4, <1>5, SeqEqual

\* Cells that follow each other from the first of a packet are that packet's.
LEMMA Chain ==
  ASSUME NEW n \in Length, NEW s, NEW packet, Held(s, packet, n), s[1].at = 1,
         NEW m \in 1..n, \A i \in 1..(m - 1) : Follows(s[i], s[i + 1], n)
  PROVE  \A i \in 1..m : s[i].at = i /\ s[i].of = s[1].of
<1>1. /\ n = 4 \/ n = 5
      /\ \A i \in 1..n : s[i].at \in 1..n
  BY HeldCells
<1>2. ASSUME NEW i \in 1..(m - 1), s[i].at = i, s[i].of = s[1].of
      PROVE  s[i + 1].at = i + 1 /\ s[i + 1].of = s[1].of
  <2>1. Follows(s[i], s[i + 1], n) /\ i # n
    BY <1>1
  <2> QED
    BY <1>2, <2>1 DEF Follows
<1>3. m >= 2 => s[2].at = 2 /\ s[2].of = s[1].of
  BY <1>1, <1>2
<1>4. m >= 3 => s[3].at = 3 /\ s[3].of = s[1].of
  BY <1>1, <1>2, <1>3
<1>5. m >= 4 => s[4].at = 4 /\ s[4].of = s[1].of
  BY <1>1, <1>2, <1>4
<1>6. m >= 5 => s[5].at = 5 /\ s[5].of = s[1].of
  BY <1>1, <1>2, <1>5
<1>7. \A i \in 1..m : i = 1 \/ i = 2 \/ i = 3 \/ i = 4 \/ i = 5
  BY <1>1
<1> QED
  BY <1>1, <1>3, <1>4, <1>5, <1>6, <1>7

\* What is held of a clean stream is the packet that was sent.
LEMMA AcceptClean ==
  ASSUME NEW n \in Length, NEW s, NEW packet, Held(s, packet, n), Clean(s, n)
  PROVE  Payload(packet) = s[n].of /\ s[n].at = n
<1>1. /\ n = 4 \/ n = 5
      /\ Len(s) \in Nat /\ Len(s) >= n
      /\ \A i \in 1..n : i \in 1..Len(s)
      /\ \A i \in 1..n : s[i].of \in Payloads(n)
  BY HeldCells
<1>2. s # <<>>
  BY <1>1
<1>3. s[1].at = 1 /\ \A i \in 1..(n - 1) : Follows(s[i], s[i + 1], n)
  BY <1>1, <1>2 DEF Clean
<1>4. \A i \in 1..n : s[i].at = i /\ s[i].of = s[1].of
  <2>1. n \in 1..n
    BY <1>1
  <2> QED
    BY <1>3, <2>1, Chain
<1>5. \A i \in 1..n : packet[i] = Packet(s[1].of)[i]
  BY <1>1, <1>4 DEF Held, Clean, Right
<1>6. s[1].of \in Payloads(n) /\ s[n].of = s[1].of /\ s[n].at = n
  BY <1>1, <1>4
<1>7. \A i \in 3..(n - 1) : packet[i] = s[1].of[i - 2]
  <2>1. \A i \in 3..(n - 1) : Packet(s[1].of)[i] = s[1].of[i - 2]
    BY <1>6, PacketCells
  <2> QED
    BY <1>1, <1>5, <2>1
<1> QED
  BY <1>6, <1>7, PayloadIs DEF Held

\* Two packets with right checksums do not differ in a single cell.
LEMMA OneCell ==
  ASSUME NEW n \in Length, NEW a, NEW b, NEW k \in 3..n,
         \A i \in 1..n : i # k => a[i] = b[i],
         a[n] = Sum(a, n), b[n] = Sum(b, n)
  PROVE  a[k] = b[k]
<1>1. n = 4 \/ n = 5
  BY DEF Length, CommandLength, StatusLength
<1>2. a[1] = b[1] /\ a[2] = b[2]
  BY <1>1
<1> DEFINE x == Xor(Xor({}, a[1]), a[2])
<1>3. x = Xor(Xor({}, b[1]), b[2])
  BY <1>2
<1>4. /\ Sum(a, n) = IF n = 4 THEN Xor(x, a[3]) ELSE Xor(Xor(x, a[3]), a[4])
      /\ Sum(b, n) = IF n = 4 THEN Xor(x, b[3]) ELSE Xor(Xor(x, b[3]), b[4])
  BY <1>3 DEF Sum, StatusLength
<1> HIDE DEF x
<1>5. CASE k = n
  <2>1. a[3] = b[3] /\ (n = 5 => a[4] = b[4])
    BY <1>1, <1>5
  <2> QED
    BY <1>1, <1>4, <1>5, <2>1
<1>6. CASE k # n
  <2>1. a[n] = b[n] /\ (k = 3 \/ (n = 5 /\ k = 4))
    <3>1. k = 3 \/ (n = 5 /\ k = 4)
      <4>1. k \in Int /\ 3 <= k /\ k <= n /\ k # n
        BY <1>1, <1>6
      <4> QED
        BY <1>1, <4>1
    <3>2. n \in 1..n /\ n # k
      BY <1>1, <1>6
    <3>3. a[n] = b[n]
      BY <3>2
    <3> QED
      BY <3>1, <3>3
  <2>2. CASE n = 4
    <3>1. Xor(x, a[3]) = Xor(x, b[3]) /\ k = 3
      BY <1>4, <2>1, <2>2
    <3> QED
      BY <3>1, XorCancel
  <2>3. CASE n = 5 /\ k = 4
    <3>1. a[3] = b[3] /\ Xor(Xor(x, a[3]), a[4]) = Xor(Xor(x, b[3]), b[4])
      BY <1>4, <2>1, <2>3
    <3>2. a[4] = b[4]
      BY <3>1, XorCancel
    <3> QED
      BY <2>3, <3>2
  <2>4. CASE n = 5 /\ k = 3
    <3>1. a[4] = b[4] /\ Xor(Xor(x, a[3]), a[4]) = Xor(Xor(x, b[3]), b[4])
      BY <1>4, <2>1, <2>4
    <3>2. Xor(a[4], Xor(x, a[3])) = Xor(a[4], Xor(x, b[3]))
      BY <3>1, XorCommutes
    <3>3. Xor(x, a[3]) = Xor(x, b[3])
      BY <3>2, XorCancel
    <3> QED
      BY <2>4, <3>3, XorCancel
  <2> QED
    BY <1>1, <2>1, <2>2, <2>3, <2>4
<1> QED
  BY <1>5, <1>6
PlainOf(cell) == Plain(cell.of)

\* A right cell shows which of the first two places it has.
LEMMA PlaceShown ==
  ASSUME NEW n \in Length, NEW cell \in Cell(n), PlainOf(cell), Right(cell)
  PROVE  /\ cell.byte = HEADER1 <=> cell.at = 1
         /\ cell.byte = HEADER2 <=> cell.at = 2
<1>1. cell.of \in Payloads(n) /\ cell.at \in 1..n /\ cell.byte = Packet(cell.of)[cell.at]
  BY DEF Cell, Right
<1>2. Packet(cell.of)[1] = HEADER1 /\ Packet(cell.of)[2] = HEADER2
  BY <1>1, PacketCells
<1>3. \A i \in 3..n : Packet(cell.of)[i] # HEADER1 /\ Packet(cell.of)[i] # HEADER2
  BY <1>1, PlainCells DEF PlainOf
<1>4. HEADER1 # HEADER2
  BY SerialAssumption
<1>5. cell.at = 1 \/ cell.at = 2 \/ cell.at \in 3..n
  BY <1>1 DEF Length, CommandLength, StatusLength
<1> QED
  BY <1>1, <1>2, <1>3, <1>4, <1>5

LEMMA ValidSum ==
  ASSUME NEW n \in Length, NEW packet \in Seq(Byte), Len(packet) = n, Valid(packet)
  PROVE  packet[n] = Sum(packet, n)
<1>1. Last(packet) = packet[n] /\ Front(packet) = SubSeq(packet, 1, n - 1)
  BY DEF Last, Front
<1> QED
  BY <1>1, ChecksumIsSum DEF Valid

\* A valid packet held of a stream with one changed cell is the packet that was
\* sent: the headers show where it begins, the checksum that it is unchanged.
LEMMA AcceptChanged ==
  ASSUME NEW n \in Length, NEW s, NEW packet, Held(s, packet, n), Valid(packet),
         \A i \in 1..n : PlainOf(s[i]),
         packet[1] = HEADER1, packet[2] = HEADER2,
         NEW k \in Int, \A i \in 1..n : i # k => Right(s[i]),
         \A i \in 1..(n - 1) : Follows(s[i], s[i + 1], n)
  PROVE  Payload(packet) = s[n].of /\ s[n].at = n
<1>1. /\ n = 4 \/ n = 5
      /\ \A i \in 1..n : s[i] \in Cell(n)
      /\ \A i \in 1..n : s[i].at \in 1..n /\ s[i].of \in Payloads(n)
  BY HeldCells
<1>2. /\ packet \in Seq(Byte) /\ Len(packet) = n
      /\ \A i \in 1..n : packet[i] = s[i].byte
  BY DEF Held
<1>3. 1 \in 1..n /\ 2 \in 1..n /\ n \in 1..n /\ 1 \in 1..(n - 1) /\ 1 + 1 = 2
  BY <1>1
<1>4. s[1].at = 1
  <2>1. CASE k # 1
    <3>1. Right(s[1]) /\ s[1].byte = HEADER1
      BY <1>2, <1>3, <2>1
    <3> QED
      BY <1>1, <1>3, <3>1, PlaceShown
  <2>2. CASE k = 1
    <3>1. Right(s[2]) /\ s[2].byte = HEADER2
      BY <1>2, <1>3, <2>2
    <3>2. s[2].at = 2
      BY <1>1, <1>3, <3>1, PlaceShown
    <3>3. Follows(s[1], s[2], n) /\ s[1].at \in 1..n
      BY <1>1, <1>3
    <3> QED
      BY <1>1, <3>2, <3>3 DEF Follows
  <2> QED
    BY <2>1, <2>2
<1>5. \A i \in 1..n : s[i].at = i /\ s[i].of = s[1].of
  BY <1>3, <1>4, Chain
<1> DEFINE p == s[1].of
<1>6. p \in Payloads(n) /\ s[n].of = p /\ s[n].at = n
  BY <1>1, <1>3, <1>5
<1> HIDE DEF p
<1>7. \A i \in 1..n : i # k => packet[i] = Packet(p)[i]
  BY <1>2, <1>5 DEF Right, p
<1>8. packet[n] = Sum(packet, n) /\ Packet(p)[n] = Sum(Packet(p), n)
  BY <1>2, <1>6, ValidSum, PacketCells
<1>9. \A i \in 3..n : packet[i] = Packet(p)[i]
  <2>1. CASE k \in 3..n
    <3>1. packet[k] = Packet(p)[k]
      BY <1>7, <1>8, <2>1, OneCell
    <3>2. \A i \in 3..n : i \in 1..n
      BY <1>1
    <3> QED
      BY <1>7, <3>1, <3>2
  <2>2. CASE k \notin 3..n
    <3>1. \A i \in 3..n : i \in 1..n /\ i # k
      BY <1>1, <2>2
    <3> QED
      BY <1>7, <3>1
  <2> QED
    BY <2>1, <2>2
<1>10. \A i \in 3..(n - 1) : packet[i] = p[i - 2]
  <2>1. \A i \in 3..(n - 1) : Packet(p)[i] = p[i - 2] /\ i \in 3..n
    BY <1>1, <1>6, PacketCells
  <2> QED
    BY <1>9, <2>1
<1> QED
  BY <1>2, <1>6, <1>10, PayloadIs

\* Nothing valid is held across a gap: its last byte would be a header, and its
\* checksum the byte that is missing.
LEMMA RejectGapped ==
  ASSUME NEW n \in Length, NEW s, NEW packet, Held(s, packet, n),
         \A i \in 1..n : PlainOf(s[i]) /\ Right(s[i]),
         packet[1] = HEADER1, packet[2] = HEADER2,
         NEW k \in 1..(n - 1), Skips(s[k], s[k + 1], n),
         \A i \in 1..(n - 1) : i # k => Follows(s[i], s[i + 1], n)
  PROVE  ~Valid(packet)
<1>1. /\ n = 4 \/ n = 5
      /\ \A i \in 1..n : s[i] \in Cell(n)
      /\ \A i \in 1..n : s[i].at \in 1..n
  BY HeldCells
<1>2. /\ packet \in Seq(Byte) /\ Len(packet) = n
      /\ \A i \in 1..n : packet[i] = s[i].byte
  BY DEF Held
<1>3. \A i \in 1..n : /\ packet[i] = HEADER1 <=> s[i].at = 1
                      /\ packet[i] = HEADER2 <=> s[i].at = 2
  BY <1>1, <1>2, PlaceShown
<1>4. s[1].at = 1 /\ s[2].at = 2
  <2>1. 1 \in 1..n /\ 2 \in 1..n
    BY <1>1
  <2> QED
    BY <1>3, <2>1
<1>5. k # 1
  <2>1. Skips(s[1], s[2], n) => s[2].at # 2
    BY <1>1, <1>4 DEF Skips
  <2> QED
    BY <1>4, <2>1
<1> DEFINE p == s[1].of
<1>6. \A i \in 1..k : s[i].at = i /\ s[i].of = p
  <2>1. k \in 1..n /\ \A i \in 1..(k - 1) : i \in 1..(n - 1) /\ i # k
    BY <1>1
  <2> QED
    BY <1>4, <2>1, Chain
<1>7. p \in Payloads(n) /\ PlainOf(s[1]) /\ k \in 2..(n - 1)
  <2>1. 1 \in 1..n
    BY <1>1
  <2>2. p \in Payloads(n)
    BY <2>1, HeldCells
  <2>3. k \in 2..(n - 1)
    BY <1>1, <1>5
  <2> QED
    BY <2>1, <2>2, <2>3
<1>8. Plain(p)
  BY <1>7 DEF PlainOf
<1> HIDE DEF p
<1>9. s[n].at = 1 /\ \A i \in (k + 1)..(n - 1) : s[i].at = i + 1 /\ s[i].of = p
  <2>1. s[k].at = k /\ s[k].of = p /\ k \in {2, 3, 4} /\ k < n
    BY <1>1, <1>5, <1>6
  <2>2. s[k + 1].at = IF k = n - 1 THEN 1 ELSE k + 2
    BY <1>1, <2>1 DEF Skips
  <2>3. CASE k = n - 1
    BY <1>1, <2>2, <2>3
  <2>4. CASE k = n - 2
    <3>1. s[n - 1].at = n /\ s[n - 1].of = p
      <4>1. k + 1 = n - 1 /\ k + 2 = n
        BY <1>1, <2>4
      <4> QED
        BY <1>1, <2>1, <2>2, <4>1 DEF Skips
    <3>2. n - 1 \in 1..(n - 1) /\ n - 1 # k /\ (n - 1) + 1 = n /\ n \in 1..n
      BY <1>1, <2>4
    <3>3. Follows(s[n - 1], s[n], n) /\ s[n].at \in 1..n
      BY <1>1, <3>2
    <3>4. s[n].at = 1
      BY <1>1, <3>1, <3>3 DEF Follows
    <3>5. \A i \in (k + 1)..(n - 1) : i = n - 1
      BY <1>1, <2>4
    <3> QED
      BY <1>1, <3>1, <3>4, <3>5
  <2>5. CASE n = 5 /\ k = 2
    <3>1. s[3].at = 4 /\ s[3].of = p
      BY <2>1, <2>2, <2>5 DEF Skips
    <3>2. Follows(s[3], s[4], n) /\ Follows(s[4], s[5], n)
      <4>1. 3 \in 1..(n - 1) /\ 4 \in 1..(n - 1) /\ 3 + 1 = 4 /\ 4 + 1 = 5
        BY <2>5
      <4> QED
        BY <2>5, <4>1
    <3>3. s[4].at = 5 /\ s[4].of = p
      BY <2>5, <3>1, <3>2 DEF Follows
    <3>4. s[5].at = 1
      <4>1. s[5].at \in 1..n
        BY <1>1, <2>5
      <4> QED
        BY <2>5, <3>2, <3>3, <4>1 DEF Follows
    <3>5. \A i \in (k + 1)..(n - 1) : i = 3 \/ i = 4
      BY <2>5
    <3> QED
      BY <2>5, <3>1, <3>3, <3>4, <3>5
  <2> QED
    BY <1>1, <2>1, <2>3, <2>4, <2>5
<1>10. packet[n] = HEADER1
  <2>1. n \in 1..n
    BY <1>1
  <2> QED
    BY <1>3, <1>9, <2>1
\* What is held is the packet of p without one of its bytes.
<1>11. \A i \in 1..k : packet[i] = Packet(p)[i]
  <2>1. \A i \in 1..k : i \in 1..n
    BY <1>1
  <2> QED
    BY <1>2, <1>6, <2>1 DEF Right
<1>12. \A i \in (k + 1)..(n - 1) : packet[i] = Packet(p)[i + 1]
  <2>1. \A i \in (k + 1)..(n - 1) : i \in 1..n
    BY <1>1
  <2> QED
    BY <1>2, <1>9, <2>1 DEF Right
<1>13. Packet(p)[n] = Sum(Packet(p), n)
  BY <1>7, PacketCells
<1>14. Sum(packet, n) = Packet(p)[k + 1]
  BY <1>7, <1>11, <1>12, <1>13, GapSum
<1>15. Packet(p)[k + 1] # HEADER1
  <2>1. k + 1 \in 3..n
    BY <1>1, <1>7
  <2> QED
    BY <1>7, <1>8, <2>1, PlainCells
<1> QED
  BY <1>2, <1>10, <1>14, <1>15, ValidSum

\* Whatever is held of a stream with one damaged byte at most, and is valid, is
\* the packet that was sent.
LEMMA AcceptNear ==
  ASSUME NEW n \in Length, NEW s, NEW packet, Held(s, packet, n), Valid(packet),
         \A i \in 1..Len(s) : PlainOf(s[i]), Near(s, n),
         packet[1] = HEADER1, packet[2] = HEADER2
  PROVE  Payload(packet) = s[n].of /\ s[n].at = n
<1>1. /\ n = 4 \/ n = 5
      /\ Len(s) \in Nat /\ Len(s) >= n
      /\ \A i \in 1..n : i \in 1..Len(s)
  BY HeldCells
<1>2. \A i \in 1..(n - 1) : i \in 1..(Len(s) - 1)
  BY <1>1
<1>3. \A i \in 1..n : PlainOf(s[i])
  BY <1>1
<1>4. PICK k \in Int : Changed(s, n, k) \/ Gapped(s, n, k)
  BY DEF Near
<1>5. CASE Changed(s, n, k)
  <2>1. /\ \A i \in 1..n : i # k => Right(s[i])
        /\ \A i \in 1..(n - 1) : Follows(s[i], s[i + 1], n)
    BY <1>1, <1>2, <1>5 DEF Changed
  <2> QED
    BY <1>3, <1>4, <2>1, AcceptChanged
<1>6. CASE Gapped(s, n, k)
  <2>1. /\ \A i \in 1..n : Right(s[i])
        /\ \A i \in 1..(n - 1) : i # k => Follows(s[i], s[i + 1], n)
    BY <1>1, <1>2, <1>6 DEF Gapped
  <2>2. CASE k \in 1..(n - 1)
    <3>1. Skips(s[k], s[k + 1], n)
      <4>1. k # Len(s)
        BY <1>1, <2>2
      <4> QED
        BY <1>6, <4>1 DEF Gapped
    <3> QED
      BY <1>3, <2>1, <2>2, <3>1, RejectGapped
  <2>3. CASE k \notin 1..(n - 1)
    <3>1. \A i \in 1..(n - 1) : Follows(s[i], s[i + 1], n)
      BY <2>1, <2>3
    <3> QED
      BY <1>3, <1>4, <2>1, <3>1, AcceptChanged
  <2> QED
    BY <2>2, <2>3
<1> QED
  BY <1>4, <1>5, <1>6
-----------------------------------------------------------------------------
\* The parser holds the first c cells of the stream, and what it holds begins
\* with the headers.
Holding(s, c, st, buf, n) ==
  \/ st = "WAIT_FOR_HEADER1" /\ c = 0
  \/ st = "WAIT_FOR_HEADER2" /\ c = 1 /\ s[1].byte = HEADER1
  \/ /\ st = "RECEIVE_DATA" /\ c \in 2..(n - 1)
     /\ buf \in Seq(Byte) /\ Len(buf) = c
     /\ buf[1] = HEADER1 /\ buf[2] = HEADER2
     /\ \A i \in 1..c : buf[i] = s[i].byte

\* The stream is clean on a line without noise, and has one damaged byte at most
\* where the checksum is trusted.
Good(s, n, quiet, bare) ==
  /\ quiet => Clean(s, n)
  /\ bare => \A i \in 1..Len(s) : PlainOf(s[i])
  /\ quiet \/ bare => Near(s, n)

LineInv(line, st, buf, n, quiet, bare) ==
  \E s \in Seq(Cell(n)) : \E c \in 0..Len(s) :
    line = Drop(s, c) /\ Holding(s, c, st, buf, n) /\ Good(s, n, quiet, bare)

LEMMA WeakenLine ==
  ASSUME NEW line, NEW st, NEW buf, NEW n,
         NEW quiet \in BOOLEAN, NEW bare \in BOOLEAN,
         NEW quiet2 \in BOOLEAN, NEW bare2 \in BOOLEAN,
         quiet2 => quiet, bare2 => bare, LineInv(line, st, buf, n, quiet, bare)
  PROVE  LineInv(line, st, buf, n, quiet2, bare2)
<1>1. ASSUME NEW s, Good(s, n, quiet, bare) PROVE Good(s, n, quiet2, bare2)
  BY <1>1 DEF Good
<1> QED
  BY <1>1 DEF LineInv

LEMMA DropGood ==
  ASSUME NEW n \in Length, NEW s \in Seq(Cell(n)), NEW quiet \in BOOLEAN,
         NEW bare \in BOOLEAN, Good(s, n, quiet, bare), NEW d \in 0..Len(s),
         quiet => d = 0 \/ s[d].at = n
  PROVE  Good(Drop(s, d), n, quiet, bare)
<1> DEFINE t == Drop(s, d)
<1>1. /\ Len(s) \in Nat /\ \A i \in 1..Len(t) : t[i] = s[i + d] /\ i + d \in 1..Len(s)
  BY DropCells
<1>2. \A i \in 1..Len(s) : s[i].at \in 1..n
  <2>1. \A i \in 1..Len(s) : s[i] \in Cell(n)
    OBVIOUS
  <2> QED
    BY <2>1 DEF Cell
<1>3. quiet => Clean(t, n)
  BY <1>2, DropClean DEF Good
<1>4. quiet \/ bare => Near(t, n)
  BY DropNear DEF Good
<1> HIDE DEF t
<1>5. bare => \A i \in 1..Len(t) : PlainOf(t[i])
  BY <1>1 DEF Good
<1>6. Good(t, n, quiet, bare)
  BY <1>3, <1>4, <1>5 DEF Good
<1> QED
  BY <1>6 DEF t

\* A clean stream shows its first two cells.
LEMMA CleanHeaders ==
  ASSUME NEW n \in Length, NEW s \in Seq(Cell(n)), Clean(s, n)
  PROVE  /\ 1 <= Len(s) => s[1].byte = HEADER1
         /\ 2 <= Len(s) => s[2].byte = HEADER2
<1>1. (n = 4 \/ n = 5) /\ Len(s) \in Nat
  BY DEF Length, CommandLength, StatusLength
<1>2. \A i \in 1..Len(s) : s[i] \in Cell(n) /\ s[i].of \in Payloads(n) /\ s[i].at \in 1..n
  <2>1. \A i \in 1..Len(s) : s[i] \in Cell(n)
    OBVIOUS
  <2> QED
    BY <2>1 DEF Cell
<1>3. ASSUME 1 <= Len(s) PROVE s[1].byte = HEADER1 /\ s[1].at = 1
  <2>1. 1 \in 1..Len(s) /\ s # <<>>
    BY <1>1, <1>3
  <2>2. Right(s[1]) /\ s[1].at = 1
    BY <2>1 DEF Clean
  <2> QED
    BY <1>2, <2>1, <2>2, PacketCells DEF Right
<1>4. ASSUME 2 <= Len(s) PROVE s[2].byte = HEADER2
  <2>1. 1 \in 1..(Len(s) - 1) /\ 2 \in 1..Len(s) /\ 1 <= Len(s) /\ 1 + 1 = 2
    BY <1>1, <1>4
  <2>2. Follows(s[1], s[2], n) /\ Right(s[2])
    BY <2>1 DEF Clean
  <2>3. s[2].at = 2
    BY <1>1, <1>3, <2>1, <2>2 DEF Follows
  <2> QED
    BY <1>2, <2>1, <2>2, <2>3, PacketCells DEF Right
<1> QED
  BY <1>3, <1>4

\* One byte that a parser reads: it holds on to the stream, or lets go of its
\* beginning; and a packet it completes is the one its last byte was sent in.
LEMMA ParseLine ==
  ASSUME NEW n \in Length, NEW line, line # <<>>, NEW st, NEW buf,
         NEW quiet \in BOOLEAN, NEW bare \in BOOLEAN,
         LineInv(line, st, buf, n, quiet, bare),
         NEW r, r = Parse(st, buf, Head(line).byte, n)
  PROVE  /\ LineInv(Tail(line), r.st, r.buf, n, quiet, bare)
         /\ (quiet \/ bare) /\ r.packet # None => WasSent(r.packet, Head(line))
<1>0. PICK s \in Seq(Cell(n)) :
        \E c \in 0..Len(s) :
          line = Drop(s, c) /\ Holding(s, c, st, buf, n) /\ Good(s, n, quiet, bare)
  BY DEF LineInv
<1>1. PICK c \in 0..Len(s) :
        line = Drop(s, c) /\ Holding(s, c, st, buf, n) /\ Good(s, n, quiet, bare)
  BY <1>0
<1>2. (n = 4 \/ n = 5) /\ Len(s) \in Nat
  BY DEF Length, CommandLength, StatusLength
<1> DEFINE byte == s[c + 1].byte
<1>3. /\ c + 1 \in 1..Len(s) /\ c + 1 \in 0..Len(s)
      /\ Head(line) = s[c + 1] /\ Tail(line) = Drop(s, c + 1)
  <2>1. line \in Seq(Cell(n)) /\ Len(line) = Len(s) - c /\ line = SubSeq(s, c + 1, Len(s))
    BY <1>1 DEF Drop
  <2>2. c + 1 \in 1..Len(s)
    BY <1>2, <2>1
  <2>3. Head(line) = s[c + 1]
    BY <1>2, <2>1, <2>2
  <2>4. Tail(line) = SubSeq(s, c + 1 + 1, Len(s))
    <3>1. Len(line) # 0
      BY <1>2, <2>1, <2>2
    <3>2. Tail(line) \in Seq(Cell(n)) /\ Len(Tail(line)) = Len(s) - c - 1
      BY <1>2, <2>1, <2>2, <3>1
    <3>3. \A i \in 1..(Len(s) - c - 1) : Tail(line)[i] = s[i + c + 1]
      BY <1>2, <2>1, <2>2, <3>1
    <3>4. /\ SubSeq(s, c + 1 + 1, Len(s)) \in Seq(Cell(n))
          /\ Len(SubSeq(s, c + 1 + 1, Len(s))) = Len(s) - c - 1
          /\ \A i \in 1..(Len(s) - c - 1) : SubSeq(s, c + 1 + 1, Len(s))[i] = s[i + c + 1]
      BY <1>2, <2>2
    <3> QED
      BY <3>2, <3>3, <3>4, SeqEqual
  <2> QED
    BY <1>2, <2>2, <2>3, <2>4 DEF Drop
<1>4. s[c + 1] \in Cell(n) /\ byte \in Byte
  <2>1. s[c + 1] \in Cell(n)
    BY <1>3
  <2> QED
    BY <2>1 DEF Cell
<1> HIDE DEF byte
<1>5. r = Parse(st, buf, byte, n)
  BY <1>3 DEF byte
<1>6. quiet => Clean(s, n)
  BY <1>1 DEF Good
<1>7. ASSUME NEW d \in 0..Len(s), d = c + 1, quiet => d = 0 \/ s[d].at = n,
             r.st = "WAIT_FOR_HEADER1"
      PROVE  LineInv(Tail(line), r.st, r.buf, n, quiet, bare)
  <2> DEFINE t == Drop(s, d)
  <2>1. t \in Seq(Cell(n)) /\ Tail(line) = t
    BY <1>3, <1>7, DropCells
  <2>2. Good(t, n, quiet, bare)
    BY <1>1, <1>7, DropGood
  <2> HIDE DEF t
  <2>3. t = Drop(t, 0) /\ 0 \in 0..Len(t)
    BY <2>1 DEF Drop
  <2>4. Holding(t, 0, r.st, r.buf, n)
    BY <1>7 DEF Holding
  <2> QED
    BY <2>1, <2>2, <2>3, <2>4 DEF LineInv
<1>8. ASSUME Holding(s, c + 1, r.st, r.buf, n)
      PROVE  LineInv(Tail(line), r.st, r.buf, n, quiet, bare)
  BY <1>1, <1>3, <1>8 DEF LineInv
<1>9. CASE st = "WAIT_FOR_HEADER1" /\ c = 0
  <2>1. r = Look(IF byte = HEADER1 THEN "WAIT_FOR_HEADER2" ELSE st, <<>>)
    BY <1>5, <1>9 DEF Parse
  <2>2. r.st = (IF byte = HEADER1 THEN "WAIT_FOR_HEADER2" ELSE st) /\ r.packet = None
    BY <2>1 DEF Look
  <2>3. CASE byte = HEADER1
    <3>1. Holding(s, c + 1, r.st, r.buf, n)
      BY <1>9, <2>2, <2>3 DEF Holding, byte
    <3> QED
      BY <1>8, <2>2, <3>1
  <2>4. CASE byte # HEADER1
    <3>1. ~quiet
      BY <1>2, <1>3, <1>6, <1>9, <2>4, CleanHeaders DEF byte
    <3> QED
      BY <1>3, <1>7, <1>9, <2>2, <2>4, <3>1
  <2> QED
    BY <2>3, <2>4
<1>10. CASE st = "WAIT_FOR_HEADER2" /\ c = 1 /\ s[1].byte = HEADER1
  <2>1. r = IF byte = HEADER2 THEN Look("RECEIVE_DATA", <<HEADER1, HEADER2>>)
            ELSE Look("WAIT_FOR_HEADER1", <<>>)
    BY <1>5, <1>10 DEF Parse
  <2>2. r.packet = None
    BY <2>1 DEF Look
  <2>3. CASE byte = HEADER2
    <3>1. r.st = "RECEIVE_DATA" /\ r.buf = <<HEADER1, HEADER2>>
      BY <2>1, <2>3 DEF Look
    <3>2. <<HEADER1, HEADER2>> \in Seq(Byte)
      BY SerialAssumption
    <3>3. /\ Len(r.buf) = 2 /\ r.buf[1] = HEADER1 /\ r.buf[2] = HEADER2
          /\ \A i \in 1..2 : r.buf[i] = s[i].byte
      <4>1. s[1].byte = HEADER1 /\ s[2].byte = HEADER2
        BY <1>10, <2>3 DEF byte
      <4>2. Len(r.buf) = 2
        BY <3>1
      <4>3. r.buf[1] = HEADER1 /\ r.buf[2] = HEADER2
        BY <3>1
      <4>4. \A i \in 1..2 : i = 1 \/ i = 2
        OBVIOUS
      <4> QED
        BY <4>1, <4>2, <4>3, <4>4
    <3>4. c + 1 = 2 /\ 2 \in 2..(n - 1)
      BY <1>2, <1>10
    <3>5. Holding(s, c + 1, r.st, r.buf, n)
      BY <3>1, <3>2, <3>3, <3>4 DEF Holding
    <3> QED
      BY <1>8, <2>2, <3>5
  <2>4. CASE byte # HEADER2
    <3>1. r.st = "WAIT_FOR_HEADER1"
      BY <2>1, <2>4 DEF Look
    <3>2. ~quiet
      BY <1>2, <1>3, <1>6, <1>10, <2>4, CleanHeaders DEF byte
    <3> QED
      BY <1>3, <1>7, <2>2, <3>1, <3>2
  <2> QED
    BY <2>3, <2>4
<1>11. CASE /\ st = "RECEIVE_DATA" /\ c \in 2..(n - 1)
            /\ buf \in Seq(Byte) /\ Len(buf) = c
            /\ buf[1] = HEADER1 /\ buf[2] = HEADER2
            /\ \A i \in 1..c : buf[i] = s[i].byte
  <2> DEFINE more == Append(buf, byte)
  <2>1. /\ more \in Seq(Byte) /\ Len(more) = c + 1
        /\ \A i \in 1..c : more[i] = buf[i]
        /\ more[c + 1] = byte
    BY <1>4, <1>11
  <2> HIDE DEF more
  <2>2. \A i \in 1..(c + 1) : more[i] = s[i].byte
    <3>1. \A i \in 1..(c + 1) : i \in 1..c \/ i = c + 1
      BY <1>11
    <3> QED
      BY <1>11, <2>1, <3>1 DEF byte
  <2>3. more[1] = HEADER1 /\ more[2] = HEADER2
    BY <1>11, <2>1
  <2>4. CASE c + 1 < n
    <3>1. r = Look(st, more)
      BY <1>5, <1>11, <2>4 DEF Parse, more
    <3>2. r.st = "RECEIVE_DATA" /\ r.buf = more /\ r.packet = None
      BY <1>11, <3>1 DEF Look
    <3>3. c + 1 \in 2..(n - 1)
      BY <1>2, <1>11, <2>4
    <3>4. Holding(s, c + 1, r.st, r.buf, n)
      BY <2>1, <2>2, <2>3, <3>2, <3>3 DEF Holding
    <3> QED
      BY <1>8, <3>2, <3>4
  <2>5. CASE ~(c + 1 < n)
    <3>1. c + 1 = n
      BY <1>2, <1>11, <2>5
    <3>2. Held(s, more, n)
      BY <1>2, <1>3, <2>1, <2>2, <3>1 DEF Held
    <3>3. r = IF Valid(more)
              THEN [st |-> "WAIT_FOR_HEADER1", buf |-> <<>>, packet |-> more]
              ELSE Look("WAIT_FOR_HEADER1", <<>>)
      BY <1>5, <1>11, <2>5 DEF Parse, more
    <3>4. /\ r.st = "WAIT_FOR_HEADER1"
          /\ r.packet # None => Valid(more) /\ r.packet = more
      BY <3>3 DEF Look
    <3>5. quiet => Payload(more) = s[n].of /\ s[n].at = n
      BY <1>6, <3>2, AcceptClean
    <3>6. LineInv(Tail(line), r.st, r.buf, n, quiet, bare)
      BY <1>3, <1>7, <3>1, <3>4, <3>5
    <3>7. bare /\ Valid(more) => Payload(more) = s[n].of /\ s[n].at = n
      <4>1. bare => Near(s, n) /\ \A i \in 1..Len(s) : PlainOf(s[i])
        BY <1>1 DEF Good
      <4> QED
        BY <2>3, <3>2, <4>1, AcceptNear
    <3>8. (quiet \/ bare) /\ Valid(more) => WasSent(more, s[n])
      BY <3>2, <3>5, <3>7 DEF WasSent, Held
    <3> QED
      BY <1>3, <3>1, <3>4, <3>6, <3>8
  <2> QED
    BY <2>4, <2>5
<1> QED
  BY <1>1, <1>9, <1>10, <1>11 DEF Holding
-----------------------------------------------------------------------------
LEMMA SendLine ==
  ASSUME NEW n \in Length, NEW line, NEW st, NEW buf, NEW p \in Payloads(n),
         NEW quiet \in BOOLEAN, NEW bare \in BOOLEAN, NEW bare2 \in BOOLEAN,
         bare2 => bare /\ Plain(p),
         LineInv(line, st, buf, n, quiet, bare)
  PROVE  LineInv(line \o Sent(p), st, buf, n, quiet, bare2)
<1>0. PICK s \in Seq(Cell(n)) :
        \E c \in 0..Len(s) :
          line = Drop(s, c) /\ Holding(s, c, st, buf, n) /\ Good(s, n, quiet, bare)
  BY DEF LineInv
<1>1. PICK c \in 0..Len(s) :
        line = Drop(s, c) /\ Holding(s, c, st, buf, n) /\ Good(s, n, quiet, bare)
  BY <1>0
<1> DEFINE t == Sent(p)
           u == s \o t
<1>2. n \in Nat /\ n >= 4
  BY DEF Length, CommandLength, StatusLength
<1>3. /\ t \in Seq(Cell(n)) /\ Len(t) = n
      /\ \A i \in 1..n : t[i].of = p
  BY SentCells
<1> HIDE DEF t
<1>4. line \in Seq(Cell(n)) /\ Len(line) = Len(s) - c
  BY <1>1, DropCells
<1>5. /\ u \in Seq(Cell(n)) /\ Len(u) = Len(s) + Len(t) /\ Len(s) \in Nat
      /\ \A i \in 1..Len(s) : u[i] = s[i]
      /\ \A i \in 1..Len(u) : i \notin 1..Len(s) =>
           i - Len(s) \in 1..Len(t) /\ u[i] = t[i - Len(s)]
  <2>1. u = s \o t /\ t \in Seq(Cell(n))
    BY <1>3
  <2> HIDE DEF u
  <2> QED
    BY <2>1, JoinCells
<1>6. line \o t = Drop(u, c) /\ c \in 0..Len(u)
  <2> DEFINE v == line \o t
             w == Drop(u, c)
  <2>1. /\ v \in Seq(Cell(n)) /\ Len(v) = Len(line) + Len(t)
        /\ \A i \in 1..Len(line) : v[i] = line[i]
        /\ \A i \in 1..Len(v) : i \notin 1..Len(line) =>
             i - Len(line) \in 1..Len(t) /\ v[i] = t[i - Len(line)]
    <3>1. v = line \o t /\ line \in Seq(Cell(n)) /\ t \in Seq(Cell(n))
      BY <1>3, <1>4
    <3> HIDE DEF v
    <3> QED
      BY <3>1, JoinCells
  <2>2. \A i \in 1..Len(line) : line[i] = s[i + c] /\ i + c \in 1..Len(s)
    BY <1>1, DropCells
  <2> HIDE DEF u, v
  <2>3. u \in Seq(Cell(n)) /\ c \in 0..Len(u)
    BY <1>2, <1>3, <1>5
  <2>4. /\ w \in Seq(Cell(n)) /\ Len(w) = Len(u) - c
        /\ \A i \in 1..Len(w) : w[i] = u[i + c] /\ i + c \in 1..Len(u)
    <3>1. w = Drop(u, c)
      OBVIOUS
    <3> HIDE DEF w
    <3> QED
      BY <2>3, <3>1, DropCells
  <2> HIDE DEF w
  <2>5. Len(v) = Len(w) /\ Len(v) \in Nat
    BY <1>2, <1>3, <1>4, <1>5, <2>1, <2>4
  <2>6. ASSUME NEW i \in 1..Len(v) PROVE v[i] = w[i]
    <3>1. i \in 1..Len(w)
      BY <2>5
    <3>2. CASE i \in 1..Len(line)
      BY <1>5, <2>1, <2>2, <2>4, <3>1, <3>2
    <3>3. CASE i \notin 1..Len(line)
      <4>1. /\ i + c \in 1..Len(u) /\ i + c \notin 1..Len(s)
            /\ i - Len(line) = i + c - Len(s)
        BY <1>4, <1>5, <2>4, <3>1, <3>3
      <4>2. v[i] = t[i - Len(line)] /\ u[i + c] = t[i + c - Len(s)]
        BY <1>5, <2>1, <3>3, <4>1
      <4> QED
        BY <2>4, <3>1, <4>1, <4>2
    <3> QED
      BY <3>2, <3>3
  <2>7. v = w
    BY <2>1, <2>4, <2>5, <2>6, SeqEqual
  <2> QED
    BY <2>3, <2>7 DEF v, w
<1>7. Holding(u, c, st, buf, n)
  <2> HIDE DEF u
  <2>1. \A i \in 1..c : u[i] = s[i]
    BY <1>5
  <2> QED
    BY <1>1, <2>1 DEF Holding
<1>8. Good(u, n, quiet, bare2)
  <2>1. quiet => Clean(u, n)
    BY <1>1, SendClean DEF Good, t
  <2>2. quiet \/ bare => Near(u, n)
    BY <1>1, SendNear DEF Good, t
  <2> HIDE DEF u
  <2>3. ASSUME bare2, NEW i \in 1..Len(u) PROVE PlainOf(u[i])
    <3>1. CASE i \in 1..Len(s)
      BY <1>1, <1>5, <2>3, <3>1 DEF Good
    <3>2. CASE i \notin 1..Len(s)
      <4>1. i - Len(s) \in 1..n /\ u[i] = t[i - Len(s)]
        BY <1>3, <1>5, <3>2
      <4>2. u[i].of = p
        BY <1>3, <4>1
      <4> QED
        BY <2>3, <4>2 DEF PlainOf
    <3> QED
      BY <3>1, <3>2
  <2> QED
    BY <2>1, <2>2, <2>3 DEF Good
<1>9. LineInv(line \o t, st, buf, n, quiet, bare2)
  BY <1>5, <1>6, <1>7, <1>8 DEF LineInv
<1> QED
  BY <1>9 DEF t

\* One damaged byte on a line that was clean.
LEMMA NoiseLine ==
  ASSUME NEW n \in Length, NEW line, NEW st, NEW buf, NEW bare \in BOOLEAN,
         LineInv(line, st, buf, n, TRUE, bare), NEW after \in Damaged(line)
  PROVE  LineInv(after, st, buf, n, FALSE, bare)
<1>0. PICK s \in Seq(Cell(n)) :
        \E c \in 0..Len(s) :
          line = Drop(s, c) /\ Holding(s, c, st, buf, n) /\ Good(s, n, TRUE, bare)
  BY DEF LineInv
<1>1. PICK c \in 0..Len(s) :
        line = Drop(s, c) /\ Holding(s, c, st, buf, n) /\ Good(s, n, TRUE, bare)
  BY <1>0
<1>2. /\ line \in Seq(Cell(n)) /\ Len(line) = Len(s) - c /\ Len(s) \in Nat
      /\ \A i \in 1..Len(line) : line[i] = s[i + c] /\ i + c \in 1..Len(s)
  BY <1>1, DropCells
<1>3. Clean(s, n) /\ (bare => \A i \in 1..Len(s) : PlainOf(s[i]))
  BY <1>1 DEF Good
\* The damaged stream, of which the parser holds the same.
<1>4. ASSUME NEW t \in Seq(Cell(n)), NEW d \in 0..Len(t), d = c, after = Drop(t, d),
             \A i \in 1..c : t[i] = s[i], Near(t, n),
             bare => \A i \in 1..Len(t) : PlainOf(t[i])
      PROVE  LineInv(after, st, buf, n, FALSE, bare)
  <2>1. Good(t, n, FALSE, bare)
    BY <1>4 DEF Good
  <2>2. Holding(t, d, st, buf, n)
    BY <1>1, <1>4 DEF Holding
  <2> QED
    BY <1>4, <2>1, <2>2 DEF LineInv
<1>5. ASSUME NEW i \in DOMAIN line, NEW b \in Byte, after = [line EXCEPT ![i].byte = b]
      PROVE  LineInv(after, st, buf, n, FALSE, bare)
  <2> DEFINE k == i + c
             t == [s EXCEPT ![k].byte = b]
  <2>1. i \in 1..Len(line) /\ k \in 1..Len(s) /\ k > c
    BY <1>2
  <2>2. /\ after \in Seq(Cell(n)) /\ Len(after) = Len(line)
        /\ \A j \in 1..Len(line) : j # i => after[j] = line[j]
        /\ after[i] = [line[i] EXCEPT !.byte = b]
    <3>1. line \in Seq(Cell(n))
      BY <1>2
    <3>2. Replaced(after, line, i, b, n)
      BY <1>5, <2>1, <3>1, ChangeCells
    <3> QED
      BY <3>2 DEF Replaced
  <2> HIDE DEF k
  <2>3. /\ t \in Seq(Cell(n)) /\ Len(t) = Len(s)
        /\ \A j \in 1..Len(s) : j # k => t[j] = s[j]
        /\ \A j \in 1..Len(s) : t[j].of = s[j].of
        /\ t[k] = [s[k] EXCEPT !.byte = b]
    <3>1. Replaced(t, s, k, b, n)
      BY <2>1, ChangeCells
    <3> HIDE DEF t
    <3> QED
      BY <3>1 DEF Replaced
  <2>4. Near(t, n)
    BY <1>3, <2>1, ChangeNear
  <2> HIDE DEF t
  <2>5. c \in 0..Len(t) /\ \A j \in 1..c : t[j] = s[j]
    BY <1>2, <2>1, <2>3
  <2>6. bare => \A j \in 1..Len(t) : PlainOf(t[j])
    BY <1>3, <2>3 DEF PlainOf
  <2>7. after = Drop(t, c)
    <3>1. /\ Drop(t, c) \in Seq(Cell(n)) /\ Len(Drop(t, c)) = Len(line)
          /\ \A j \in 1..Len(line) : Drop(t, c)[j] = t[j + c]
      BY <1>2, <2>3, <2>5, DropCells
    <3>2. ASSUME NEW j \in 1..Len(line) PROVE after[j] = Drop(t, c)[j]
      <4>1. CASE j = i
        BY <1>2, <2>1, <2>2, <2>3, <3>1, <4>1 DEF k
      <4>2. CASE j # i
        <5>1. j + c # k /\ j + c \in 1..Len(s)
          BY <1>2, <2>1, <4>2 DEF k
        <5> QED
          <6>1. after[j] = line[j] /\ line[j] = s[j + c]
            BY <1>2, <2>2, <4>2
          <6>2. t[j + c] = s[j + c]
            BY <2>3, <5>1
          <6> QED
            BY <3>1, <6>1, <6>2
      <4> QED
        BY <4>1, <4>2
    <3> QED
      BY <2>2, <3>1, <3>2, SeqEqual
  <2> QED
    BY <1>4, <2>3, <2>4, <2>5, <2>6, <2>7
<1>6. ASSUME NEW i \in DOMAIN line, after = RemoveAt(line, i)
      PROVE  LineInv(after, st, buf, n, FALSE, bare)
  <2> DEFINE k == i + c
             t == RemoveAt(s, k)
  <2>1. i \in 1..Len(line) /\ k \in 1..Len(s) /\ k > c
    BY <1>2
  <2>2. /\ after \in Seq(Cell(n)) /\ Len(after) = Len(line) - 1
        /\ \A j \in 1..(i - 1) : after[j] = line[j]
        /\ \A j \in i..Len(after) : after[j] = line[j + 1]
    <3>1. line \in Seq(Cell(n))
      BY <1>2
    <3>2. Removed(after, line, i, Cell(n))
      BY <1>6, <2>1, <3>1, RemoveCells
    <3> QED
      BY <3>2 DEF Removed
  <2> HIDE DEF k
  <2>3. /\ t \in Seq(Cell(n)) /\ Len(t) = Len(s) - 1
        /\ \A j \in 1..(k - 1) : t[j] = s[j]
        /\ \A j \in k..Len(t) : t[j] = s[j + 1]
    <3>1. Removed(t, s, k, Cell(n))
      BY <2>1, RemoveCells
    <3> HIDE DEF t
    <3> QED
      BY <3>1 DEF Removed
  <2>4. Near(t, n)
    BY <1>3, <2>1, RemoveNear
  <2> HIDE DEF t
  <2>5. c \in 0..Len(t) /\ \A j \in 1..c : t[j] = s[j]
    BY <1>2, <2>1, <2>3
  <2>6. ASSUME bare, NEW j \in 1..Len(t) PROVE PlainOf(t[j])
    <3>1. CASE j < k
      <4>1. j \in 1..(k - 1) /\ j \in 1..Len(s)
        BY <1>2, <2>1, <2>3, <3>1
      <4> QED
        BY <1>3, <2>3, <2>6, <4>1
    <3>2. CASE ~(j < k)
      <4>1. j \in k..Len(t) /\ j + 1 \in 1..Len(s)
        BY <1>2, <2>1, <2>3, <3>2
      <4> QED
        BY <1>3, <2>3, <2>6, <4>1
    <3> QED
      BY <3>1, <3>2
  <2>7. after = Drop(t, c)
    <3>1. /\ Drop(t, c) \in Seq(Cell(n)) /\ Len(Drop(t, c)) = Len(after)
          /\ \A j \in 1..Len(after) : Drop(t, c)[j] = t[j + c]
      <4>1. /\ Drop(t, c) \in Seq(Cell(n)) /\ Len(Drop(t, c)) = Len(t) - c
            /\ \A j \in 1..Len(Drop(t, c)) : Drop(t, c)[j] = t[j + c]
        <5>1. t \in Seq(Cell(n))
          BY <2>3
        <5> QED
          BY <2>5, <5>1, DropCells
      <4>2. Len(t) - c = Len(after)
        BY <1>2, <2>2, <2>3
      <4> QED
        BY <4>1, <4>2
    <3>2. ASSUME NEW j \in 1..Len(after) PROVE after[j] = Drop(t, c)[j]
      <4>1. CASE j < i
        <5>1. j \in 1..(i - 1) /\ j + c \in 1..(k - 1) /\ j \in 1..Len(line)
          BY <1>2, <2>1, <2>2, <4>1 DEF k
        <5> QED
          BY <1>2, <2>2, <2>3, <3>1, <5>1
      <4>2. CASE ~(j < i)
        <5>1. /\ j \in i..Len(after) /\ j + c \in k..Len(t) /\ j + 1 \in 1..Len(line)
              /\ (j + 1) + c = j + c + 1
          BY <1>2, <2>1, <2>2, <2>3, <4>2 DEF k
        <5>2. after[j] = s[(j + 1) + c] /\ t[j + c] = s[j + c + 1]
          BY <1>2, <2>2, <2>3, <5>1
        <5> QED
          BY <3>1, <5>1, <5>2
      <4> QED
        BY <2>1, <4>1, <4>2
    <3> QED
      BY <2>2, <3>1, <3>2, SeqEqual
  <2> QED
    BY <1>4, <2>3, <2>4, <2>5, <2>6, <2>7
<1>7. \/ \E i \in DOMAIN line : after = RemoveAt(line, i)
      \/ \E i \in DOMAIN line, b \in Byte : after = [line EXCEPT ![i].byte = b]
  BY DEF Damaged
<1> QED
  BY <1>5, <1>6, <1>7
-----------------------------------------------------------------------------
(***************************************************************************)
(* The link.                                                               *)
(***************************************************************************)
Quiet == noise = 0

\* What either parser holds and the line still carries is one stream, clean
\* until a byte is lost or changed.
Lines ==
  /\ LineInv(toBoard, state, buffer, CommandLength, Quiet, plain)
  /\ LineInv(toPC, receive_state, rx_buffer_, StatusLength, Quiet, plain)

\* The counts that become positions stay below the changes made.
Counts ==
  /\ noise \in Nat /\ changes \in Nat /\ changes <= MaxChanges
  /\ left_count \in Nat /\ left_count <= changes
  /\ prev_left \in Nat /\ prev_left <= left_count
  /\ plain \in BOOLEAN /\ hw_commands_ \in Command

\* The inductive invariant: one damaged byte leaves both streams near to clean ones,
\* and nothing wrong has been accepted where the checksum is trusted.
SerialInv == Counts /\ (noise <= 1 => Lines /\ AcceptedWasSent)

LEMMA Lengths ==
  /\ CommandLength \in Length /\ StatusLength \in Length
  /\ Quiet \in BOOLEAN /\ Quiet' \in BOOLEAN
  BY DEF Length, Quiet

LEMMA EmptyLine ==
  ASSUME NEW n \in Length
  PROVE  LineInv(<<>>, "WAIT_FOR_HEADER1", <<>>, n, TRUE, TRUE)
<1> DEFINE s == <<>>
<1>1. s \in Seq(Cell(n)) /\ Len(s) = 0 /\ 0 \in 0..Len(s) /\ s = <<>>
  OBVIOUS
<1> HIDE DEF s
<1>2. Drop(s, 0) = <<>>
  <2> DEFINE t == Drop(s, 0)
  <2>1. t = Drop(s, 0)
    OBVIOUS
  <2> HIDE DEF t
  <2>2. t \in Seq(Cell(n)) /\ Len(t) = Len(s) - 0
    <3>1. \A d \in 0..Len(s) : t = Drop(s, d) => t \in Seq(Cell(n)) /\ Len(t) = Len(s) - d
      <4>1. s \in Seq(Cell(n))
        BY <1>1
      <4> QED
        BY <4>1, DropCells
    <3> QED
      BY <1>1, <2>1, <3>1
  <2>3. t = <<>>
    BY <1>1, <2>2
  <2> QED
    BY <2>1, <2>3
<1>3. Clean(s, n)
  BY <1>1 DEF Clean
<1>4. Near(s, n)
  BY <1>3, CleanIsNear
<1>5. Good(s, n, TRUE, TRUE)
  BY <1>1, <1>3, <1>4 DEF Good
<1>6. Holding(s, 0, "WAIT_FOR_HEADER1", <<>>, n)
  BY DEF Holding
<1> QED
  BY <1>1, <1>2, <1>5, <1>6 DEF LineInv

LEMMA SerialInit == Init => SerialInv
<1> SUFFICES ASSUME Init PROVE SerialInv
  OBVIOUS
<1>1. Counts
  BY SerialAssumption DEF Init, Counts
<1>2. Quiet = TRUE /\ plain = TRUE
  BY DEF Init, Quiet
<1>3. Lines
  <2>1. /\ LineInv(toBoard, state, buffer, CommandLength, TRUE, TRUE)
        /\ LineInv(toPC, receive_state, rx_buffer_, StatusLength, TRUE, TRUE)
    BY EmptyLine, Lengths DEF Init
  <2> QED
    BY <1>2, <2>1 DEF Lines
<1>4. AcceptedWasSent
  BY DEF Init, AcceptedWasSent
<1> QED
  BY <1>1, <1>3, <1>4 DEF SerialInv

LEMMA CountsStep == ASSUME Counts, [Next]_vars PROVE Counts'
<1> USE DEF Counts
<1>1. ASSUME NEW command \in Command, Steer(command) PROVE Counts'
  BY <1>1, SerialAssumption DEF Steer, loopVars, history
<1>2. ASSUME write PROVE Counts'
  BY <1>2 DEF write, loopVars, counters
<1>3. ASSUME read PROVE Counts'
  BY <1>3 DEF read, loopVars, counters
<1>4. ASSUME leftEncoder PROVE Counts'
  BY <1>4, SerialAssumption DEF leftEncoder, loopVars, history
<1>5. ASSUME loop PROVE Counts'
  BY <1>5 DEF loop, history, counters
<1>6. ASSUME receivePacket PROVE Counts'
  BY <1>6 DEF receivePacket, counters
<1>7. ASSUME NoCommand PROVE Counts'
  BY <1>7 DEF NoCommand, history, counters
<1>8. ASSUME Answer PROVE Counts'
  BY <1>8 DEF Answer, counters
<1>9. ASSUME Noise PROVE Counts'
  BY <1>9 DEF Noise, loopVars, history
<1>10. ASSUME UNCHANGED vars PROVE Counts'
  BY <1>10 DEF vars, loopVars, history, counters
<1> QED
  BY <1>1, <1>2, <1>3, <1>4, <1>5, <1>6, <1>7, <1>8, <1>9, <1>10 DEF Next

LEMMA CommandPayload ==
  ASSUME NEW command \in Command PROVE command \in Payloads(CommandLength)
<1>1. CommandLength - 3 = 2
  BY DEF CommandLength
<1>2. PayloadBytes \subseteq Byte
  BY SerialAssumption
<1> QED
  BY <1>1, <1>2 DEF Command, Payloads

LEMMA StatusPayload ==
  ASSUME Counts PROVE <<Position(prev_left)>> \in Payloads(StatusLength)
<1>1. StatusLength - 3 = 1
  BY DEF StatusLength
<1>2. prev_left \in 0..MaxChanges
  BY SerialAssumption DEF Counts
<1>3. Position(prev_left) \in Byte
  BY <1>2, SerialAssumption
<1>4. ASSUME NEW b \in Byte PROVE <<b>> \in [1..1 -> Byte]
  OBVIOUS
<1> QED
  BY <1>1, <1>3, <1>4 DEF Payloads

\* A step that leaves the lines, their parsers, the commands' history and the
\* damage as they are.
LEMMA LinesStay ==
  ASSUME SerialInv, UNCHANGED <<toBoard, toPC, boardVars, pluginVars, history, noise>>
  PROVE  noise' <= 1 => Lines' /\ AcceptedWasSent'
  BY DEF SerialInv, Lines, AcceptedWasSent, Trusted, Quiet, boardVars, pluginVars, history

\* One byte that an end reads from its line, the other line as it was.
LEMMA ReadStep ==
  ASSUME SerialInv, read, noise' <= 1
  PROVE  Lines' /\ AcceptedWasSent'
<1> DEFINE at == Head(toPC)
           r == Parse(receive_state, rx_buffer_, at.byte, StatusLength)
<1>1. /\ toPC # <<>> /\ toPC' = Tail(toPC) /\ receive_state' = r.st /\ rx_buffer_' = r.buf
      /\ \/ r.packet = None /\ wrong' = wrong
         \/ r.packet # None /\ wrong' = (wrong \/ ~WasSent(r.packet, at))
      /\ noise' = noise /\ plain' = plain
      /\ toBoard' = toBoard /\ state' = state /\ buffer' = buffer
  BY DEF read, boardVars, counters
<1>2. noise <= 1 /\ Lines /\ AcceptedWasSent /\ plain \in BOOLEAN /\ Quiet' = Quiet
  BY <1>1 DEF SerialInv, Counts, Quiet
<1>3. r = Parse(receive_state, rx_buffer_, Head(toPC).byte, StatusLength)
  OBVIOUS
<1> HIDE DEF r
<1>4. /\ LineInv(Tail(toPC), r.st, r.buf, StatusLength, Quiet, plain)
      /\ (Quiet \/ plain) /\ r.packet # None => WasSent(r.packet, Head(toPC))
  BY <1>1, <1>2, <1>3, ParseLine, Lengths DEF Lines
<1>5. Lines'
  BY <1>1, <1>2, <1>4 DEF Lines
<1>6. AcceptedWasSent'
  BY <1>1, <1>2, <1>4 DEF AcceptedWasSent, Trusted, Quiet
<1> QED
  BY <1>5, <1>6

LEMMA ReceiveStep ==
  ASSUME SerialInv, receivePacket, noise' <= 1
  PROVE  Lines' /\ AcceptedWasSent'
<1> DEFINE at == Head(toBoard)
           r == Parse(state, buffer, at.byte, CommandLength)
<1>1. /\ toBoard # <<>> /\ toBoard' = Tail(toBoard) /\ state' = r.st /\ buffer' = r.buf
      /\ \/ r.packet = None /\ wrong' = wrong
         \/ r.packet # None /\ wrong' = (wrong \/ ~WasSent(r.packet, at))
      /\ noise' = noise /\ plain' = plain
      /\ toPC' = toPC /\ receive_state' = receive_state /\ rx_buffer_' = rx_buffer_
  BY DEF receivePacket, pluginVars, counters
<1>2. noise <= 1 /\ Lines /\ AcceptedWasSent /\ plain \in BOOLEAN /\ Quiet' = Quiet
  BY <1>1 DEF SerialInv, Counts, Quiet
<1>3. r = Parse(state, buffer, Head(toBoard).byte, CommandLength)
  OBVIOUS
<1> HIDE DEF r
<1>4. /\ LineInv(Tail(toBoard), r.st, r.buf, CommandLength, Quiet, plain)
      /\ (Quiet \/ plain) /\ r.packet # None => WasSent(r.packet, Head(toBoard))
  BY <1>1, <1>2, <1>3, ParseLine, Lengths DEF Lines
<1>5. Lines'
  BY <1>1, <1>2, <1>4 DEF Lines
<1>6. AcceptedWasSent'
  BY <1>1, <1>2, <1>4 DEF AcceptedWasSent, Trusted, Quiet
<1> QED
  BY <1>5, <1>6

\* One packet that an end sends.  It may be the first with a header byte in it.
LEMMA WriteStep ==
  ASSUME SerialInv, write, noise' <= 1
  PROVE  Lines' /\ AcceptedWasSent'
<1>1. /\ toBoard' = toBoard \o Sent(hw_commands_) /\ state' = state /\ buffer' = buffer
      /\ plain' = (plain /\ Plain(hw_commands_))
      /\ noise' = noise /\ wrong' = wrong
      /\ toPC' = toPC /\ receive_state' = receive_state /\ rx_buffer_' = rx_buffer_
  BY DEF write, pluginVars, boardVars, counters
<1>2. /\ noise <= 1 /\ Lines /\ AcceptedWasSent /\ Quiet' = Quiet
      /\ plain \in BOOLEAN /\ hw_commands_ \in Command
  BY <1>1 DEF SerialInv, Counts, Quiet
<1>3. plain' \in BOOLEAN /\ (plain' => plain /\ Plain(hw_commands_))
  BY <1>1, <1>2 DEF Plain
<1>4. LineInv(toBoard \o Sent(hw_commands_), state, buffer, CommandLength, Quiet, plain')
  BY <1>2, <1>3, SendLine, CommandPayload, Lengths DEF Lines
<1>5. LineInv(toPC, receive_state, rx_buffer_, StatusLength, Quiet, plain')
  BY <1>2, <1>3, WeakenLine, Lengths DEF Lines
<1>6. Lines'
  BY <1>1, <1>2, <1>4, <1>5 DEF Lines
<1>7. AcceptedWasSent'
  BY <1>1, <1>2, <1>3 DEF AcceptedWasSent, Trusted
<1> QED
  BY <1>6, <1>7

LEMMA AnswerStep ==
  ASSUME SerialInv, Answer, noise' <= 1
  PROVE  Lines' /\ AcceptedWasSent'
<1> DEFINE payload == <<Position(prev_left)>>
<1>1. /\ toPC' = toPC \o Sent(payload)
      /\ receive_state' = receive_state /\ rx_buffer_' = rx_buffer_
      /\ plain' = (plain /\ Plain(payload))
      /\ noise' = noise /\ wrong' = wrong
      /\ toBoard' = toBoard /\ state' = state /\ buffer' = buffer
  BY DEF Answer, pluginVars, boardVars, counters
<1>2. /\ noise <= 1 /\ Lines /\ AcceptedWasSent /\ Quiet' = Quiet
      /\ plain \in BOOLEAN /\ Counts
  BY <1>1 DEF SerialInv, Counts, Quiet
<1>3. /\ payload \in Payloads(StatusLength) /\ plain' \in BOOLEAN
      /\ plain' => plain /\ Plain(payload)
  <2>1. payload \in Payloads(StatusLength)
    BY <1>2, StatusPayload
  <2> HIDE DEF payload
  <2> QED
    BY <1>1, <1>2, <2>1 DEF Plain
<1> HIDE DEF payload
<1>4. LineInv(toPC \o Sent(payload), receive_state, rx_buffer_, StatusLength, Quiet, plain')
  BY <1>2, <1>3, SendLine, Lengths DEF Lines
<1>5. LineInv(toBoard, state, buffer, CommandLength, Quiet, plain')
  BY <1>2, <1>3, WeakenLine, Lengths DEF Lines
<1>6. Lines'
  BY <1>1, <1>2, <1>4, <1>5 DEF Lines
<1>7. AcceptedWasSent'
  BY <1>1, <1>2, <1>3 DEF AcceptedWasSent, Trusted
<1> QED
  BY <1>6, <1>7

\* The first damaged byte: one line is near to a clean one, the other still clean.
LEMMA NoiseStep ==
  ASSUME SerialInv, Noise, noise' <= 1
  PROVE  Lines' /\ AcceptedWasSent'
<1>1. /\ noise' = noise + 1
      /\ \/ toBoard' \in Damaged(toBoard) /\ toPC' = toPC
         \/ toPC' \in Damaged(toPC) /\ toBoard' = toBoard
      /\ state' = state /\ buffer' = buffer
      /\ receive_state' = receive_state /\ rx_buffer_' = rx_buffer_
      /\ plain' = plain /\ wrong' = wrong
  BY DEF Noise, pluginVars, boardVars, history
<1>2. noise \in Nat /\ plain \in BOOLEAN
  BY DEF SerialInv, Counts
<1>3. noise = 0
  BY <1>1, <1>2
<1>4. Quiet = TRUE /\ Quiet' = FALSE /\ Lines /\ AcceptedWasSent
  BY <1>1, <1>3 DEF SerialInv, Quiet
<1>5. /\ LineInv(toBoard, state, buffer, CommandLength, TRUE, plain)
      /\ LineInv(toPC, receive_state, rx_buffer_, StatusLength, TRUE, plain)
  BY <1>4 DEF Lines
<1>6. /\ LineInv(toBoard, state, buffer, CommandLength, FALSE, plain)
      /\ LineInv(toPC, receive_state, rx_buffer_, StatusLength, FALSE, plain)
  BY <1>2, <1>5, WeakenLine
<1>7. LineInv(toBoard', state, buffer, CommandLength, FALSE, plain)
  <2>1. CASE toBoard' \in Damaged(toBoard)
    BY <1>2, <1>5, <2>1, NoiseLine, Lengths
  <2> QED
    BY <1>1, <1>6, <2>1
<1>8. LineInv(toPC', receive_state, rx_buffer_, StatusLength, FALSE, plain)
  <2>1. CASE toPC' \in Damaged(toPC)
    BY <1>2, <1>5, <2>1, NoiseLine, Lengths
  <2> QED
    BY <1>1, <1>6, <2>1
<1>9. Lines'
  BY <1>1, <1>4, <1>7, <1>8 DEF Lines
<1>10. AcceptedWasSent'
  BY <1>1, <1>3, <1>4 DEF AcceptedWasSent, Trusted
<1> QED
  BY <1>9, <1>10

LEMMA SerialStep == SerialInv /\ [Next]_vars => SerialInv'
<1> SUFFICES ASSUME SerialInv, [Next]_vars PROVE SerialInv'
  OBVIOUS
<1>1. ASSUME noise' <= 1 PROVE Lines' /\ AcceptedWasSent'
  <2>1. ASSUME NEW command \in Command, Steer(command)
        PROVE  Lines' /\ AcceptedWasSent'
    BY <1>1, <2>1, LinesStay DEF Steer
  <2>2. CASE write
    BY <1>1, <2>2, WriteStep
  <2>3. CASE read
    BY <1>1, <2>3, ReadStep
  <2>4. CASE leftEncoder
    BY <1>1, <2>4, LinesStay DEF leftEncoder
  <2>5. CASE loop
    BY <1>1, <2>5, LinesStay DEF loop, counters
  <2>6. CASE receivePacket
    BY <1>1, <2>6, ReceiveStep
  <2>7. CASE NoCommand
    BY <1>1, <2>7, LinesStay DEF NoCommand, counters
  <2>8. CASE Answer
    BY <1>1, <2>8, AnswerStep
  <2>9. CASE Noise
    BY <1>1, <2>9, NoiseStep
  <2>10. CASE UNCHANGED vars
    BY <1>1, <2>10, LinesStay DEF vars, counters
  <2> QED
    BY <2>1, <2>2, <2>3, <2>4, <2>5, <2>6, <2>7, <2>8, <2>9, <2>10 DEF Next
<1>2. Counts'
  BY CountsStep DEF SerialInv
<1> QED
  BY <1>1, <1>2 DEF SerialInv
-----------------------------------------------------------------------------
LEMMA SerialInvariant == Spec => []SerialInv
<1>1. Init => SerialInv
  BY SerialInit
<1>2. SerialInv /\ [Next]_vars => SerialInv'
  BY SerialStep
<1> QED
  BY <1>1, <1>2, PTL DEF Spec

\* While at most one byte has been lost or changed, whatever the bound on noise,
\* every packet either end accepts is one the other end sent: always if none was,
\* and after one if no packet has a header byte after its headers (receive_packet,
\* receivePacket).  Where a packet has one, as its checksum perhaps, one lost byte
\* may be taken for another.
THEOREM OneDamagedByteIsCaught == Spec => [](noise <= 1 => AcceptedWasSent)
<1>1. SerialInv => (noise <= 1 => AcceptedWasSent)
  BY DEF SerialInv
<1> QED
  BY <1>1, SerialInvariant, PTL

\* AcceptedWasSent, for every capacity of the lines, every set of command bytes and
\* any number of packets: a line on which one byte at most is damaged never makes a
\* parser accept a packet that was not sent (receive_packet, receivePacket).  The
\* checksum is one XOR of the bytes, so two damaged bytes are more than it promises.
THEOREM AcceptedWasSentAlways ==
  ASSUME MaxNoise <= 1
  PROVE  Spec => []AcceptedWasSent
<1> DEFINE Bounded == noise \in Nat /\ noise <= MaxNoise
<1>1. Init => Bounded
  BY SerialAssumption DEF Init
<1>2. Bounded /\ [Next]_vars => Bounded'
  <2> SUFFICES ASSUME Bounded, [Next]_vars PROVE Bounded'
    OBVIOUS
  <2>1. CASE Noise
    BY <2>1, SerialAssumption DEF Noise
  <2>2. CASE [Next]_vars /\ ~Noise
    BY <2>2 DEF Next, Steer, write, read, leftEncoder, loop, receivePacket,
                NoCommand, Answer, vars, counters
  <2> QED
    BY <2>1, <2>2
<1>3. Bounded /\ SerialInv => AcceptedWasSent
  BY SerialAssumption DEF SerialInv
<1> QED
  BY <1>1, <1>2, <1>3, SerialInvariant, PTL DEF Spec
=============================================================================
