------------------------- MODULE HciTransportProofs -------------------------
(***************************************************************************)
(* The transmit side of the HCI transport, for any finite set of senders,  *)
(* any packets, byte base and buffer size: the host's packets are          *)
(* assembled whole and in order from its byte stream, the driver accepts   *)
(* them, and none is left in the queue without a call that fetches it.     *)
(***************************************************************************)
EXTENDS HciTransport, SequenceTheorems, FiniteSetTheorems, TLAPS

\* The bytes of d followed by those of t.
Rest(d, t) ==
    [i \in 1..(Len(d) + Len(t)) |-> IF i <= Len(d) THEN d[i] ELSE t[i - Len(d)]]

\* The first l bytes of r are the packets ps[n + 1], ps[n + 2], ... one after the other:
\* b[m] is where packet m ends.  The offsets b make a recursive concatenation needless.
Split(ps, n, l, r, b) ==
    /\ n \in 0..Len(ps) /\ l \in Nat
    /\ b \in [n..Len(ps) -> Nat]
    /\ b[n] = 0 /\ b[Len(ps)] = l
    /\ \A m, k \in n..Len(ps) : m <= k => b[m] <= b[k]
    /\ \A m \in (n + 1)..Len(ps) :
         /\ b[m] = b[m - 1] + Len(ps[m])
         /\ \A j \in 1..Len(ps[m]) : r[b[m - 1] + j] = ps[m][j]

\* Drawing a byte moves it from the queue to the packet.
LEMMA RestMoves ==
    ASSUME NEW d \in Seq(Bytes), NEW t \in Seq(Bytes), t # <<>>
    PROVE  /\ Rest(Append(d, Head(t)), Tail(t)) = Rest(d, t)
           /\ Len(Append(d, Head(t))) + Len(Tail(t)) = Len(d) + Len(t)
<1> DEFINE e == Append(d, Head(t))
           u == Tail(t)
<1>1. Len(d) \in Nat /\ Len(t) \in Nat /\ Len(t) > 0 OBVIOUS
<1>2. /\ Len(e) = Len(d) + 1 /\ Len(u) = Len(t) - 1
      /\ \A i \in 1..Len(d) : e[i] = d[i]
      /\ e[Len(d) + 1] = t[1]
      /\ \A i \in 1..(Len(t) - 1) : u[i] = t[i + 1]
  BY <1>1
<1> HIDE DEF e, u
<1>3. Len(e) + Len(u) = Len(d) + Len(t) BY <1>1, <1>2
<1>4. ASSUME NEW i \in 1..(Len(d) + Len(t))
      PROVE  (IF i <= Len(e) THEN e[i] ELSE u[i - Len(e)]) =
               (IF i <= Len(d) THEN d[i] ELSE t[i - Len(d)])
  <2>1. CASE i <= Len(d) BY <1>1, <1>2, <2>1
  <2>2. CASE i = Len(d) + 1 BY <1>1, <1>2, <2>2
  <2>3. CASE i > Len(d) + 1
    <3>1. i - Len(e) \in 1..(Len(t) - 1) /\ (i - Len(e)) + 1 = i - Len(d) BY <1>1, <1>2, <2>3
    <3>2. ~(i <= Len(e)) /\ ~(i <= Len(d)) BY <1>1, <1>2, <2>3
    <3>3. u[i - Len(e)] = t[(i - Len(e)) + 1] BY <1>2, <3>1
    <3> QED BY <3>1, <3>2, <3>3
  <2> QED BY <1>1, <2>1, <2>2, <2>3
<1>5. Rest(e, u) = Rest(d, t) BY <1>3, <1>4 DEF Rest
<1> QED BY <1>3, <1>5 DEF e, u

\* Nothing is drawn yet.
LEMMA RestAlone ==
    ASSUME NEW t \in Seq(Bytes)
    PROVE  Rest(<<>>, t) = [i \in 1..Len(t) |-> t[i]] /\ Len(<<>>) + Len(t) = Len(t)
<1>1. Len(t) \in Nat /\ Len(<<>>) = 0 OBVIOUS
<1>2. \A i \in 1..Len(t) : ~(i <= 0) /\ i - 0 = i BY <1>1
<1>3. 0 + Len(t) = Len(t) BY <1>1
<1> QED BY <1>1, <1>2, <1>3 DEF Rest

\* A packet pushed at the end of the queue is the last of the split.
LEMMA SplitPush ==
    ASSUME NEW ps \in Seq(Seq(Bytes)), NEW n, NEW d \in Seq(Bytes), NEW t \in Seq(Bytes),
           NEW b, Split(ps, n, Len(d) + Len(t), Rest(d, t), b), NEW p \in Seq(Bytes)
    PROVE  \E c : Split(Append(ps, p), n, Len(d) + Len(t \o p), Rest(d, t \o p), c)
<1> DEFINE qs == Append(ps, p)
           r == Rest(d, t)
           q == Rest(d, t \o p)
           l == Len(d) + Len(t)
           c == [m \in n..(Len(ps) + 1) |-> IF m <= Len(ps) THEN b[m] ELSE l + Len(p)]
<1>1. /\ Len(d) \in Nat /\ Len(t) \in Nat /\ Len(p) \in Nat /\ Len(ps) \in Nat
      /\ Len(t \o p) = Len(t) + Len(p)
      /\ Len(qs) = Len(ps) + 1 /\ qs[Len(ps) + 1] = p
      /\ \A i \in 1..Len(ps) : qs[i] = ps[i] /\ Len(ps[i]) \in Nat
  OBVIOUS
<1>2. /\ \A i \in 1..l : q[i] = r[i]
      /\ \A j \in 1..Len(p) : q[l + j] = p[j]
  <2>1. \A i \in 1..Len(t) : (t \o p)[i] = t[i] OBVIOUS
  <2>2. \A j \in 1..Len(p) : (t \o p)[Len(t) + j] = p[j] OBVIOUS
  <2>3. ASSUME NEW i \in 1..l PROVE q[i] = r[i]
    <3>1. i \in 1..(Len(d) + Len(t \o p)) BY <1>1
    <3>2. ~(i <= Len(d)) => i - Len(d) \in 1..Len(t) BY <1>1
    <3> QED BY <2>1, <3>1, <3>2 DEF Rest
  <2>4. ASSUME NEW j \in 1..Len(p) PROVE q[l + j] = p[j]
    <3>1. l + j \in 1..(Len(d) + Len(t \o p)) /\ ~(l + j <= Len(d)) BY <1>1
    <3>2. (l + j) - Len(d) = Len(t) + j BY <1>1
    <3> QED BY <2>2, <3>1, <3>2 DEF Rest
  <2> QED BY <2>3, <2>4
<1>3. /\ n \in 0..Len(ps) /\ b \in [n..Len(ps) -> Nat]
      /\ b[n] = 0 /\ b[Len(ps)] = l
      /\ \A m, k \in n..Len(ps) : m <= k => b[m] <= b[k]
      /\ \A m \in (n + 1)..Len(ps) : b[m] = b[m - 1] + Len(ps[m])
      /\ \A m \in (n + 1)..Len(ps) : \A j \in 1..Len(ps[m]) : r[b[m - 1] + j] = ps[m][j]
  BY DEF Split
<1> HIDE DEF qs, r, q
<1>4. l \in Nat /\ l + Len(p) \in Nat BY <1>1
<1>5. \A m \in n..Len(ps) : m \in n..(Len(ps) + 1) /\ m <= Len(ps) /\ b[m] \in Nat /\ b[m] <= l
  <2> SUFFICES ASSUME NEW m \in n..Len(ps)
               PROVE  m \in n..(Len(ps) + 1) /\ m <= Len(ps) /\ b[m] \in Nat /\ b[m] <= l
    OBVIOUS
  <2>1. m \in n..(Len(ps) + 1) /\ m <= Len(ps) /\ Len(ps) \in n..Len(ps) BY <1>1, <1>3
  <2>2. b[m] \in Nat BY <1>3
  <2>3. b[m] <= b[Len(ps)] BY <1>3, <2>1
  <2> QED BY <1>3, <2>1, <2>2, <2>3
<1> HIDE DEF l
<1>6. /\ \A m \in n..Len(ps) : c[m] = b[m]
      /\ c[Len(ps) + 1] = l + Len(p)
      /\ c \in [n..(Len(ps) + 1) -> Nat]
  BY <1>1, <1>3, <1>4, <1>5
<1>7. \A m \in n..(Len(ps) + 1) : m \in n..Len(ps) \/ m = Len(ps) + 1 BY <1>1, <1>3
<1> HIDE DEF c
<1>8. \A m, k \in n..(Len(ps) + 1) : m <= k => c[m] <= c[k]
  <2> SUFFICES ASSUME NEW m \in n..(Len(ps) + 1), NEW k \in n..(Len(ps) + 1), m <= k
               PROVE  c[m] <= c[k]
    OBVIOUS
  <2>1. CASE k \in n..Len(ps)
    <3>1. m \in n..Len(ps) BY <1>1, <1>3, <2>1
    <3> QED BY <1>3, <1>6, <2>1, <3>1
  <2>2. CASE k = Len(ps) + 1 /\ m \in n..Len(ps)
    <3>1. b[m] \in Nat /\ b[m] <= l /\ l \in Nat /\ Len(p) \in Nat BY <1>1, <1>4, <1>5, <2>2
    <3>2. b[m] <= l + Len(p) BY <3>1
    <3> QED BY <1>6, <2>2, <3>2
  <2>3. CASE k = Len(ps) + 1 /\ m = Len(ps) + 1 BY <1>1, <1>4, <1>6, <2>3
  <2> QED BY <1>7, <2>1, <2>2, <2>3
<1>9. ASSUME NEW m \in (n + 1)..(Len(ps) + 1)
      PROVE  /\ c[m] = c[m - 1] + Len(qs[m])
             /\ \A j \in 1..Len(qs[m]) : q[c[m - 1] + j] = qs[m][j]
  <2>1. CASE m = Len(ps) + 1
    <3>1. m - 1 = Len(ps) /\ Len(ps) \in n..Len(ps) BY <1>1, <1>3, <2>1
    <3>2. c[m - 1] = l /\ c[m] = l + Len(p) /\ qs[m] = p BY <1>1, <1>3, <1>6, <2>1, <3>1
    <3> QED BY <1>2, <3>2 DEF l
  <2>2. CASE m \in (n + 1)..Len(ps)
    <3>1. m - 1 \in n..Len(ps) /\ m \in n..Len(ps) /\ m \in 1..Len(ps) BY <1>1, <1>3, <2>2
    <3>2. c[m] = b[m] /\ c[m - 1] = b[m - 1] /\ qs[m] = ps[m] BY <1>1, <1>6, <3>1
    <3>3. b[m] = b[m - 1] + Len(ps[m]) BY <1>3, <2>2
    <3>4. ASSUME NEW j \in 1..Len(ps[m]) PROVE q[b[m - 1] + j] = ps[m][j]
      <4>1. b[m - 1] \in Nat /\ b[m] <= l BY <1>5, <3>1
      <4>2. PICK x \in Nat, y \in Nat, z \in Nat : x = b[m - 1] /\ y = Len(ps[m]) /\ z = l
        BY <1>1, <1>4, <3>1, <4>1
      <4>3. x + y <= z /\ j \in 1..y BY <3>3, <4>1, <4>2
      <4>4. x + j \in 1..z BY <4>3
      <4>5. b[m - 1] + j \in 1..l BY <4>2, <4>4
      <4>6. r[b[m - 1] + j] = ps[m][j] BY <1>3, <2>2
      <4> QED BY <1>2, <4>5, <4>6 DEF l
    <3> QED BY <3>2, <3>3, <3>4
  <2> QED BY <1>1, <1>3, <2>1, <2>2
<1>10. c[n] = 0 /\ n \in 0..(Len(ps) + 1) BY <1>1, <1>3, <1>6
<1>11. Len(d) + Len(t \o p) = l + Len(p) BY <1>1 DEF l
<1>12. Split(qs, n, l + Len(p), q, c)
  BY <1>1, <1>4, <1>6, <1>8, <1>9, <1>10 DEF Split
<1> QED BY <1>11, <1>12 DEF qs, q

\* The packet at the head of what is drawn and queued.
LEMMA SplitFirst ==
    ASSUME NEW ps \in Seq(Seq(Bytes)), NEW n, NEW l, NEW r, NEW b, Split(ps, n, l, r, b)
    PROVE  /\ n \in 0..Len(ps) /\ l \in Nat
           /\ n = Len(ps) => l = 0
           /\ n < Len(ps) => /\ Len(ps[n + 1]) <= l
                             /\ \A j \in 1..Len(ps[n + 1]) : r[j] = ps[n + 1][j]
<1>1. Len(ps) \in Nat OBVIOUS
<1>2. n \in 0..Len(ps) /\ l \in Nat /\ (n = Len(ps) => l = 0) BY DEF Split
<1>3. ASSUME n < Len(ps)
      PROVE  /\ Len(ps[n + 1]) <= l
             /\ \A j \in 1..Len(ps[n + 1]) : r[j] = ps[n + 1][j]
  <2>1. /\ n + 1 \in (n + 1)..Len(ps) /\ (n + 1) - 1 = n /\ n + 1 \in n..Len(ps)
        /\ Len(ps) \in n..Len(ps) /\ n + 1 <= Len(ps)
    BY <1>1, <1>2, <1>3
  <2>2. ps[n + 1] \in Seq(Bytes) BY <1>1, <1>2, <1>3
  <2>3. Len(ps[n + 1]) \in Nat BY <2>2
  <2>4. /\ b[n + 1] = b[n] + Len(ps[n + 1]) /\ b[n] = 0 /\ b[n + 1] <= b[Len(ps)]
        /\ b[Len(ps)] = l
        /\ \A j \in 1..Len(ps[n + 1]) : r[b[n] + j] = ps[n + 1][j]
    BY <2>1 DEF Split
  <2>5. \A j \in 1..Len(ps[n + 1]) : 0 + j = j BY <2>3
  <2>6. 0 + Len(ps[n + 1]) = Len(ps[n + 1]) BY <2>3
  <2>7. b[n + 1] = Len(ps[n + 1]) BY <2>4, <2>6
  <2>8. Len(ps[n + 1]) <= l BY <2>4, <2>7
  <2>9. \A j \in 1..Len(ps[n + 1]) : r[0 + j] = ps[n + 1][j] BY <2>4
  <2> QED BY <2>5, <2>8, <2>9
<1> QED BY <1>2, <1>3

\* When the first packet is drawn entirely, the queue is split into the others.
LEMMA SplitHand ==
    ASSUME NEW ps \in Seq(Seq(Bytes)), NEW n, NEW d \in Seq(Bytes), NEW t \in Seq(Bytes),
           NEW b, Split(ps, n, Len(d) + Len(t), Rest(d, t), b), n < Len(ps),
           Len(d) = Len(ps[n + 1])
    PROVE  \E c : Split(ps, n + 1, Len(<<>>) + Len(t), Rest(<<>>, t), c)
<1> DEFINE l == Len(d) + Len(t)
           r == Rest(d, t)
           u == Rest(<<>>, t)
           c == [m \in (n + 1)..Len(ps) |-> b[m] - Len(d)]
<1>1. Len(ps) \in Nat /\ Len(d) \in Nat /\ Len(t) \in Nat OBVIOUS
<1>2. /\ n \in 0..Len(ps) /\ b \in [n..Len(ps) -> Nat]
      /\ b[n] = 0 /\ b[Len(ps)] = l
      /\ \A m, k \in n..Len(ps) : m <= k => b[m] <= b[k]
      /\ \A m \in (n + 1)..Len(ps) : b[m] = b[m - 1] + Len(ps[m])
      /\ \A m \in (n + 1)..Len(ps) : \A j \in 1..Len(ps[m]) : r[b[m - 1] + j] = ps[m][j]
  BY DEF Split
<1>3. \A i \in 1..Len(t) : u[i] = r[Len(d) + i]
  <2> SUFFICES ASSUME NEW i \in 1..Len(t) PROVE u[i] = r[Len(d) + i] OBVIOUS
  <2>1. u[i] = t[i] BY RestAlone
  <2>2. Len(d) + i \in 1..(Len(d) + Len(t)) /\ ~(Len(d) + i <= Len(d))
        /\ (Len(d) + i) - Len(d) = i
    BY <1>1
  <2> QED BY <2>1, <2>2 DEF Rest
<1> HIDE DEF r, u
<1>4. b[n + 1] = Len(d)
  <2>1. n + 1 \in (n + 1)..Len(ps) /\ (n + 1) - 1 = n BY <1>1, <1>2
  <2> QED BY <1>1, <1>2, <2>1
<1>5. \A m \in (n + 1)..Len(ps) : b[m] \in Nat /\ b[m] >= Len(d) /\ b[m] <= l
  <2> SUFFICES ASSUME NEW m \in (n + 1)..Len(ps)
               PROVE  b[m] \in Nat /\ b[m] >= Len(d) /\ b[m] <= l
    OBVIOUS
  <2>1. m \in n..Len(ps) /\ n + 1 \in n..Len(ps) /\ Len(ps) \in n..Len(ps) /\ n + 1 <= m
        /\ m <= Len(ps)
    BY <1>1, <1>2
  <2> QED BY <1>2, <1>4, <2>1
<1>6. c \in [(n + 1)..Len(ps) -> Nat] /\ \A m \in (n + 1)..Len(ps) : c[m] = b[m] - Len(d)
  BY <1>1, <1>5
<1> HIDE DEF c
<1>7. n + 1 \in 0..Len(ps) /\ n + 1 \in (n + 1)..Len(ps) /\ Len(ps) \in (n + 1)..Len(ps)
  BY <1>1, <1>2
<1>8. c[n + 1] = 0 /\ c[Len(ps)] = Len(t)
  <2>1. Len(d) - Len(d) = 0 /\ l - Len(d) = Len(t) BY <1>1
  <2>2. c[n + 1] = b[n + 1] - Len(d) BY <1>6, <1>7
  <2>3. c[Len(ps)] = b[Len(ps)] - Len(d) BY <1>6, <1>7
  <2> HIDE DEF l
  <2> QED BY <1>2, <1>4, <2>1, <2>2, <2>3
<1>9. \A m, k \in (n + 1)..Len(ps) : m <= k => c[m] <= c[k]
  <2> SUFFICES ASSUME NEW m \in (n + 1)..Len(ps), NEW k \in (n + 1)..Len(ps), m <= k
               PROVE  c[m] <= c[k]
    OBVIOUS
  <2>1. m \in n..Len(ps) /\ k \in n..Len(ps) BY <1>1, <1>2
  <2>2. b[m] <= b[k] BY <1>2, <2>1
  <2> QED BY <1>1, <1>5, <1>6, <2>2
<1>10. ASSUME NEW m \in ((n + 1) + 1)..Len(ps)
       PROVE  /\ c[m] = c[m - 1] + Len(ps[m])
              /\ \A j \in 1..Len(ps[m]) : u[c[m - 1] + j] = ps[m][j]
  <2>1. m \in (n + 1)..Len(ps) /\ m - 1 \in (n + 1)..Len(ps) /\ m \in 1..Len(ps) BY <1>1, <1>2
  <2>2. Len(ps[m]) \in Nat
    <3>1. ps[m] \in Seq(Bytes) BY <2>1
    <3> QED BY <3>1
  <2>3. b[m] = b[m - 1] + Len(ps[m]) BY <1>2, <2>1
  <2>4. c[m] = b[m] - Len(d) /\ c[m - 1] = b[m - 1] - Len(d) BY <1>6, <2>1
  <2>5. /\ b[m] \in Nat /\ b[m - 1] \in Nat /\ b[m - 1] >= Len(d) /\ b[m] <= l
    BY <1>5, <2>1
  <2>6. PICK x \in Nat, y \in Nat, z \in Nat, w \in Nat, v \in Nat :
          x = b[m] /\ y = b[m - 1] /\ z = Len(ps[m]) /\ w = Len(d) /\ v = Len(t)
    BY <1>1, <2>2, <2>5
  <2>7. x = y + z /\ y >= w /\ x <= w + v BY <2>3, <2>5, <2>6
  <2>8. c[m] = x - w /\ c[m - 1] = y - w BY <2>4, <2>6
  <2>9. x - w = (y - w) + z BY <2>7
  <2>10. c[m] = c[m - 1] + Len(ps[m]) BY <2>6, <2>8, <2>9
  <2>11. ASSUME NEW j \in 1..Len(ps[m]) PROVE u[c[m - 1] + j] = ps[m][j]
    <3>1. j \in 1..z BY <2>6
    <3>2. (y - w) + j \in 1..v /\ w + ((y - w) + j) = y + j BY <2>7, <3>1
    <3>3. c[m - 1] + j \in 1..Len(t) /\ Len(d) + (c[m - 1] + j) = b[m - 1] + j
      BY <2>6, <2>8, <3>2
    <3>4. r[b[m - 1] + j] = ps[m][j] BY <1>2, <2>1
    <3> QED BY <1>3, <3>3, <3>4
  <2> QED BY <2>10, <2>11
<1>11. Split(ps, n + 1, Len(t), u, c) BY <1>1, <1>6, <1>7, <1>8, <1>9, <1>10 DEF Split
<1> QED BY <1>11, RestAlone DEF u


\* hci_packet_size of a beginning of a valid packet is 0 or the size of that packet.
LEMMA PrefixSize ==
    ASSUME NEW q \in Seq(Bytes), TxPacketValid(q), NEW p \in Seq(Bytes),
           Len(p) > 0, Len(p) <= Len(q), \A i \in 1..Len(p) : p[i] = q[i]
    PROVE  /\ PacketSize(p) = 0 \/ PacketSize(p) = Len(q)
           /\ Len(p) = Len(q) => PacketSize(p) = Len(q)
<1>1. Len(p) \in Nat /\ Len(q) \in Nat /\ 1 \in 1..Len(p) OBVIOUS
<1>2. p[1] = q[1] BY <1>1
<1>3. Len(p) >= 4 => p[4] = q[4] BY <1>1
<1>4. Len(p) >= 5 => p[4] = q[4] /\ p[5] = q[5] /\ Le16(p) = Le16(q) BY <1>1 DEF Le16
<1>5. CASE q[1] \in {CMD, SCO} /\ Len(q) >= 4 /\ Len(q) = 4 + q[4]
  <2>1. PacketSize(p) = IF Len(p) >= 4 THEN 4 + p[4] ELSE 0
    BY <1>1, <1>2, <1>5 DEF PacketSize, CMD, SCO, ACL, ISO
  <2> QED BY <1>1, <1>3, <1>5, <2>1
<1>6. CASE q[1] = ACL /\ Len(q) >= 5 /\ Len(q) = 5 + Le16(q)
  <2>1. PacketSize(p) = IF Len(p) >= 5 THEN 5 + Le16(p) ELSE 0
    BY <1>1, <1>2, <1>6 DEF PacketSize, CMD, SCO, ACL, ISO
  <2> QED BY <1>1, <1>4, <1>6, <2>1
<1>7. CASE q[1] = ISO /\ Len(q) >= 5 /\ Len(q) = 5 + (Le16(q) % IsoModulus)
  <2>1. PacketSize(p) = IF Len(p) >= 5 THEN 5 + (Le16(p) % IsoModulus) ELSE 0
    BY <1>1, <1>2, <1>7 DEF PacketSize, CMD, SCO, ACL, ISO
  <2> QED BY <1>1, <1>4, <1>7, <2>1
<1> QED BY <1>5, <1>6, <1>7 DEF TxPacketValid

\* drv_hci_tx_packet_valid accepts what hci_packet_size says is complete.
LEMMA SizeIsValid ==
    ASSUME NEW p \in Seq(Bytes), Len(p) > 0, Len(p) <= TxMax, PacketSize(p) = Len(p)
    PROVE  TxPacketValid(p)
<1>1. Len(p) \in Nat /\ TxMax \in Nat /\ TxMax < SizeMax /\ SizeMax \in Nat
  BY HciAssumption DEF HciAssumption, SizeMax
<1>2. CASE p[1] \in {CMD, SCO}
  <2>1. PacketSize(p) = IF Len(p) >= 4 THEN 4 + p[4] ELSE 0
    BY <1>1, <1>2 DEF PacketSize, CMD, SCO, ACL, ISO
  <2> QED BY <1>1, <1>2, <2>1 DEF TxPacketValid
<1>3. CASE p[1] = ACL
  <2>1. PacketSize(p) = IF Len(p) >= 5 THEN 5 + Le16(p) ELSE 0
    BY <1>1, <1>3 DEF PacketSize, CMD, SCO, ACL, ISO
  <2> QED BY <1>1, <1>3, <2>1 DEF TxPacketValid
<1>4. CASE p[1] = ISO
  <2>1. PacketSize(p) = IF Len(p) >= 5 THEN 5 + (Le16(p) % IsoModulus) ELSE 0
    BY <1>1, <1>4 DEF PacketSize, CMD, SCO, ACL, ISO
  <2> QED BY <1>1, <1>4, <2>1 DEF TxPacketValid
<1>5. CASE p[1] \notin {CMD, SCO, ACL, ISO}
  <2>1. PacketSize(p) = SizeMax BY <1>1, <1>5 DEF PacketSize
  <2> QED BY <1>1, <2>1
<1> QED BY <1>2, <1>3, <1>4, <1>5

\* The types of what the senders use.
HciTypes ==
    /\ stream \in Seq(Bytes) /\ packet \in Seq(Bytes)
    /\ pushed \in Seq(Seq(Bytes)) /\ handed \in Seq(Seq(Bytes))
    /\ wire \in Seq(Nat)
    /\ txLock \in Senders \cup {Nobody}
    /\ pc \in [Senders -> {"idle", "calling", "draining", "writing", "polling", "rewriting"}]

\* Where a sender is in drv_hci_write_packet.
Writing == {"writing", "polling", "rewriting"}

\* hci_tx_lock is held from the first byte drawn to the end of the write.
LockHeld == \A s \in Senders : pc[s] \in Writing \cup {"draining"} <=> txLock = s

\* Each packet is on the wire at most once, and the one being written is not there yet.
OnWire ==
    /\ \A i \in 1..Len(wire) : wire[i] <= Len(handed)
    /\ \A s \in Senders : pc[s] \in Writing => \A i \in 1..Len(wire) : wire[i] < Len(handed)
    /\ \A i \in 1..(Len(wire) - 1) : wire[i] < wire[i + 1]

\* The bytes of a packet that is not complete.
Drawn == IF \E s \in Senders : pc[s] = "draining" THEN packet ELSE <<>>

\* The packets that were handed over and the bytes that are drawn or still in the queue
\* make up what the host pushed, and less than the next packet is drawn.
Assembled ==
    /\ IsPrefixOf(handed, pushed)
    /\ \E b : Split(pushed, Len(handed), Len(Drawn) + Len(stream), Rest(Drawn, stream), b)
    /\ Len(handed) < Len(pushed) => Len(Drawn) < Len(pushed[Len(handed) + 1])

\* The calls of hal_uart_start_tx that have a packet to fetch.
Fetching == {s \in Senders : pc[s] \in {"calling", "draining"}}

\* The inductive invariant.
HciInv ==
    /\ HciTypes /\ LockHeld /\ OnWire /\ DriverAccepts
    /\ AllCarriable => Assembled
    /\ NothingStranded

\* There are finitely many calls.
LEMMA FetchingFinite == IsFiniteSet(Fetching) /\ Cardinality(Fetching) \in Nat
<1>1. Fetching \subseteq Senders BY DEF Fetching
<1>2. IsFiniteSet(Fetching) BY <1>1, HciAssumption, FS_Subset DEF HciAssumption
<1> QED BY <1>2, FS_CardinalityType

\* The steps of the control and receive threads.
LEMMA OthersKeep == ASSUME HciInv, UNCHANGED transmit PROVE HciInv'
<1>1. UNCHANGED <<stream, txLock, pc, packet, pushed, handed, wire>> BY DEF transmit
<1>2. HciTypes' BY <1>1 DEF HciInv, HciTypes
<1>3. LockHeld' BY <1>1 DEF HciInv, LockHeld
<1>4. OnWire' BY <1>1 DEF HciInv, OnWire
<1>5. DriverAccepts' BY <1>1 DEF HciInv, DriverAccepts
<1>6. Drawn' = Drawn BY <1>1 DEF Drawn
<1>7. AllCarriable' => Assembled' BY <1>1, <1>6 DEF HciInv, AllCarriable, Assembled
<1>8. NothingStranded' BY <1>1 DEF HciInv, NothingStranded, AllCarriable
<1> QED BY <1>2, <1>3, <1>4, <1>5, <1>7, <1>8 DEF HciInv

\* What is drawn belongs to the holder of the lock.
LEMMA DrawnIs ==
    ASSUME HciInv, NEW s \in Senders
    PROVE  /\ pc[s] = "draining" => Drawn = packet
           /\ pc[s] \in Writing => Drawn = <<>>
           /\ txLock = Nobody => Drawn = <<>>
           /\ Drawn \in Seq(Bytes)
<1>1. \A x \in Senders : pc[x] = "draining" => txLock = x BY DEF HciInv, LockHeld
<1>2. pc[s] \in Writing => txLock = s /\ pc[s] # "draining" BY DEF HciInv, LockHeld, Writing
<1>3. Nobody \notin Senders BY HciAssumption DEF HciAssumption
<1>4. <<>> \in Seq(Bytes) /\ packet \in Seq(Bytes) BY DEF HciInv, HciTypes
<1> QED BY <1>1, <1>2, <1>3, <1>4 DEF Drawn

\* The host queues a packet.
LEMMA PushKeeps ==
    ASSUME HciInv, NEW s \in Senders, NEW p \in HostPackets, Push(s, p) PROVE HciInv'
<1>1. p \in Seq(Bytes) BY HciAssumption DEF HciAssumption
<1>2. /\ pc[s] = "idle" /\ stream' = stream \o p /\ pushed' = Append(pushed, p)
      /\ pc' = [pc EXCEPT ![s] = "calling"]
      /\ UNCHANGED <<txLock, packet, handed, wire>>
  BY DEF Push
<1>3. HciTypes BY DEF HciInv
<1>4. \A x \in Senders : pc'[x] = IF x = s THEN "calling" ELSE pc[x] BY <1>2, <1>3 DEF HciTypes
<1>5. HciTypes'
  <2>1. stream' \in Seq(Bytes) BY <1>1, <1>2, <1>3 DEF HciTypes
  <2>2. pushed' \in Seq(Seq(Bytes)) BY <1>1, <1>2, <1>3 DEF HciTypes
  <2>3. pc' \in [Senders -> {"idle", "calling", "draining", "writing", "polling", "rewriting"}]
    BY <1>2, <1>3 DEF HciTypes
  <2> QED BY <1>2, <1>3, <2>1, <2>2, <2>3 DEF HciTypes
<1>6. LockHeld' BY <1>2, <1>4 DEF HciInv, LockHeld, Writing
<1>7. OnWire' BY <1>2, <1>4 DEF HciInv, OnWire, Writing
<1>8. DriverAccepts' BY <1>2, <1>4 DEF HciInv, DriverAccepts
<1>9. Drawn' = Drawn BY <1>2, <1>4 DEF Drawn
<1>10. /\ Len(pushed) \in Nat /\ Len(pushed') = Len(pushed) + 1 /\ Len(handed) \in Nat
      /\ pushed'[Len(pushed) + 1] = p
      /\ \A i \in 1..Len(pushed) : pushed'[i] = pushed[i]
  BY <1>1, <1>2, <1>3 DEF HciTypes
<1>11. ASSUME AllCarriable' PROVE AllCarriable /\ Carriable(p)
  <2>1. \A i \in 1..Len(pushed) : i \in 1..Len(pushed') BY <1>10
  <2>2. Len(pushed) + 1 \in 1..Len(pushed') BY <1>10
  <2>3. \A i \in 1..Len(pushed') : Carriable(pushed'[i]) BY <1>11 DEF AllCarriable
  <2> QED BY <1>10, <2>1, <2>2, <2>3 DEF AllCarriable
<1>12. ASSUME AllCarriable' PROVE Assembled'
  <2>1. Assembled /\ Carriable(p) BY <1>11, <1>12 DEF HciInv
  <2>2. IsPrefixOf(handed, pushed)'
    <3>1. Len(handed) <= Len(pushed) /\ \A i \in 1..Len(handed) : handed[i] = pushed[i]
      BY <2>1 DEF Assembled, IsPrefixOf
    <3>2. Len(handed) <= Len(pushed') /\ \A i \in 1..Len(handed) : i \in 1..Len(pushed)
      BY <1>10, <3>1
    <3> QED BY <1>2, <1>10, <3>1, <3>2 DEF IsPrefixOf
  <2>3. PICK b : Split(pushed, Len(handed), Len(Drawn) + Len(stream), Rest(Drawn, stream), b)
    BY <2>1 DEF Assembled
  <2>4. \E c : Split(Append(pushed, p), Len(handed), Len(Drawn) + Len(stream \o p),
                     Rest(Drawn, stream \o p), c)
    BY <1>1, <1>3, <2>3, DrawnIs, SplitPush DEF HciTypes
  <2>5. Len(handed) < Len(pushed') => Len(Drawn) < Len(pushed'[Len(handed) + 1])
    <3>1. CASE Len(handed) < Len(pushed)
      <4>1. Len(handed) + 1 \in 1..Len(pushed) BY <1>10, <3>1
      <4> QED BY <1>10, <2>1, <3>1, <4>1 DEF Assembled
    <3>2. CASE Len(handed) = Len(pushed)
      <4>1. Len(Drawn) + Len(stream) = 0 BY <1>3, <2>3, <3>2, SplitFirst DEF HciTypes
      <4>2. Len(Drawn) \in Nat /\ Len(stream) \in Nat BY <1>3, DrawnIs DEF HciTypes
      <4>3. Len(Drawn) = 0 BY <4>1, <4>2
      <4>4. Len(p) >= 2 /\ Len(p) \in Nat BY <1>1, <2>1 DEF Carriable, TxPacketValid
      <4>5. pushed'[Len(handed) + 1] = p BY <1>10, <3>2
      <4> QED BY <4>3, <4>4, <4>5
    <3>3. Len(handed) <= Len(pushed) BY <2>1 DEF Assembled, IsPrefixOf
    <3> QED BY <1>10, <3>1, <3>2, <3>3
  <2> QED BY <1>2, <1>9, <2>2, <2>4, <2>5 DEF Assembled
<1>13. ASSUME AllCarriable'
       PROVE  Len(pushed') - Len(handed') <= Cardinality(Fetching')
  <2>1. Fetching' = Fetching \cup {s} /\ s \notin Fetching BY <1>2, <1>4 DEF Fetching
  <2>2. Cardinality(Fetching') = Cardinality(Fetching) + 1
    BY <2>1, FetchingFinite, FS_AddElement
  <2>3. Len(pushed) - Len(handed) <= Cardinality(Fetching)
    BY <1>11, <1>13 DEF HciInv, NothingStranded, Fetching
  <2>4. PICK x \in Nat, y \in Nat, z \in Nat :
          x = Len(pushed) /\ y = Len(handed) /\ z = Cardinality(Fetching)
    BY <1>10, FetchingFinite
  <2>5. (x + 1) - y <= z + 1 BY <2>3, <2>4
  <2> QED BY <1>2, <1>10, <2>2, <2>4, <2>5
<1>14. NothingStranded' BY <1>13 DEF NothingStranded, Fetching
<1> QED BY <1>5, <1>6, <1>7, <1>8, <1>12, <1>14 DEF HciInv

\* Nobody but the holder of the lock is affected when it lets go, or goes on.
LEMMA HolderMoves ==
    ASSUME HciInv, NEW s \in Senders, pc[s] \in Writing \cup {"draining"},
           NEW to \in {"idle", "draining", "writing", "polling", "rewriting"},
           pc' = [pc EXCEPT ![s] = to],
           txLock' = IF to = "idle" THEN Nobody ELSE s
    PROVE  /\ pc' \in [Senders -> {"idle", "calling", "draining", "writing", "polling", "rewriting"}]
           /\ txLock' \in Senders \cup {Nobody}
           /\ \A x \in Senders : pc'[x] = IF x = s THEN to ELSE pc[x]
           /\ \A x \in Senders : x # s => pc[x] \notin Writing \cup {"draining"}
           /\ LockHeld'
           /\ Fetching' = IF to = "draining" THEN Fetching \cup {s} ELSE Fetching \ {s}
           /\ Drawn' = IF to = "draining" THEN packet' ELSE <<>>
<1>1. \A x \in Senders : pc'[x] = IF x = s THEN to ELSE pc[x] BY DEF HciInv, HciTypes
<1>2. txLock = s /\ \A x \in Senders : x # s => pc[x] \notin Writing \cup {"draining"}
  BY DEF HciInv, LockHeld
<1>3. Nobody \notin Senders BY HciAssumption DEF HciAssumption
<1>4. LockHeld' BY <1>1, <1>2, <1>3 DEF LockHeld, Writing
<1>5. Fetching' = IF to = "draining" THEN Fetching \cup {s} ELSE Fetching \ {s}
  BY <1>1 DEF Fetching
<1>6. Drawn' = IF to = "draining" THEN packet' ELSE <<>> BY <1>1, <1>2 DEF Drawn
<1> QED BY <1>1, <1>2, <1>4, <1>5, <1>6 DEF HciInv, HciTypes

\* A sender takes hci_tx_lock.
LEMMA StartKeeps == ASSUME HciInv, NEW s \in Senders, StartTx(s) PROVE HciInv'
<1>1. /\ pc[s] = "calling" /\ txLock = Nobody /\ txLock' = s /\ packet' = <<>>
      /\ pc' = [pc EXCEPT ![s] = "draining"]
      /\ UNCHANGED <<stream, pushed, handed, wire>>
  BY DEF StartTx, LockFree
<1>2. HciTypes BY DEF HciInv
<1>3. \A x \in Senders : pc'[x] = IF x = s THEN "draining" ELSE pc[x] BY <1>1, <1>2 DEF HciTypes
<1>4. \A x \in Senders : pc[x] \notin Writing \cup {"draining"}
  BY <1>1, HciAssumption DEF HciInv, LockHeld, HciAssumption
<1>5. HciTypes' BY <1>1, <1>2 DEF HciTypes
<1>6. LockHeld' BY <1>1, <1>3, <1>4 DEF LockHeld
<1>7. OnWire' BY <1>1, <1>3, <1>4 DEF HciInv, OnWire, Writing
<1>8. DriverAccepts' BY <1>3, <1>4 DEF DriverAccepts, Writing
<1>9. Drawn = <<>> /\ Drawn' = <<>> BY <1>1, <1>3, <1>4 DEF Drawn
<1>10. AllCarriable' = AllCarriable BY <1>1 DEF AllCarriable
<1>11. AllCarriable => Assembled' BY <1>1, <1>9 DEF HciInv, Assembled
<1>12. {x \in Senders : pc'[x] \in {"calling", "draining"}} =
         {x \in Senders : pc[x] \in {"calling", "draining"}}
  BY <1>1, <1>3
<1>13. NothingStranded' BY <1>1, <1>10, <1>12 DEF HciInv, NothingStranded
<1> QED BY <1>5, <1>6, <1>7, <1>8, <1>10, <1>11, <1>13 DEF HciInv

\* A number that is larger than those on the wire.
LEMMA WireGrows ==
    ASSUME NEW w \in Seq(Nat), NEW n \in Nat, \A i \in 1..Len(w) : w[i] < n,
           \A i \in 1..(Len(w) - 1) : w[i] < w[i + 1]
    PROVE  /\ Append(w, n) \in Seq(Nat)
           /\ \A i \in 1..Len(Append(w, n)) : Append(w, n)[i] <= n
           /\ \A i \in 1..(Len(Append(w, n)) - 1) : Append(w, n)[i] < Append(w, n)[i + 1]
<1> DEFINE v == Append(w, n)
<1>1. /\ Len(w) \in Nat /\ v \in Seq(Nat) /\ Len(v) = Len(w) + 1 /\ v[Len(w) + 1] = n
      /\ \A i \in 1..Len(w) : v[i] = w[i] /\ w[i] \in Nat
  OBVIOUS
<1> HIDE DEF v
<1>2. \A i \in 1..Len(v) : i \in 1..Len(w) \/ i = Len(w) + 1 BY <1>1
<1>3. ASSUME NEW i \in 1..Len(v) PROVE v[i] <= n
  <2>1. CASE i \in 1..Len(w)
    <3>1. v[i] \in Nat /\ v[i] < n BY <1>1, <2>1
    <3> QED BY <3>1
  <2>2. CASE i = Len(w) + 1 BY <1>1, <2>2
  <2> QED BY <1>2, <2>1, <2>2
<1>4. ASSUME NEW i \in 1..(Len(v) - 1) PROVE v[i] < v[i + 1]
  <2>1. i \in 1..Len(w) BY <1>1
  <2>2. CASE i = Len(w) BY <1>1, <2>1, <2>2
  <2>3. CASE i < Len(w)
    <3>1. i \in 1..(Len(w) - 1) /\ i + 1 \in 1..Len(w) BY <1>1, <2>1, <2>3
    <3> QED BY <1>1, <2>1, <3>1
  <2> QED BY <1>1, <2>1, <2>2, <2>3
<1> QED BY <1>1, <1>3, <1>4 DEF v

\* drv_hci_write_packet, its wait for room and its second attempt.
LEMMA WritesKeep ==
    ASSUME HciInv, NEW s \in Senders, Write(s) \/ PollOut(s) \/ Rewrite(s)
    PROVE  HciInv'
<1>1. PICK to \in {"idle", "polling", "rewriting"} :
        /\ pc[s] \in Writing /\ pc' = [pc EXCEPT ![s] = to]
        /\ (to = "idle" /\ txLock' = Nobody /\ packet' = <<>>) \/
             (to # "idle" /\ UNCHANGED <<txLock, packet>>)
        /\ wire' = wire \/ (to = "idle" /\ wire' = Append(wire, Len(handed)))
        /\ UNCHANGED <<stream, pushed, handed>>
  BY DEF Write, PollOut, Rewrite, Finish, Writing
<1>2. HciTypes /\ LockHeld /\ OnWire BY DEF HciInv
<1>3. txLock = s BY <1>1, <1>2 DEF LockHeld
<1>4. /\ pc' \in [Senders -> {"idle", "calling", "draining", "writing", "polling", "rewriting"}]
      /\ txLock' \in Senders \cup {Nobody}
      /\ \A x \in Senders : pc'[x] = IF x = s THEN to ELSE pc[x]
      /\ \A x \in Senders : x # s => pc[x] \notin Writing \cup {"draining"}
      /\ LockHeld'
      /\ Fetching' = Fetching \ {s}
      /\ Drawn' = <<>>
  BY <1>1, <1>3, HolderMoves
<1>5. /\ wire \in Seq(Nat) /\ Len(handed) \in Nat
      /\ \A i \in 1..Len(wire) : wire[i] < Len(handed) /\ wire[i] <= Len(handed)
      /\ \A i \in 1..(Len(wire) - 1) : wire[i] < wire[i + 1]
  BY <1>1, <1>2 DEF HciTypes, OnWire
<1>6. wire' \in Seq(Nat) /\ OnWire'
  <2>1. CASE wire' = wire BY <1>1, <1>4, <1>5, <2>1 DEF OnWire
  <2>2. CASE to = "idle" /\ wire' = Append(wire, Len(handed))
    <3>1. \A x \in Senders : pc'[x] \notin Writing BY <1>4, <2>2 DEF Writing
    <3>2. /\ wire' \in Seq(Nat)
          /\ \A i \in 1..Len(wire') : wire'[i] <= Len(handed)
          /\ \A i \in 1..(Len(wire') - 1) : wire'[i] < wire'[i + 1]
      BY <1>5, <2>2, WireGrows
    <3> QED BY <1>1, <3>1, <3>2 DEF OnWire
  <2> QED BY <1>1, <2>1, <2>2
<1>7. packet' \in Seq(Bytes)
  <2>1. <<>> \in Seq(Bytes) OBVIOUS
  <2> QED BY <1>1, <1>2, <2>1 DEF HciTypes
<1>8. HciTypes' BY <1>1, <1>2, <1>4, <1>6, <1>7 DEF HciTypes
<1>9. DriverAccepts' BY <1>4 DEF DriverAccepts, Writing
<1>10. Drawn = <<>> BY <1>1, DrawnIs
<1>11. AllCarriable' = AllCarriable BY <1>1 DEF AllCarriable
<1>12. AllCarriable => Assembled' BY <1>1, <1>4, <1>10 DEF HciInv, Assembled
<1>13. Fetching' = Fetching BY <1>1, <1>4 DEF Fetching, Writing
<1>14. NothingStranded' BY <1>1, <1>11, <1>13 DEF HciInv, NothingStranded, Fetching
<1> QED BY <1>4, <1>6, <1>8, <1>9, <1>11, <1>12, <1>14 DEF HciInv

\* The packet to be assembled next is a carriable one, and what is drawn is less.
LEMMA NextPacket ==
    ASSUME HciInv, AllCarriable, NEW s \in Senders, pc[s] = "draining"
    PROVE  /\ Len(handed) \in Nat /\ Len(pushed) \in Nat /\ Len(handed) <= Len(pushed)
           /\ Len(packet) \in Nat /\ Len(stream) \in Nat
           /\ Len(handed) = Len(pushed) => Len(packet) = 0 /\ Len(stream) = 0
           /\ Len(handed) < Len(pushed) =>
                LET q == pushed[Len(handed) + 1]
                IN  /\ q \in Seq(Bytes) /\ Carriable(q) /\ Len(q) \in Nat
                    /\ Len(packet) < Len(q) /\ Len(q) <= Len(packet) + Len(stream)
                    /\ \A j \in 1..Len(q) : Rest(packet, stream)[j] = q[j]
<1>1. HciTypes /\ Assembled /\ Drawn = packet BY DrawnIs DEF HciInv
<1>2. Len(handed) \in Nat /\ Len(pushed) \in Nat /\ Len(packet) \in Nat /\ Len(stream) \in Nat
  BY <1>1 DEF HciTypes
<1>3. Len(handed) <= Len(pushed) BY <1>1 DEF Assembled, IsPrefixOf
<1>4. PICK b : Split(pushed, Len(handed), Len(packet) + Len(stream), Rest(packet, stream), b)
  BY <1>1 DEF Assembled
<1>5. Len(handed) = Len(pushed) => Len(packet) = 0 /\ Len(stream) = 0
  <2>1. Len(handed) = Len(pushed) => Len(packet) + Len(stream) = 0
    BY <1>1, <1>4, SplitFirst DEF HciTypes
  <2> QED BY <1>2, <2>1
<1>6. ASSUME Len(handed) < Len(pushed)
      PROVE  LET q == pushed[Len(handed) + 1]
             IN  /\ q \in Seq(Bytes) /\ Carriable(q) /\ Len(q) \in Nat
                 /\ Len(packet) < Len(q) /\ Len(q) <= Len(packet) + Len(stream)
                 /\ \A j \in 1..Len(q) : Rest(packet, stream)[j] = q[j]
  <2>1. Len(handed) + 1 \in 1..Len(pushed) BY <1>2, <1>6
  <2>2. pushed[Len(handed) + 1] \in Seq(Bytes) /\ Carriable(pushed[Len(handed) + 1])
    BY <1>1, <2>1 DEF HciTypes, AllCarriable
  <2>3. Len(pushed[Len(handed) + 1]) \in Nat BY <2>2
  <2>4. /\ Len(pushed[Len(handed) + 1]) <= Len(packet) + Len(stream)
        /\ \A j \in 1..Len(pushed[Len(handed) + 1]) :
             Rest(packet, stream)[j] = pushed[Len(handed) + 1][j]
    <3>1. pushed \in Seq(Seq(Bytes)) BY <1>1 DEF HciTypes
    <3> QED BY <1>4, <1>6, <3>1, SplitFirst
  <2>5. Len(packet) < Len(pushed[Len(handed) + 1]) BY <1>1, <1>6 DEF Assembled
  <2> QED BY <2>2, <2>3, <2>4, <2>5
<1> QED BY <1>2, <1>3, <1>5, <1>6

\* The queue ran out or the buffer is full: with packets that can be carried this
\* happens only to a call whose packet another one has fetched.
LEMMA FailsKeep == ASSUME HciInv, NEW s \in Senders, DrainFails(s) PROVE HciInv'
<1>1. /\ pc[s] = "draining" /\ (Len(packet) = TxMax \/ stream = <<>>)
      /\ pc' = [pc EXCEPT ![s] = "idle"] /\ txLock' = Nobody /\ packet' = <<>>
      /\ UNCHANGED <<stream, pushed, handed, wire>>
  BY DEF DrainFails, Finish
<1>2. HciTypes BY DEF HciInv
<1>3. /\ pc' \in [Senders -> {"idle", "calling", "draining", "writing", "polling", "rewriting"}]
      /\ \A x \in Senders : pc'[x] = IF x = s THEN "idle" ELSE pc[x]
      /\ \A x \in Senders : x # s => pc[x] \notin Writing \cup {"draining"}
      /\ txLock' \in Senders \cup {Nobody} /\ LockHeld' /\ Drawn' = <<>>
  BY <1>1, HolderMoves
<1>4. HciTypes' BY <1>1, <1>2, <1>3 DEF HciTypes
<1>5. \A x \in Senders : pc'[x] \notin Writing BY <1>3 DEF Writing
<1>6. OnWire' BY <1>1, <1>5 DEF HciInv, OnWire
<1>7. DriverAccepts' BY <1>5 DEF DriverAccepts, Writing
<1>8. AllCarriable' = AllCarriable BY <1>1 DEF AllCarriable
<1>9. ASSUME AllCarriable PROVE Len(handed) = Len(pushed) /\ packet = <<>>
  <2>1. /\ Len(handed) \in Nat /\ Len(pushed) \in Nat /\ Len(handed) <= Len(pushed)
        /\ Len(packet) \in Nat
        /\ Len(handed) = Len(pushed) => Len(packet) = 0
    BY <1>1, <1>9, NextPacket
  <2>2. ASSUME Len(handed) < Len(pushed) PROVE FALSE
    <3>1. PICK q \in Seq(Bytes) :
            /\ Carriable(q) /\ Len(q) \in Nat
            /\ Len(packet) < Len(q) /\ Len(q) <= Len(packet) + Len(stream)
      BY <1>1, <1>9, <2>2, NextPacket
    <3>2. Len(q) <= TxMax /\ TxMax \in Nat BY <3>1, HciAssumption DEF Carriable, HciAssumption
    <3>3. CASE Len(packet) = TxMax BY <2>1, <3>1, <3>2, <3>3
    <3>4. CASE stream = <<>>
      <4>1. Len(stream) = 0 BY <3>4
      <4> QED BY <2>1, <3>1, <4>1
    <3> QED BY <1>1, <3>3, <3>4
  <2>3. Len(handed) = Len(pushed) BY <2>1, <2>2
  <2>4. packet = <<>> BY <1>2, <2>1, <2>3 DEF HciTypes
  <2> QED BY <2>3, <2>4
<1>10. AllCarriable => Assembled'
  <2>1. AllCarriable => Drawn = <<>> BY <1>1, <1>9, DrawnIs
  <2> QED BY <1>1, <1>3, <2>1 DEF HciInv, Assembled
<1>11. NothingStranded'
  <2>1. Fetching' \subseteq Senders BY DEF Fetching
  <2>2. IsFiniteSet(Fetching') BY <2>1, HciAssumption, FS_Subset DEF HciAssumption
  <2>3. Cardinality(Fetching') \in Nat BY <2>2, FS_CardinalityType
  <2>4. Len(handed) \in Nat BY <1>2 DEF HciTypes
  <2>5. Len(handed) - Len(handed) <= Cardinality(Fetching') BY <2>3, <2>4
  <2> QED BY <1>1, <1>8, <1>9, <2>5 DEF NothingStranded, Fetching
<1> QED BY <1>3, <1>4, <1>6, <1>7, <1>8, <1>10, <1>11 DEF HciInv

\* One byte more.
LEMMA ByteDrawn ==
    ASSUME HciInv, stream # <<>>, NEW p, p = Append(packet, Head(stream)),
           NEW u, u = Tail(stream)
    PROVE  /\ p \in Seq(Bytes) /\ u \in Seq(Bytes)
           /\ Len(packet) \in Nat /\ Len(p) = Len(packet) + 1 /\ Len(p) \in Nat
           /\ Rest(p, u) = Rest(packet, stream)
           /\ Len(p) + Len(u) = Len(packet) + Len(stream)
<1>1. stream \in Seq(Bytes) /\ packet \in Seq(Bytes) BY DEF HciInv, HciTypes
<1>2. Head(stream) \in Bytes /\ Tail(stream) \in Seq(Bytes) BY <1>1
<1>3. p \in Seq(Bytes) /\ u \in Seq(Bytes) BY <1>1, <1>2
<1>4. Len(packet) \in Nat /\ Len(p) = Len(packet) + 1 BY <1>1, <1>2
<1> QED BY <1>1, <1>3, <1>4, RestMoves

\* As long as the host's packets can be carried, the framing is not lost.
LEMMA PrefixDrawn ==
    ASSUME HciInv, AllCarriable, NEW s \in Senders, pc[s] = "draining", stream # <<>>,
           NEW p, p = Append(packet, Head(stream))
    PROVE  /\ Len(handed) \in Nat /\ Len(pushed) \in Nat /\ Len(handed) < Len(pushed)
           /\ LET q == pushed[Len(handed) + 1]
              IN  /\ q \in Seq(Bytes) /\ Len(q) \in Nat /\ Len(q) <= TxMax
                  /\ Len(p) > 0 /\ Len(p) <= Len(q)
                  /\ \A i \in 1..Len(p) : p[i] = q[i]
                  /\ PacketSize(p) = 0 \/ PacketSize(p) = Len(q)
                  /\ Len(p) = Len(q) => PacketSize(p) = Len(q)
<1>1. PICK u : u = Tail(stream) OBVIOUS
<1>2. /\ p \in Seq(Bytes) /\ u \in Seq(Bytes)
      /\ Len(packet) \in Nat /\ Len(p) = Len(packet) + 1 /\ Len(p) \in Nat
      /\ Rest(p, u) = Rest(packet, stream)
  BY <1>1, ByteDrawn
<1>3. /\ Len(handed) \in Nat /\ Len(pushed) \in Nat /\ Len(handed) <= Len(pushed)
      /\ Len(handed) = Len(pushed) => Len(stream) = 0
  BY NextPacket
<1>4. Len(stream) # 0
  <2>1. stream \in Seq(Bytes) BY DEF HciInv, HciTypes
  <2> QED BY <2>1
<1>5. Len(handed) < Len(pushed) BY <1>3, <1>4
<1>6. PICK q : q = pushed[Len(handed) + 1] OBVIOUS
<1>7. /\ q \in Seq(Bytes) /\ Carriable(q) /\ Len(q) \in Nat
      /\ Len(packet) < Len(q)
      /\ \A j \in 1..Len(q) : Rest(packet, stream)[j] = q[j]
  BY <1>5, <1>6, NextPacket
<1>8. Len(p) > 0 /\ Len(p) <= Len(q) BY <1>2, <1>7
<1>9. ASSUME NEW i \in 1..Len(p) PROVE p[i] = q[i]
  <2>1. Len(u) \in Nat BY <1>2
  <2>2. i \in 1..(Len(p) + Len(u)) /\ i <= Len(p) /\ i \in 1..Len(q) BY <1>2, <1>7, <1>8, <2>1
  <2>3. Rest(p, u)[i] = p[i] BY <2>2 DEF Rest
  <2> QED BY <1>2, <1>7, <2>2, <2>3
<1>10. TxPacketValid(q) /\ Len(q) <= TxMax BY <1>7 DEF Carriable
<1>11. /\ PacketSize(p) = 0 \/ PacketSize(p) = Len(q)
       /\ Len(p) = Len(q) => PacketSize(p) = Len(q)
  BY <1>2, <1>7, <1>8, <1>9, <1>10, PrefixSize
<1> QED BY <1>3, <1>5, <1>6, <1>7, <1>8, <1>9, <1>10, <1>11

\* A packet is too large: it is not one of those that can be carried.
LEMMA RefuseKeeps ==
    ASSUME HciInv, NEW s \in Senders, pc[s] = "draining", stream # <<>>,
           NEW p, p = Append(packet, Head(stream)),
           stream' = Tail(stream), TooLarge(PacketSize(p)), Finish(s),
           UNCHANGED <<pushed, handed, wire>>
    PROVE  HciInv'
<1>1. pc' = [pc EXCEPT ![s] = "idle"] /\ txLock' = Nobody /\ packet' = <<>> BY DEF Finish
<1>2. HciTypes BY DEF HciInv
<1>3. /\ pc' \in [Senders -> {"idle", "calling", "draining", "writing", "polling", "rewriting"}]
      /\ \A x \in Senders : pc'[x] = IF x = s THEN "idle" ELSE pc[x]
      /\ \A x \in Senders : x # s => pc[x] \notin Writing \cup {"draining"}
      /\ txLock' \in Senders \cup {Nobody} /\ LockHeld'
  BY <1>1, HolderMoves
<1>4. stream' \in Seq(Bytes) BY ByteDrawn
<1>5. HciTypes' BY <1>1, <1>2, <1>3, <1>4 DEF HciTypes
<1>6. \A x \in Senders : pc'[x] \notin Writing BY <1>3 DEF Writing
<1>7. OnWire' BY <1>6 DEF HciInv, OnWire
<1>8. DriverAccepts' BY <1>6 DEF DriverAccepts, Writing
<1>9. ~AllCarriable
  <2> SUFFICES ASSUME AllCarriable PROVE FALSE OBVIOUS
  <2>1. PICK n \in Nat : n <= TxMax /\ (PacketSize(p) = 0 \/ PacketSize(p) = n)
    BY PrefixDrawn
  <2>2. TxMax \in Nat BY HciAssumption DEF HciAssumption
  <2> QED BY <2>1, <2>2 DEF TooLarge
<1>10. ~AllCarriable' BY <1>9 DEF AllCarriable
<1>11. NothingStranded' BY <1>10 DEF NothingStranded
<1> QED BY <1>3, <1>5, <1>7, <1>8, <1>10, <1>11 DEF HciInv

\* The packet is not complete yet.
LEMMA MoreKeeps ==
    ASSUME HciInv, NEW s \in Senders, pc[s] = "draining", stream # <<>>,
           NEW p, p = Append(packet, Head(stream)),
           stream' = Tail(stream), PacketSize(p) # Len(p), packet' = p,
           UNCHANGED <<txLock, pc, handed, pushed, wire>>
    PROVE  HciInv'
<1>1. HciTypes BY DEF HciInv
<1>2. PICK u : u = stream' OBVIOUS
<1>3. /\ p \in Seq(Bytes) /\ u \in Seq(Bytes)
      /\ Rest(p, u) = Rest(packet, stream) /\ Len(p) + Len(u) = Len(packet) + Len(stream)
  BY <1>2, ByteDrawn
<1>4. HciTypes' BY <1>1, <1>2, <1>3 DEF HciTypes
<1>5. LockHeld' BY DEF HciInv, LockHeld
<1>6. OnWire' BY DEF HciInv, OnWire
<1>7. \A x \in Senders : pc[x] \notin Writing BY DEF HciInv, LockHeld, Writing
<1>8. DriverAccepts' BY <1>7 DEF DriverAccepts, Writing
<1>9. AllCarriable' = AllCarriable BY DEF AllCarriable
<1>10. Drawn = packet /\ Drawn' = p BY DEF Drawn
<1>11. ASSUME AllCarriable PROVE Assembled'
  <2>1. Assembled BY <1>11 DEF HciInv
  <2>2. PICK q : q = pushed[Len(handed) + 1] OBVIOUS
  <2>3. Len(q) \in Nat /\ Len(p) <= Len(q) /\ (Len(p) = Len(q) => PacketSize(p) = Len(q))
    BY <1>11, <2>2, PrefixDrawn
  <2>4. Len(p) < Len(q)
    <3>1. Len(p) \in Nat BY <1>3
    <3> QED BY <2>3, <3>1
  <2>5. PICK b : Split(pushed, Len(handed), Len(packet) + Len(stream), Rest(packet, stream), b)
    BY <1>10, <2>1 DEF Assembled
  <2>6. Split(pushed, Len(handed), Len(p) + Len(u), Rest(p, u), b) BY <1>3, <2>5
  <2>7. IsPrefixOf(handed, pushed) BY <2>1 DEF Assembled
  <2> QED BY <1>2, <1>10, <2>2, <2>4, <2>6, <2>7 DEF Assembled, IsPrefixOf
<1>12. NothingStranded' BY <1>9 DEF HciInv, NothingStranded
<1> QED BY <1>4, <1>5, <1>6, <1>8, <1>9, <1>11, <1>12 DEF HciInv

\* The packet is complete and handed to the driver.
LEMMA HandKeeps ==
    ASSUME HciInv, NEW s \in Senders, pc[s] = "draining", stream # <<>>,
           NEW p, p = Append(packet, Head(stream)), Len(packet) < TxMax,
           stream' = Tail(stream), PacketSize(p) = Len(p), packet' = p,
           pc' = [pc EXCEPT ![s] = "writing"], handed' = Append(handed, p),
           UNCHANGED <<txLock, pushed, wire>>
    PROVE  HciInv'
<1>1. HciTypes BY DEF HciInv
<1>2. PICK u : u = stream' OBVIOUS
<1>3. /\ p \in Seq(Bytes) /\ u \in Seq(Bytes)
      /\ Len(packet) \in Nat /\ Len(p) = Len(packet) + 1 /\ Len(p) \in Nat
      /\ Rest(p, u) = Rest(packet, stream) /\ Len(p) + Len(u) = Len(packet) + Len(stream)
  BY <1>2, ByteDrawn
<1>4. txLock = s BY DEF HciInv, LockHeld
<1>5. /\ pc' \in [Senders -> {"idle", "calling", "draining", "writing", "polling", "rewriting"}]
      /\ \A x \in Senders : pc'[x] = IF x = s THEN "writing" ELSE pc[x]
      /\ \A x \in Senders : x # s => pc[x] \notin Writing \cup {"draining"}
      /\ LockHeld' /\ Fetching' = Fetching \ {s} /\ Drawn' = <<>>
  BY <1>4, HolderMoves
<1>6. /\ Len(handed) \in Nat /\ Len(handed') = Len(handed) + 1
      /\ handed' \in Seq(Seq(Bytes)) /\ handed'[Len(handed) + 1] = p
      /\ \A i \in 1..Len(handed) : handed'[i] = handed[i]
  <2>1. handed \in Seq(Seq(Bytes)) BY <1>1 DEF HciTypes
  <2> QED BY <1>3, <2>1
<1>7. HciTypes' BY <1>1, <1>2, <1>3, <1>5, <1>6 DEF HciTypes
<1>8. OnWire'
  <2>1. wire \in Seq(Nat) /\ \A i \in 1..Len(wire) : wire[i] <= Len(handed) /\ wire[i] \in Nat
    BY <1>1 DEF HciInv, OnWire, HciTypes
  <2>2. \A i \in 1..Len(wire) : wire[i] <= Len(handed') /\ wire[i] < Len(handed')
    <3>1. PICK x \in Nat, y \in Nat : x = Len(handed) /\ y = Len(handed') /\ y = x + 1 BY <1>6
    <3>2. \A i \in 1..Len(wire) : wire[i] <= x /\ wire[i] \in Nat BY <2>1, <3>1
    <3>3. \A n \in Nat : n <= x => n <= y /\ n < y BY <3>1
    <3>4. \A i \in 1..Len(wire) : wire[i] <= y /\ wire[i] < y BY <3>2, <3>3
    <3> QED BY <3>1, <3>4
  <2> QED BY <2>2 DEF HciInv, OnWire
<1>9. DriverAccepts'
  <2>1. TxMax \in Nat BY HciAssumption DEF HciAssumption
  <2>2. Len(p) > 0 /\ Len(p) <= TxMax BY <1>3, <2>1
  <2>3. TxPacketValid(p) BY <1>3, <2>2, SizeIsValid
  <2> QED BY <1>5, <2>3 DEF DriverAccepts, Writing
<1>10. AllCarriable' = AllCarriable BY DEF AllCarriable
<1>11. ASSUME AllCarriable PROVE Assembled'
  <2>1. Assembled /\ Drawn = packet BY <1>11, DrawnIs DEF HciInv
  <2>2. PICK q : q = pushed[Len(handed) + 1] OBVIOUS
  <2>3. /\ Len(pushed) \in Nat /\ Len(handed) < Len(pushed)
        /\ q \in Seq(Bytes) /\ Len(q) \in Nat /\ Len(p) > 0
        /\ \A i \in 1..Len(p) : p[i] = q[i]
        /\ PacketSize(p) = 0 \/ PacketSize(p) = Len(q)
    BY <1>11, <2>2, PrefixDrawn
  <2>4. Len(p) = Len(q) BY <1>3, <2>3
  <2>5. p = q BY <1>3, <2>3, <2>4
  <2>6. IsPrefixOf(handed, pushed)'
    <3>1. \A i \in 1..Len(handed) : handed[i] = pushed[i] BY <2>1 DEF Assembled, IsPrefixOf
    <3>2. Len(handed') <= Len(pushed) BY <1>6, <2>3
    <3>3. \A i \in 1..Len(handed') : i \in 1..Len(handed) \/ i = Len(handed) + 1 BY <1>6
    <3>4. \A i \in 1..Len(handed') : handed'[i] = pushed[i] BY <1>6, <2>2, <2>5, <3>1, <3>3
    <3> QED BY <3>2, <3>4 DEF IsPrefixOf
  <2>7. PICK b : Split(pushed, Len(handed), Len(packet) + Len(stream), Rest(packet, stream), b)
    BY <2>1 DEF Assembled
  <2>8. Split(pushed, Len(handed), Len(p) + Len(u), Rest(p, u), b) BY <1>3, <2>7
  <2>9. pushed \in Seq(Seq(Bytes)) BY <1>1 DEF HciTypes
  <2>10. \E c : Split(pushed, Len(handed) + 1, Len(<<>>) + Len(u), Rest(<<>>, u), c)
    BY <1>3, <2>2, <2>3, <2>4, <2>8, <2>9, SplitHand
  <2>11. ASSUME Len(handed') < Len(pushed) PROVE Len(<<>>) < Len(pushed[Len(handed') + 1])
    <3>1. Len(handed') + 1 \in 1..Len(pushed) BY <1>6, <2>3, <2>11
    <3>2. Carriable(pushed[Len(handed') + 1]) /\ pushed[Len(handed') + 1] \in Seq(Bytes)
      BY <1>11, <2>9, <3>1 DEF AllCarriable
    <3>3. Len(pushed[Len(handed') + 1]) >= 2 BY <3>2 DEF Carriable, TxPacketValid
    <3>4. Len(pushed[Len(handed') + 1]) \in Nat BY <3>2
    <3>5. Len(<<>>) = 0 OBVIOUS
    <3> QED BY <3>3, <3>4, <3>5
  <2> QED BY <1>2, <1>5, <1>6, <2>6, <2>10, <2>11 DEF Assembled
<1>12. ASSUME AllCarriable PROVE Len(pushed) - Len(handed') <= Cardinality(Fetching')
  <2>1. s \in Fetching BY DEF Fetching
  <2>2. Cardinality(Fetching') = Cardinality(Fetching) - 1
    BY <1>5, <2>1, FetchingFinite, FS_RemoveElement
  <2>3. Len(pushed) - Len(handed) <= Cardinality(Fetching)
    BY <1>12 DEF HciInv, NothingStranded, Fetching
  <2>4. Len(pushed) \in Nat BY <1>1 DEF HciTypes
  <2>5. PICK x \in Nat, y \in Nat, z \in Nat :
          x = Len(pushed) /\ y = Len(handed) /\ z = Cardinality(Fetching)
    BY <1>6, <2>4, FetchingFinite
  <2>6. x - (y + 1) <= z - 1 BY <2>3, <2>5
  <2> QED BY <1>6, <2>2, <2>5, <2>6
<1>13. NothingStranded' BY <1>10, <1>12 DEF NothingStranded, Fetching
<1> QED BY <1>5, <1>7, <1>8, <1>9, <1>10, <1>11, <1>13 DEF HciInv

\* A byte is drawn.
LEMMA DrainKeeps == ASSUME HciInv, NEW s \in Senders, DrainByte(s) PROVE HciInv'
<1>1. PICK p : p = Append(packet, Head(stream)) OBVIOUS
<1>2. /\ pc[s] = "draining" /\ Len(packet) < TxMax /\ stream # <<>>
      /\ stream' = Tail(stream) /\ UNCHANGED <<pushed, wire>>
      /\ \/ TooLarge(PacketSize(p)) /\ Finish(s) /\ UNCHANGED handed
         \/ PacketSize(p) # Len(p) /\ packet' = p /\ UNCHANGED <<txLock, pc, handed>>
         \/ /\ PacketSize(p) = Len(p) /\ packet' = p /\ pc' = [pc EXCEPT ![s] = "writing"]
            /\ handed' = Append(handed, p) /\ UNCHANGED txLock
  BY <1>1 DEF DrainByte
<1>3. CASE TooLarge(PacketSize(p)) /\ Finish(s) /\ UNCHANGED handed
  BY <1>1, <1>2, <1>3, RefuseKeeps
<1>4. CASE PacketSize(p) # Len(p) /\ packet' = p /\ UNCHANGED <<txLock, pc, handed>>
  BY <1>1, <1>2, <1>4, MoreKeeps
<1>5. CASE /\ PacketSize(p) = Len(p) /\ packet' = p /\ pc' = [pc EXCEPT ![s] = "writing"]
           /\ handed' = Append(handed, p) /\ UNCHANGED txLock
  BY <1>1, <1>2, <1>5, HandKeeps
<1> QED BY <1>2, <1>3, <1>4, <1>5

\* Every step keeps the invariant.
LEMMA HciStep == HciInv /\ [Next]_vars => HciInv'
<1> SUFFICES ASSUME HciInv, [Next]_vars PROVE HciInv' OBVIOUS
<1>1. ASSUME NEW s \in Senders, SendStep(s) PROVE HciInv'
  BY <1>1, StartKeeps, DrainKeeps, FailsKeep, WritesKeep DEF SendStep
<1>2. ASSUME NEW s \in Senders, NEW p \in HostPackets, Push(s, p) PROVE HciInv'
  BY <1>2, PushKeeps
<1>3. CASE UNCHANGED transmit BY <1>3, OthersKeep
<1>4. ASSUME NEW d, SetDevice(d) PROVE HciInv' BY <1>3, <1>4 DEF SetDevice
<1>5. ASSUME NEW results, NEW t, Config(results, t) PROVE HciInv' BY <1>3, <1>5 DEF Config
<1>6. ASSUME CloseBegin \/ CloseEnd \/ Arrive PROVE HciInv'
  BY <1>3, <1>6 DEF CloseBegin, CloseEnd, Arrive
<1>7. ASSUME RxStep PROVE HciInv'
  BY <1>3, <1>7 DEF RxStep, RxCheck, RxPoll, RxRead, RxDeliver
<1>8. CASE UNCHANGED vars BY <1>3, <1>8 DEF vars, transmit
<1> QED BY <1>1, <1>2, <1>4, <1>5, <1>6, <1>7, <1>8 DEF Next

\* The invariant holds initially.
LEMMA HciStarts == Init => HciInv
<1> SUFFICES ASSUME Init PROVE HciInv OBVIOUS
<1>1. /\ stream = <<>> /\ packet = <<>> /\ pushed = <<>> /\ handed = <<>> /\ wire = <<>>
      /\ txLock = Nobody /\ pc = [s \in Senders |-> "idle"]
  BY DEF Init
<1>2. HciTypes
  <2>1. <<>> \in Seq(Bytes) /\ <<>> \in Seq(Seq(Bytes)) /\ <<>> \in Seq(Nat) OBVIOUS
  <2> QED BY <1>1, <2>1 DEF HciTypes
<1>3. Nobody \notin Senders BY HciAssumption DEF HciAssumption
<1>4. LockHeld BY <1>1, <1>3 DEF LockHeld, Writing
<1>5. OnWire /\ DriverAccepts BY <1>1 DEF OnWire, DriverAccepts, Writing
<1>6. Len(pushed) = 0 /\ Len(handed) = 0 /\ Len(stream) = 0 /\ Drawn = <<>>
  BY <1>1 DEF Drawn
<1>7. Assembled
  <2>1. Len(Drawn) + Len(stream) = 0 BY <1>1, <1>6
  <2>2. PICK b : b = [m \in 0..0 |-> 0] OBVIOUS
  <2>3. 0..0 = {0} /\ 1..0 = {} /\ 0 + 1 = 1 OBVIOUS
  <2>4. Split(pushed, Len(handed), 0, Rest(Drawn, stream), b)
    BY <1>6, <2>2, <2>3 DEF Split
  <2>5. IsPrefixOf(handed, pushed) BY <1>1 DEF IsPrefixOf
  <2> QED BY <1>6, <2>1, <2>4, <2>5 DEF Assembled
<1>8. NothingStranded
  <2>1. Len(pushed) - Len(handed) = 0 BY <1>6
  <2> QED BY <2>1, FetchingFinite DEF NothingStranded, Fetching
<1> QED BY <1>2, <1>4, <1>5, <1>7, <1>8 DEF HciInv

\* The invariant holds throughout.
LEMMA HciAlways == Spec => []HciInv
BY HciStarts, HciStep, PTL DEF Spec

\* hal_uart_start_tx finds the boundaries of the host's packets again and the device gets
\* each at most once and in order, for any number of senders, any packets that can be
\* carried, any byte base and any size of the buffer.
THEOREM PacketsAssembled == Spec => []PacketsWholeInOrder
<1>1. HciInv => PacketsWholeInOrder
  BY DEF HciInv, PacketsWholeInOrder, Assembled, OnWire
<1> QED BY <1>1, HciAlways, PTL

\* drv_hci_write_packet is given nothing that drv_hci_tx_packet_valid refuses, whatever
\* the host sends.
THEOREM DriverAgrees == Spec => []DriverAccepts
BY HciAlways, PTL DEF HciInv

\* There are as many calls of hal_uart_start_tx under way as packets wait to be fetched,
\* for any number of senders.
THEOREM NonePending == Spec => []NothingStranded
BY HciAlways, PTL DEF HciInv
=============================================================================
