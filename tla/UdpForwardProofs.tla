-------------------------- MODULE UdpForwardProofs ---------------------------
(***************************************************************************)
(* Local UDP forwarding: Boundaries and OneAssociation of UdpForward, for  *)
(* any sources, lengths, limits and numbers of datagrams.                  *)
(*                                                                         *)
(* OneAssociation follows from the agreement of the table of associations  *)
(* with the goroutines that run, and from the bound on the table.          *)
(* Boundaries follows from what a stream carries: the cells on their way   *)
(* are the headers and payloads of exactly the packets that were sent and  *)
(* not delivered, but for a payload that is still to be written.           *)
(***************************************************************************)
EXTENDS UdpForward, FiniteSetTheorems, TLAPS

\* Types of the state, for every value of the bounds.
Packets == [id : Nat, len : Nat]
Cells == [kind : {"header", "byte"}, id : Nat, len : Nat]
Bridges ==
    [queue : Seq(Packets), cur : Packets, writer : {"off", "run", "payload", "done"},
     reader : {"off", "run", "done"}, waiter : {"off", "run", "done"},
     errorsCh : Seq({"eof", "error"}), end : {"none", "open", "closed", "reset"},
     wire : Seq(Cells), sent : Seq(Packets)]
Associations ==
    [src : Sources, pc : {"none", "open", "bridge", "forget", "gone"},
     cancelled : BOOLEAN, sid : Streams]

------------------------------------------------------------------------------
\* Where the packets q begin in a sequence of cells, and where they end.
Offsets(pos, q) ==
    /\ pos \in [0 .. Len(q) -> Nat] /\ pos[0] = 0
    /\ \A i \in 1 .. Len(q) : pos[i] = pos[i - 1] + q[i].len + 1
    /\ \A i, j \in 0 .. Len(q) : i <= j => pos[i] <= pos[j]

\* The cells w are those of the packets q, as far as they reach.
Spelled(w, pos, q) ==
    \A i \in 1 .. Len(q) :
        /\ w[pos[i - 1] + 1] = Header(q[i])[1]
        /\ \A j \in 1 .. q[i].len :
              pos[i - 1] + 1 + j <= Len(w) => w[pos[i - 1] + 1 + j] = Payload(q[i])[j]
Whole(w, pos, q) == Len(w) = pos[Len(q)]

\* Only the payload of the last packet is missing.
Short(w, pos, q) == Len(q) > 0 /\ q[Len(q)].len > 0 /\ Len(w) = pos[Len(q) - 1] + 1

\* The cells w on their way from a side in state b are the packets that it sent
\* and the other side did not deliver, but for a payload to be written.
Framed(b, w) ==
    \E pos : /\ Offsets(pos, b.sent) /\ Spelled(w, pos, b.sent)
             /\ \/ b.writer # "payload" /\ Whole(w, pos, b.sent)
                \/ b.writer \in {"payload", "done"} /\ Short(w, pos, b.sent)
             /\ b.writer = "payload" => b.cur = b.sent[Len(b.sent)]

LEMMA FramedStart ==
    ASSUME NEW b \in Bridges, b.sent = <<>>, b.writer # "payload"
    PROVE  Framed(b, <<>>)
<1>1. PICK pos : pos = [i \in 0 .. 0 |-> 0]
  BY Zenon
<1>2. Offsets(pos, b.sent)
  BY <1>1 DEF Offsets
<1>3. Spelled(<<>>, pos, b.sent) /\ Whole(<<>>, pos, b.sent)
  BY <1>1 DEF Spelled, Whole
<1>4. QED
  BY <1>2, <1>3, Zenon DEF Framed

\* Framed does not depend on the rest of the state, and a writer may stop.
LEMMA FramedKept ==
    ASSUME NEW b \in Bridges, NEW c \in Bridges, NEW w, Framed(b, w), c.sent = b.sent,
           \/ c.writer = b.writer /\ c.cur = b.cur
           \/ c.writer = "done"
           \/ b.writer # "payload" /\ b.writer # "done" /\ c.writer # "payload"
    PROVE  Framed(c, w)
<1>1. PICK pos : /\ Offsets(pos, b.sent) /\ Spelled(w, pos, b.sent)
                 /\ \/ b.writer # "payload" /\ Whole(w, pos, b.sent)
                    \/ b.writer \in {"payload", "done"} /\ Short(w, pos, b.sent)
                 /\ b.writer = "payload" => b.cur = b.sent[Len(b.sent)]
  BY Zenon DEF Framed
<1>2. /\ \/ c.writer # "payload" /\ Whole(w, pos, c.sent)
         \/ c.writer \in {"payload", "done"} /\ Short(w, pos, c.sent)
      /\ c.writer = "payload" => c.cur = c.sent[Len(c.sent)]
  BY <1>1
<1>3. QED
  BY <1>1, <1>2, Zenon DEF Framed

LEMMA PacketLengths ==
    ASSUME NEW q \in Seq(Packets)
    PROVE  Len(q) \in Nat /\ \A i \in 1 .. Len(q) : q[i] \in Packets /\ q[i].len \in Nat
<1>1. Len(q) \in Nat /\ \A i \in 1 .. Len(q) : q[i] \in Packets
  OBVIOUS
<1>2. \A p \in Packets : p.len \in Nat
  BY DEF Packets
<1>3. QED
  BY <1>1, <1>2, Zenon

\* One packet more, of which the header has been written.
LEMMA HeaderCells ==
    ASSUME NEW q \in Seq(Packets), NEW p \in Packets, NEW w \in Seq(Cells), NEW pos,
           Offsets(pos, q), Spelled(w, pos, q), Whole(w, pos, q)
    PROVE  \E new : /\ Offsets(new, Append(q, p))
                    /\ Spelled(w \o Header(p), new, Append(q, p))
                    /\ p.len = 0 => Whole(w \o Header(p), new, Append(q, p))
                    /\ p.len # 0 => Short(w \o Header(p), new, Append(q, p))
<1>1. PICK r, v, h : r = Append(q, p) /\ v = w \o Header(p) /\ h = Header(p)[1]
  BY Zenon
<1>2. PICK m \in Nat : m = Len(q)
  BY PacketLengths, Zenon
<1>3. PICK l \in Nat : l = p.len
  BY DEF Packets
<1>4. /\ Len(r) = m + 1 /\ r[m + 1] = p
      /\ \A i \in 1 .. m : r[i] = q[i] /\ q[i].len \in Nat
  <2>1. Len(r) = m + 1 /\ r[m + 1] = p /\ \A i \in 1 .. m : r[i] = q[i]
    BY <1>1, <1>2
  <2>2. QED
    BY <1>2, <2>1, PacketLengths, Zenon
<1>5. /\ pos \in [0 .. m -> Nat] /\ pos[0] = 0
      /\ \A i \in 1 .. m : pos[i] = pos[i - 1] + q[i].len + 1
      /\ \A i, j \in 0 .. m : i <= j => pos[i] <= pos[j]
  BY <1>2, Zenon DEF Offsets
<1>6. PICK new : new = [i \in 0 .. m + 1 |-> IF i = m + 1 THEN pos[m] + l + 1 ELSE pos[i]]
  BY Zenon
<1>7. /\ new \in [0 .. m + 1 -> Nat] /\ new[m + 1] = pos[m] + l + 1
      /\ \A i \in 0 .. m : new[i] = pos[i] /\ pos[i] \in Nat /\ pos[i] <= pos[m]
      /\ pos[m] \in Nat
  <2>1. pos[m] \in Nat /\ \A i \in 0 .. m : pos[i] \in Nat /\ pos[i] <= pos[m]
    BY <1>5
  <2>2. QED
    BY <1>6, <2>1, SMTT(30)
<1>8. Offsets(new, r)
  <2>1. new[0] = 0
    BY <1>5, <1>7
  <2>2. ASSUME NEW i \in 1 .. m + 1
        PROVE  new[i] = new[i - 1] + r[i].len + 1
    <3>1. CASE i = m + 1
      BY <1>3, <1>4, <1>7, <3>1
    <3>2. CASE i # m + 1
      <4>1. i \in 1 .. m /\ i \in 0 .. m /\ i - 1 \in 0 .. m
        BY <3>2
      <4>2. QED
        BY <1>4, <1>5, <1>7, <4>1, Zenon
    <3>3. QED
      BY <3>1, <3>2
  <2>3. ASSUME NEW i \in 0 .. m + 1, NEW j \in 0 .. m + 1, i <= j
        PROVE  new[i] <= new[j]
    <3>1. CASE j = m + 1
      BY <1>7, <3>1, SMTT(30)
    <3>2. CASE j # m + 1
      <4>1. i \in 0 .. m /\ j \in 0 .. m
        BY <2>3, <3>2
      <4>2. QED
        BY <1>5, <1>7, <2>3, <4>1, Zenon
    <3>3. QED
      BY <3>1, <3>2
  <2>4. QED
    BY <1>4, <1>7, <2>1, <2>2, <2>3, Zenon DEF Offsets
<1>9. /\ Len(w) \in Nat /\ Len(v) = Len(w) + 1 /\ v[Len(w) + 1] = h /\ Len(w) = pos[m]
      /\ \A n \in 1 .. Len(w) : v[n] = w[n]
  <2>1. Header(p) = <<h>> /\ h \in Cells
    BY <1>1 DEF Header, Cells, Packets
  <2>2. v = w \o <<h>> /\ <<h>> \in Seq(Cells)
    BY <1>1, <2>1
  <2>3. Len(w) \in Nat /\ Len(v) = Len(w) + 1 /\ v[Len(w) + 1] = h
    BY <2>2
  <2>4. \A n \in 1 .. Len(w) : v[n] = w[n]
    BY <2>2
  <2>5. QED
    BY <1>2, <2>3, <2>4, Zenon DEF Whole
<1>10. ASSUME NEW i \in 1 .. m + 1
       PROVE  /\ v[new[i - 1] + 1] = Header(r[i])[1]
              /\ \A j \in 1 .. r[i].len : new[i - 1] + 1 + j <= Len(v) =>
                    v[new[i - 1] + 1 + j] = Payload(r[i])[j]
  <2>1. CASE i = m + 1
    <3>1. new[i - 1] = Len(w) /\ r[i] = p
      BY <1>4, <1>7, <1>9, <2>1
    <3>2. \A j \in 1 .. l : ~ (Len(w) + 1 + j <= Len(v))
      BY <1>9
    <3>3. QED
      BY <1>1, <1>3, <1>9, <3>1, <3>2, Zenon
  <2>2. CASE i # m + 1
    <3>1. i \in 1 .. m /\ i \in 0 .. m /\ i - 1 \in 0 .. m
      BY <2>2
    <3>2. PICK n \in Nat, k \in Nat : n = q[i].len /\ k = pos[i - 1]
      BY <1>4, <1>7, <3>1, Zenon
    <3>3. r[i] = q[i] /\ new[i - 1] = k /\ pos[i] = k + n + 1 /\ pos[i] <= Len(w)
      BY <1>4, <1>5, <1>7, <1>9, <3>1, <3>2, Zenon
    <3>4. v[k + 1] = w[k + 1]
          /\ \A j \in 1 .. n : v[k + 1 + j] = w[k + 1 + j] /\ k + 1 + j <= Len(w)
      <4>1. k + n + 1 <= Len(w)
        BY <3>3, Zenon
      <4>2. PICK z \in Nat : z = Len(w) /\ k + n + 1 <= z
        BY <1>9, <4>1, Zenon
      <4>3. /\ k + 1 \in 1 .. z
            /\ \A j \in 1 .. n : k + 1 + j \in 1 .. z /\ k + 1 + j <= z
        BY <4>2, SMTT(30)
      <4>4. QED
        BY <1>9, <4>2, <4>3, Zenon
    <3>5. /\ w[k + 1] = Header(q[i])[1]
          /\ \A j \in 1 .. n : k + 1 + j <= Len(w) => w[k + 1 + j] = Payload(q[i])[j]
      BY <1>2, <3>1, <3>2, Zenon DEF Spelled
    <3>6. QED
      BY <3>2, <3>3, <3>4, <3>5, ZenonT(30)
  <2>3. QED
    BY <2>1, <2>2, Zenon
<1>11. Spelled(v, new, r)
  BY <1>4, <1>10, Zenon DEF Spelled
<1>12. ASSUME l = 0
       PROVE  Whole(v, new, r)
  BY <1>4, <1>7, <1>9, <1>12 DEF Whole
<1>13. ASSUME l # 0
       PROVE  Short(v, new, r)
  BY <1>3, <1>4, <1>7, <1>9, <1>13, SMTT(30) DEF Short
<1>14. QED
  BY <1>1, <1>3, <1>8, <1>11, <1>12, <1>13, Zenon

LEMMA FramedHeader ==
    ASSUME NEW b \in Bridges, NEW c \in Bridges, NEW w \in Seq(Cells), NEW p \in Packets,
           Framed(b, w), b.writer = "run", c.sent = Append(b.sent, p),
           p.len = 0 => c.writer = "run",
           p.len # 0 => c.writer = "payload" /\ c.cur = p
    PROVE  Framed(c, w \o Header(p))
<1>1. b.sent \in Seq(Packets) /\ b.writer # "payload" /\ b.writer \notin {"payload", "done"}
  BY DEF Bridges
<1>2. PICK pos : Offsets(pos, b.sent) /\ Spelled(w, pos, b.sent) /\ Whole(w, pos, b.sent)
  BY <1>1, Zenon DEF Framed
<1>3. PICK new : /\ Offsets(new, c.sent) /\ Spelled(w \o Header(p), new, c.sent)
                 /\ p.len = 0 => Whole(w \o Header(p), new, c.sent)
                 /\ p.len # 0 => Short(w \o Header(p), new, c.sent)
  BY <1>1, <1>2, HeaderCells, Zenon
<1>4. CASE p.len = 0
  <2>1. c.writer # "payload"
    BY <1>4
  <2>2. QED
    BY <1>3, <1>4, <2>1, Zenon DEF Framed
<1>5. CASE p.len # 0
  <2>1. c.sent[Len(c.sent)] = p
    BY <1>1
  <2>2. QED
    BY <1>3, <1>5, <2>1, Zenon DEF Framed
<1>6. QED
  BY <1>4, <1>5, Zenon

LEMMA PayloadIsSeq ==
    ASSUME NEW p \in Packets
    PROVE  /\ Payload(p) \in Seq(Cells) /\ Len(Payload(p)) = p.len
           /\ DOMAIN Payload(p) = 1 .. p.len
<1>1. p.id \in Nat /\ p.len \in Nat
  BY DEF Packets
<1>2. PICK n \in Nat : n = p.len
  BY <1>1
<1>3. \A i \in 1 .. n : [kind |-> "byte", id |-> p.id, len |-> i] \in Cells
  BY <1>1 DEF Cells
<1>4. Payload(p) \in [1 .. n -> Cells]
  BY <1>2, <1>3 DEF Payload
<1>5. QED
  BY <1>2, <1>4

\* The payload that was missing has been written.
LEMMA PayloadCells ==
    ASSUME NEW q \in Seq(Packets), NEW w \in Seq(Cells), NEW pos,
           Offsets(pos, q), Spelled(w, pos, q), Short(w, pos, q)
    PROVE  /\ Spelled(w \o Payload(q[Len(q)]), pos, q)
           /\ Whole(w \o Payload(q[Len(q)]), pos, q)
<1>1. PICK m \in Nat : m = Len(q)
  BY PacketLengths, Zenon
<1>2. m > 0 /\ m \in 1 .. m
  BY <1>1 DEF Short
<1>3. PICK p \in Packets : p = q[m]
  BY <1>1, <1>2, PacketLengths, Zenon
<1>4. PICK l \in Nat : l = p.len
  BY DEF Packets
<1>5. /\ pos \in [0 .. m -> Nat] /\ pos[0] = 0
      /\ \A i \in 1 .. m : pos[i] = pos[i - 1] + q[i].len + 1
      /\ \A i, j \in 0 .. m : i <= j => pos[i] <= pos[j]
  BY <1>1, Zenon DEF Offsets
<1>6. PICK d, v : d = Payload(p) /\ v = w \o d
  BY Zenon
<1>7. d \in Seq(Cells) /\ Len(d) = l
  BY <1>4, <1>6, PayloadIsSeq, Zenon
<1>8. /\ Len(w) \in Nat /\ Len(v) = Len(w) + l
      /\ \A n \in 1 .. Len(w) : v[n] = w[n]
      /\ \A n \in 1 .. l : v[Len(w) + n] = d[n]
  <2>1. Len(w) \in Nat /\ Len(w \o d) = Len(w) + Len(d)
    BY <1>7
  <2>2. \A n \in 1 .. Len(w) : v[n] = w[n]
    BY <1>6, <1>7
  <2>3. \A n \in 1 .. l : v[Len(w) + n] = d[n]
    BY <1>6, <1>7
  <2>4. QED
    BY <1>6, <1>7, <2>1, <2>2, <2>3, Zenon
<1>9. Len(w) = pos[m - 1] + 1
  BY <1>1, Zenon DEF Short
<1>10. ASSUME NEW i \in 1 .. m
       PROVE  /\ v[pos[i - 1] + 1] = Header(q[i])[1]
              /\ \A j \in 1 .. q[i].len : pos[i - 1] + 1 + j <= Len(v) =>
                    v[pos[i - 1] + 1 + j] = Payload(q[i])[j]
  <2>1. /\ w[pos[i - 1] + 1] = Header(q[i])[1]
        /\ \A j \in 1 .. q[i].len :
              pos[i - 1] + 1 + j <= Len(w) => w[pos[i - 1] + 1 + j] = Payload(q[i])[j]
    BY <1>1, Zenon DEF Spelled
  <2>2. i - 1 \in 0 .. m /\ i \in 0 .. m /\ m - 1 \in 0 .. m /\ i - 1 <= m - 1
    BY <1>2
  <2>3. pos[i - 1] \in Nat /\ pos[m - 1] \in Nat /\ pos[i - 1] <= pos[m - 1]
    BY <1>5, <2>2, Zenon
  <2>4. PICK k \in Nat : k = pos[i - 1]
    BY <2>3, Zenon
  <2>5. k + 1 \in 1 .. Len(w)
    <3>1. k <= pos[m - 1] /\ Len(w) = pos[m - 1] + 1 /\ pos[m - 1] \in Nat
      BY <1>9, <2>3, <2>4, Zenon
    <3>2. QED
      BY <3>1
  <2>6. v[k + 1] = w[k + 1]
    BY <1>8, <2>5, Zenon
  <2>7. CASE i = m
    <3>1. k + 1 = Len(w) /\ q[i] = p
      BY <1>3, <1>9, <2>4, <2>7
    <3>2. QED
      BY <1>4, <1>6, <1>8, <2>1, <2>4, <2>6, <3>1, Zenon
  <2>8. CASE i # m
    <3>1. i <= m - 1
      BY <2>8
    <3>2. PICK n \in Nat : n = q[i].len
      BY <1>1, PacketLengths, Zenon
    <3>3. pos[i] = k + n + 1 /\ pos[i] <= pos[m - 1] /\ pos[i] \in Nat
      BY <1>5, <2>2, <2>4, <3>1, <3>2, Zenon
    <3>4. \A j \in 1 .. n : k + 1 + j \in 1 .. Len(w) /\ k + 1 + j <= Len(w)
      BY <1>8, <1>9, <2>3, <3>3, SMTT(30)
    <3>5. QED
      BY <1>8, <2>1, <2>4, <2>6, <3>2, <3>4, Zenon
  <2>9. QED
    BY <2>7, <2>8, Zenon
<1>11. Len(v) = pos[m]
  <2>1. pos[m] = pos[m - 1] + l + 1 /\ pos[m - 1] \in Nat
    <3>1. m - 1 \in 0 .. m
      BY <1>2
    <3>2. QED
      BY <1>2, <1>3, <1>4, <1>5, <3>1, Zenon
  <2>2. QED
    BY <1>8, <1>9, <2>1, SMTT(30)
<1>12. QED
  BY <1>1, <1>3, <1>6, <1>10, <1>11, Zenon DEF Spelled, Whole

LEMMA FramedPayload ==
    ASSUME NEW b \in Bridges, NEW c \in Bridges, NEW w \in Seq(Cells),
           Framed(b, w), b.writer = "payload", c.sent = b.sent, c.writer = "run"
    PROVE  Framed(c, w \o Payload(b.cur))
<1>1. b.sent \in Seq(Packets)
  BY DEF Bridges
<1>2. PICK pos : /\ Offsets(pos, b.sent) /\ Spelled(w, pos, b.sent) /\ Short(w, pos, b.sent)
                 /\ b.cur = b.sent[Len(b.sent)]
  BY Zenon DEF Framed
<1>3. Spelled(w \o Payload(b.cur), pos, b.sent) /\ Whole(w \o Payload(b.cur), pos, b.sent)
  BY <1>1, <1>2, PayloadCells, Zenon
<1>4. c.writer # "payload"
  OBVIOUS
<1>5. QED
  BY <1>2, <1>3, <1>4, Zenon DEF Framed

LEMMA CutFirst ==
    ASSUME NEW w \in Seq(Cells), NEW n \in Nat
    PROVE  SubSeq(w, 2, n + 1) = [j \in 1 .. n |-> w[1 + j]]
OBVIOUS

LEMMA CutRest ==
    ASSUME NEW w \in Seq(Cells), NEW n \in Nat, NEW e \in Nat, Len(w) = e + (n + 1)
    PROVE  /\ SubSeq(w, n + 2, Len(w)) \in Seq(Cells) /\ Len(SubSeq(w, n + 2, Len(w))) = e
           /\ \A j \in 1 .. e : SubSeq(w, n + 2, Len(w))[j] = w[j + (n + 1)]
<1>1. SubSeq(w, n + 2, Len(w)) \in Seq(Cells) /\ Len(SubSeq(w, n + 2, Len(w))) = e
  OBVIOUS
<1>2. ASSUME NEW j \in 1 .. e
      PROVE  SubSeq(w, n + 2, Len(w))[j] = w[j + (n + 1)]
  OBVIOUS
<1>3. QED
  BY <1>1, <1>2, Zenon

\* A reader that has a whole packet has the one that was sent first, and what is
\* left are the other packets.
LEMMA ReadCells ==
    ASSUME NEW q \in Seq(Packets), NEW w \in Seq(Cells), NEW pos, NEW n,
           Offsets(pos, q), Spelled(w, pos, q), Whole(w, pos, q) \/ Short(w, pos, q),
           w # <<>>, n = Head(w).len, Len(w) > n
    PROVE  /\ q # <<>> /\ n \in Nat /\ Head(w) = Header(Head(q))[1]
           /\ SubSeq(w, 2, n + 1) = Payload(Head(q))
           /\ \E new : /\ Offsets(new, Tail(q))
                       /\ Spelled(SubSeq(w, n + 2, Len(w)), new, Tail(q))
                       /\ Whole(w, pos, q) => Whole(SubSeq(w, n + 2, Len(w)), new, Tail(q))
                       /\ Short(w, pos, q) => Short(SubSeq(w, n + 2, Len(w)), new, Tail(q))
                                              /\ Len(q) > 1
<1>1. PICK m \in Nat, k \in Nat : m = Len(q) /\ k = Len(w)
  <2>1. Len(w) \in Nat
    OBVIOUS
  <2>2. QED
    BY <2>1, PacketLengths, Zenon
<1>2. /\ pos \in [0 .. m -> Nat] /\ pos[0] = 0
      /\ \A i \in 1 .. m : pos[i] = pos[i - 1] + q[i].len + 1
      /\ \A i, j \in 0 .. m : i <= j => pos[i] <= pos[j]
  BY <1>1, Zenon DEF Offsets
<1>3. k > 0 /\ Head(w) = w[1]
  BY <1>1
<1>4. m > 0
  <2>1. ASSUME m = 0
        PROVE  FALSE
    BY <1>1, <1>2, <1>3, <2>1 DEF Whole, Short
  <2>2. QED
    BY <2>1
<1>5. 1 \in 1 .. m /\ 0 \in 0 .. m /\ m \in 1 .. m /\ m \in 0 .. m /\ 1 \in 0 .. m
      /\ m - 1 \in 0 .. m /\ q # <<>>
  BY <1>1, <1>4
<1>6. PICK p \in Packets : p = q[1] /\ p = Head(q) /\ p.len \in Nat
  <2>1. Head(q) = q[1]
    BY <1>5
  <2>2. QED
    BY <1>1, <1>5, <2>1, PacketLengths, Zenon
<1>7. w[1] = Header(p)[1] /\ Header(p)[1].len = p.len
  <2>1. w[pos[1 - 1] + 1] = Header(q[1])[1]
    BY <1>1, <1>5, Zenon DEF Spelled
  <2>2. pos[1 - 1] + 1 = 1
    BY <1>2
  <2>3. QED
    BY <1>6, <2>1, <2>2 DEF Header
<1>8. n \in Nat /\ n = p.len /\ k > n
  BY <1>1, <1>3, <1>6, <1>7, Zenon
<1>9. pos[1] = n + 1
  <2>1. pos[1] = pos[1 - 1] + p.len + 1
    BY <1>2, <1>5, <1>6, Zenon
  <2>2. QED
    BY <1>2, <1>8, <2>1
\* The end of the first packet is reached.
<1>10. ASSUME Short(w, pos, q)
       PROVE  m > 1
  <2>1. ASSUME m = 1
        PROVE  FALSE
    <3>1. k = pos[m - 1] + 1 /\ q[m].len > 0
      BY <1>1, <1>10, Zenon DEF Short
    <3>2. QED
      BY <1>2, <1>6, <1>8, <2>1, <3>1
  <2>2. QED
    BY <1>4, <2>1
<1>11. n + 1 <= k
  BY <1>1, <1>8
<1>12. SubSeq(w, 2, n + 1) = Payload(p)
  <2>1. \A j \in 1 .. n : w[1 + j] = Payload(p)[j]
    <3>1. \A j \in 1 .. q[1].len : pos[1 - 1] + 1 + j <= Len(w) =>
             w[pos[1 - 1] + 1 + j] = Payload(q[1])[j]
      BY <1>1, <1>5, Zenon DEF Spelled
    <3>2. \A j \in 1 .. n : pos[1 - 1] + 1 + j = 1 + j /\ 1 + j <= k
      BY <1>2, <1>8, <1>11, SMTT(30)
    <3>3. QED
      BY <1>1, <1>6, <1>8, <3>1, <3>2, Zenon
  <2>2. SubSeq(w, 2, n + 1) = [j \in 1 .. n |-> w[1 + j]]
    BY <1>8, CutFirst, Zenon
  <2>3. Payload(p) = [j \in 1 .. n |-> Payload(p)[j]]
    BY <1>8 DEF Payload
  <2>4. [j \in 1 .. n |-> w[1 + j]] = [j \in 1 .. n |-> Payload(p)[j]]
    BY <2>1, Zenon
  <2>5. QED
    BY <2>2, <2>3, <2>4, Zenon
<1>13. PICK r, v : r = Tail(q) /\ v = SubSeq(w, n + 2, Len(w))
  BY Zenon
<1>14. /\ Len(r) = m - 1 /\ m - 1 \in Nat
       /\ \A i \in 1 .. m - 1 : r[i] = q[i + 1] /\ i + 1 \in 1 .. m
  BY <1>1, <1>4, <1>5, <1>13
<1>15. PICK c \in Nat : c = n + 1 /\ pos[1] = c
  BY <1>8, <1>9
<1>16. PICK e \in Nat : k = e + c /\ Len(v) = e /\ \A i \in 1 .. e : v[i] = w[i + c]
  <2>1. PICK e \in Nat : k = e + c
    <3>1. k - c \in Nat /\ k = (k - c) + c
      <4>1. c <= k
        BY <1>11, <1>15, Zenon
      <4>2. QED
        BY <4>1
    <3>2. QED
      BY <3>1, Zenon
  <2>2. PICK l \in Nat : l = n
    BY <1>8, Zenon
  <2>3. Len(w) = e + (l + 1)
    BY <1>1, <1>15, <2>1, <2>2, Zenon
  <2>4. /\ Len(SubSeq(w, l + 2, Len(w))) = e
        /\ \A j \in 1 .. e : SubSeq(w, l + 2, Len(w))[j] = w[j + (l + 1)]
    BY <2>3, CutRest, SMTT(30)
  <2>5. v = SubSeq(w, l + 2, Len(w))
    BY <1>13, <2>2, Zenon
  <2>6. Len(v) = e /\ \A i \in 1 .. e : v[i] = w[i + c]
    BY <1>15, <2>2, <2>4, <2>5, Zenon
  <2>7. QED
    BY <2>1, <2>6, Zenon
<1>17. PICK new : new = [i \in 0 .. m - 1 |-> pos[i + 1] - c]
  BY Zenon
<1>18. \A i \in 0 .. m - 1 : /\ new[i] \in Nat /\ pos[i + 1] \in Nat
                             /\ pos[i + 1] = new[i] + c
  <2> SUFFICES ASSUME NEW i \in 0 .. m - 1
               PROVE  /\ new[i] \in Nat /\ pos[i + 1] \in Nat
                      /\ pos[i + 1] = new[i] + c
    BY Zenon
  <2>1. i + 1 \in 0 .. m /\ 1 <= i + 1
    BY <1>4
  <2>2. pos[i + 1] \in Nat /\ pos[1] <= pos[i + 1]
    BY <1>2, <1>5, <2>1, Zenon
  <2>3. new[i] = pos[i + 1] - c
    BY <1>17
  <2>4. QED
    BY <1>15, <2>2, <2>3, SMTT(30)
<1>19. Offsets(new, r)
  <2>1. new \in [0 .. m - 1 -> Nat]
    BY <1>17, <1>18
  <2>2. new[0] = 0
    <3>1. 0 \in 0 .. m - 1 /\ 0 + 1 = 1
      BY <1>4
    <3>2. pos[1] = new[0] + c /\ new[0] \in Nat
      BY <1>18, <3>1
    <3>3. QED
      BY <1>15, <3>2
  <2>3. ASSUME NEW i \in 1 .. m - 1
        PROVE  new[i] = new[i - 1] + r[i].len + 1
    <3>1. PICK h : h = i + 1 /\ h \in 1 .. m /\ h - 1 = i
      BY <1>4
    <3>2. PICK g : g = i - 1 /\ g \in 0 .. m - 1 /\ g + 1 = i /\ i \in 0 .. m - 1
      BY <1>4
    <3>3. pos[h] = new[i] + c /\ new[i] \in Nat
      BY <1>18, <3>1, <3>2, Zenon
    <3>4. pos[i] = new[g] + c /\ new[g] \in Nat
      BY <1>18, <3>2, Zenon
    <3>5. PICK l \in Nat : l = q[h].len
      BY <1>1, <3>1, PacketLengths, Zenon
    <3>6. pos[h] = pos[i] + l + 1
      BY <1>2, <3>1, <3>5, Zenon
    <3>7. r[i].len = l
      BY <1>14, <3>1, <3>5, Zenon
    <3>8. new[i] = new[g] + l + 1
      <4>1. PICK x \in Nat, y \in Nat : x = new[i] /\ y = new[g] /\ x + c = (y + c) + l + 1
        BY <3>3, <3>4, <3>6, Zenon
      <4>2. x + c = (y + c) + l + 1 => x = y + l + 1
        OBVIOUS
      <4>3. QED
        BY <4>1, <4>2, Zenon
    <3>9. QED
      BY <3>2, <3>7, <3>8, Zenon
  <2>4. ASSUME NEW i \in 0 .. m - 1, NEW j \in 0 .. m - 1, i <= j
        PROVE  new[i] <= new[j]
    <3>1. i + 1 \in 0 .. m /\ j + 1 \in 0 .. m /\ i + 1 <= j + 1
      BY <1>4, <2>4
    <3>2. /\ pos[i + 1] <= pos[j + 1] /\ new[i] \in Nat /\ new[j] \in Nat
          /\ pos[i + 1] = new[i] + c /\ pos[j + 1] = new[j] + c
      BY <1>2, <1>18, <3>1, Zenon
    <3>3. QED
      BY <3>2, SMTT(30)
  <2>5. QED
    BY <1>14, <2>1, <2>2, <2>3, <2>4, Zenon DEF Offsets
<1>20. ASSUME NEW i \in 1 .. m - 1
       PROVE  pos[i] \in Nat /\ pos[i] + 1 <= k
  <2>1. PICK h : h = i + 1 /\ h \in 1 .. m /\ h \in 0 .. m /\ h - 1 = i /\ h <= m
                 /\ i \in 0 .. m /\ i <= m - 1
    BY <1>4
  <2>2. pos[i] \in Nat /\ pos[m] \in Nat /\ pos[m - 1] \in Nat /\ pos[h] \in Nat
        /\ pos[i] <= pos[m - 1] /\ pos[h] <= pos[m]
    BY <1>2, <1>5, <2>1, Zenon
  <2>3. PICK l \in Nat : l = q[h].len
    BY <1>1, <2>1, PacketLengths, Zenon
  <2>4. pos[h] = pos[i] + l + 1
    BY <1>2, <2>1, <2>3, Zenon
  <2>5. k = pos[m] \/ k = pos[m - 1] + 1
    BY <1>1, Zenon DEF Whole, Short
  <2>6. PICK x \in Nat, y \in Nat, z \in Nat :
           x = pos[i] /\ x <= y /\ x + l + 1 <= z /\ (k = z \/ k = y + 1)
    BY <2>2, <2>4, <2>5, Zenon
  <2>7. x + 1 <= k
    BY <2>6, SMTT(30)
  <2>8. QED
    BY <2>6, <2>7, Zenon
<1>21. ASSUME NEW i \in 1 .. m - 1
       PROVE  /\ v[new[i - 1] + 1] = Header(r[i])[1]
              /\ \A j \in 1 .. r[i].len : new[i - 1] + 1 + j <= Len(v) =>
                    v[new[i - 1] + 1 + j] = Payload(r[i])[j]
  <2>1. PICK h : h = i + 1 /\ h \in 1 .. m /\ h - 1 = i
    BY <1>4
  <2>2. PICK g : g = i - 1 /\ g \in 0 .. m - 1 /\ g + 1 = i
    BY <1>4
  <2>3. PICK a \in Nat, b \in Nat : a = pos[i] /\ b = new[g] /\ a + 1 <= k /\ a = b + c
    BY <1>18, <1>20, <2>2, Zenon
  <2>4. /\ w[a + 1] = Header(q[h])[1]
        /\ \A j \in 1 .. q[h].len : a + 1 + j <= k => w[a + 1 + j] = Payload(q[h])[j]
    BY <1>1, <2>1, <2>3, ZenonT(30) DEF Spelled
  <2>5. b + 1 \in 1 .. e /\ b + 1 + c = a + 1
    <3>1. (b + c) + 1 <= e + c /\ a = b + c
      BY <1>16, <2>3, Zenon
    <3>2. QED
      BY <3>1
  <2>6. v[b + 1] = w[a + 1]
    <3>1. v[b + 1] = w[b + 1 + c]
      BY <1>16, <2>5, Zenon
    <3>2. QED
      BY <2>5, <3>1, Zenon
  <2>7. PICK l \in Nat : l = q[h].len
    BY <1>1, <2>1, PacketLengths, Zenon
  <2>8. ASSUME NEW j \in 1 .. l, b + 1 + j <= e
        PROVE  v[b + 1 + j] = w[a + 1 + j] /\ a + 1 + j <= k
    <3>1. a = b + c /\ k = e + c /\ b + 1 + j <= e
      BY <1>16, <2>3, <2>8, Zenon
    <3>2. b + 1 + j \in 1 .. e /\ b + 1 + j + c = a + 1 + j /\ a + 1 + j <= k
      BY <3>1
    <3>3. v[b + 1 + j] = w[b + 1 + j + c]
      BY <1>16, <3>2, Zenon
    <3>4. QED
      BY <3>2, <3>3, Zenon
  <2>9. r[i] = q[h]
    BY <1>14, <2>1, Zenon
  <2>10. QED
    BY <1>16, <2>2, <2>3, <2>4, <2>6, <2>7, <2>8, <2>9, Zenon
<1>22. Spelled(v, new, r)
  BY <1>14, <1>21, Zenon DEF Spelled
<1>23. ASSUME Whole(w, pos, q)
       PROVE  Whole(v, new, r)
  <2>1. k = pos[m]
    BY <1>1, <1>23, Zenon DEF Whole
  <2>2. m - 1 \in 0 .. m - 1 /\ m - 1 + 1 = m
    BY <1>4
  <2>3. pos[m] = new[m - 1] + c /\ new[m - 1] \in Nat
    BY <1>18, <2>2
  <2>4. e = new[m - 1]
    BY <1>16, <2>1, <2>3, SMTT(30)
  <2>5. QED
    BY <1>14, <1>16, <2>4, Zenon DEF Whole
<1>24. ASSUME Short(w, pos, q)
       PROVE  Short(v, new, r) /\ m > 1
  <2>1. k = pos[m - 1] + 1 /\ q[m].len > 0 /\ m > 1
    BY <1>1, <1>10, <1>24, Zenon DEF Short
  <2>2. PICK g : g = m - 1 /\ g \in 1 .. m - 1 /\ g + 1 = m /\ g > 0
    BY <2>1, SMTT(30)
  <2>3. PICK f : f = g - 1 /\ f \in 0 .. m - 1 /\ f + 1 = g
    BY <2>1, <2>2
  <2>4. pos[g] = new[f] + c /\ new[f] \in Nat
    BY <1>18, <2>3, Zenon
  <2>5. r[g] = q[m]
    BY <1>14, <2>2, Zenon
  <2>6. e = new[f] + 1
    <3>1. k = pos[g] + 1
      BY <2>1, <2>2, Zenon
    <3>2. QED
      BY <1>16, <2>4, <3>1, SMTT(30)
  <2>7. QED
    BY <1>14, <1>16, <2>1, <2>2, <2>3, <2>5, <2>6, Zenon DEF Short
<1>25. QED
  <2>1. Head(w) = Header(Head(q))[1] /\ SubSeq(w, 2, n + 1) = Payload(Head(q))
    BY <1>3, <1>6, <1>7, <1>12, Zenon
  <2>2. QED
    BY <1>1, <1>5, <1>8, <1>13, <1>19, <1>22, <1>23, <1>24, <2>1, Zenon

LEMMA FramedRead ==
    ASSUME NEW b \in Bridges, NEW c, NEW w \in Seq(Cells), NEW n,
           Framed(b, w), w # <<>>, n = Head(w).len, Len(w) > n,
           c.writer = b.writer, c.cur = b.cur, c.sent = Tail(b.sent)
    PROVE  /\ b.sent # <<>> /\ n \in Nat /\ Head(w) = Header(Head(b.sent))[1]
           /\ SubSeq(w, 2, n + 1) = Payload(Head(b.sent))
           /\ Framed(c, SubSeq(w, n + 2, Len(w)))
<1>1. PICK q \in Seq(Packets) : q = b.sent
  BY DEF Bridges
<1>2. PICK pos : /\ Offsets(pos, q) /\ Spelled(w, pos, q)
                 /\ \/ b.writer # "payload" /\ Whole(w, pos, q)
                    \/ b.writer \in {"payload", "done"} /\ Short(w, pos, q)
                 /\ b.writer = "payload" => b.cur = q[Len(q)]
  BY <1>1, Zenon DEF Framed
<1>3. Whole(w, pos, q) \/ Short(w, pos, q)
  BY <1>2, Zenon
<1>4. PICK v, r : v = SubSeq(w, n + 2, Len(w)) /\ r = Tail(q)
  BY Zenon
<1>5. /\ q # <<>> /\ n \in Nat /\ Head(w) = Header(Head(q))[1]
      /\ SubSeq(w, 2, n + 1) = Payload(Head(q))
      /\ \E new : /\ Offsets(new, r) /\ Spelled(v, new, r)
                  /\ Whole(w, pos, q) => Whole(v, new, r)
                  /\ Short(w, pos, q) => Short(v, new, r) /\ Len(q) > 1
  BY <1>2, <1>3, <1>4, ReadCells, Zenon
<1>6. PICK new : /\ Offsets(new, r) /\ Spelled(v, new, r)
                 /\ Whole(w, pos, q) => Whole(v, new, r)
                 /\ Short(w, pos, q) => Short(v, new, r) /\ Len(q) > 1
  BY <1>5, Zenon
<1>7. ASSUME Len(q) > 1
      PROVE  r[Len(r)] = q[Len(q)]
  BY <1>4, <1>7
<1>8. c.sent = r
  BY <1>1, <1>4, Zenon
<1>9. /\ \/ c.writer # "payload" /\ Whole(v, new, r)
         \/ c.writer \in {"payload", "done"} /\ Short(v, new, r)
      /\ c.writer = "payload" => c.cur = r[Len(r)]
  BY <1>2, <1>6, <1>7
<1>10. Framed(c, v)
  BY <1>6, <1>8, <1>9, Zenon DEF Framed
<1>11. QED
  BY <1>1, <1>4, <1>5, <1>10, Zenon

------------------------------------------------------------------------------
\* The two ends of a stream: what is on its way to an end that is open, and a
\* reader only reads an open end.
SoundAt(b, c) ==
    /\ c.end = "open" => Framed(b, c.wire)
    /\ b.reader = "run" => b.end = "open"
Sound(k) == \A s \in Sides : SoundAt(bridge[k][s], bridge[k][Other(s)])

\* A stream that is not opened yet has carried nothing, and nobody uses the one
\* that was opened in advance.
Idle(b) == b.writer = "off" /\ b.reader = "off" /\ b.waiter = "off"
Fresh(b) == Idle(b) /\ b.end = "none" /\ b.wire = <<>> /\ b.sent = <<>>
Ready(b) == Idle(b) /\ b.end = "open"
Waiting(a) == assoc[a].pc \in {"none", "open"}

StreamInv ==
    /\ bridge \in [Streams -> [Sides -> Bridges]] /\ first \in BOOLEAN /\ replied \in Nat
    /\ intact
    /\ \A k \in Streams : Sound(k)
    /\ \A a \in Assocs : Waiting(a) => \A s \in Sides : Fresh(bridge[a][s])
    /\ first => Ready(bridge[0]["local"])

LEMMA TwoSides ==
    /\ \A s \in Sides : Other(s) \in Sides /\ Other(s) # s /\ Other(Other(s)) = s
    /\ \A s, t \in Sides : t = s \/ t = Other(s)
    /\ "local" \in Sides /\ "remote" \in Sides
    /\ Other("local") = "remote" /\ Other("remote") = "local"
BY DEF Sides, Other

LEMMA SomeStreams ==
    0 \in Streams /\ \A a \in Assocs : a \in Streams /\ a # 0 /\ a \in Nat
BY LimitsAssumption DEF Streams, Assocs

\* bridge' differs from bridge in stream k only, whose sides are now x and y.
Renewed(k, s, x, y) ==
    /\ bridge' \in [Streams -> [Sides -> Bridges]]
    /\ bridge'[k][s] = x /\ bridge'[k][Other(s)] = y
    /\ \A j \in Streams : j # k => bridge'[j] = bridge[j]

LEMMA OneSide ==
    ASSUME bridge \in [Streams -> [Sides -> Bridges]], NEW k \in Streams, NEW s \in Sides,
           NEW x \in Bridges, bridge' = [bridge EXCEPT ![k][s] = x]
    PROVE  Renewed(k, s, x, bridge[k][Other(s)])
<1>1. Other(s) \in Sides /\ Other(s) # s
  BY TwoSides, Zenon
<1>2. bridge' \in [Streams -> [Sides -> Bridges]]
  OBVIOUS
<1>3. bridge'[k][s] = x /\ bridge'[k][Other(s)] = bridge[k][Other(s)]
  BY <1>1
<1>4. \A j \in Streams : j # k => bridge'[j] = bridge[j]
  OBVIOUS
<1>5. QED
  BY <1>2, <1>3, <1>4, Zenon DEF Renewed

LEMMA SideAndWire ==
    ASSUME NEW f \in [Streams -> [Sides -> Bridges]], NEW k \in Streams, NEW s \in Sides,
           NEW o \in Sides, o # s, NEW x \in Bridges, NEW d
    PROVE  [f EXCEPT ![k][s] = x, ![k][o].wire = d]
               = [f EXCEPT ![k][s] = x, ![k][o] = [f[k][o] EXCEPT !.wire = d]]
OBVIOUS

LEMMA BothSides ==
    ASSUME bridge \in [Streams -> [Sides -> Bridges]], NEW k \in Streams, NEW s \in Sides,
           NEW x \in Bridges, NEW y \in Bridges,
           bridge' = [bridge EXCEPT ![k][s] = x, ![k][Other(s)] = y]
    PROVE  Renewed(k, s, x, y)
<1>1. Other(s) \in Sides /\ Other(s) # s
  BY TwoSides, Zenon
<1>2. bridge' \in [Streams -> [Sides -> Bridges]]
  BY <1>1
<1>3. bridge'[k][s] = x /\ bridge'[k][Other(s)] = y
  BY <1>1
<1>4. \A j \in Streams : j # k => bridge'[j] = bridge[j]
  OBVIOUS
<1>5. QED
  BY <1>2, <1>3, <1>4, Zenon DEF Renewed

\* A stream is sound after a step that changes neither what is on its way nor
\* what was sent.
LEMMA SoundKept ==
    ASSUME NEW b \in Bridges, NEW c \in Bridges, NEW x \in Bridges, NEW y \in Bridges,
           SoundAt(b, c), x.sent = b.sent, y.wire = c.wire, y.end = "open" => c.end = "open",
           \/ x.writer = b.writer /\ x.cur = b.cur
           \/ x.writer = "done"
           \/ b.writer # "payload" /\ b.writer # "done" /\ x.writer # "payload",
           x.reader = "run" => x.end = "open"
    PROVE  SoundAt(x, y)
<1>1. ASSUME y.end = "open"
      PROVE  Framed(x, y.wire)
  <2>1. Framed(b, c.wire)
    BY <1>1, Zenon DEF SoundAt
  <2>2. Framed(x, c.wire)
    BY <2>1, FramedKept, Zenon
  <2>3. QED
    BY <2>2, Zenon
<1>2. QED
  BY <1>1, Zenon DEF SoundAt

LEMMA SoundOther ==
    ASSUME NEW b, NEW c, NEW x, SoundAt(c, b), x.wire = b.wire,
           x.end = "open" => b.end = "open"
    PROVE  SoundAt(c, x)
BY Zenon DEF SoundAt

LEMMA AllSound ==
    ASSUME StreamInv, NEW k \in Streams, NEW s \in Sides, NEW x, NEW y, Renewed(k, s, x, y),
           SoundAt(x, y), SoundAt(y, x)
    PROVE  \A j \in Streams : Sound(j)'
<1>1. Other(s) \in Sides /\ Other(Other(s)) = s /\ \A t \in Sides : t = s \/ t = Other(s)
  BY TwoSides, Zenon
<1>2. /\ bridge'[k][s] = x /\ bridge'[k][Other(s)] = y
      /\ \A j \in Streams : j # k => bridge'[j] = bridge[j] /\ Sound(j)
  BY Zenon DEF Renewed, StreamInv
<1>3. ASSUME NEW j \in Streams
      PROVE  Sound(j)'
  <2>1. CASE j = k
    BY <1>1, <1>2, <2>1, Zenon DEF Sound
  <2>2. CASE j # k
    BY <1>2, <2>2, Zenon DEF Sound
  <2>3. QED
    BY <2>1, <2>2, Zenon
<1>4. QED
  BY <1>3, Zenon

\* What a step of one stream has to keep.
Keeps(b, x) == (Ready(b) => Ready(x)) /\ (Fresh(b) => Fresh(x))

LEMMA StreamStep ==
    ASSUME StreamInv, NEW k \in Streams, NEW s \in Sides, NEW x, NEW y, Renewed(k, s, x, y),
           SoundAt(x, y), SoundAt(y, x),
           Keeps(bridge[k][s], x), Keeps(bridge[k][Other(s)], y),
           intact', first' = first, replied' \in Nat,
           \A a \in Assocs : Waiting(a)' => Waiting(a)
    PROVE  StreamInv'
<1>1. Other(s) \in Sides /\ Other(Other(s)) = s /\ \A t \in Sides : t = s \/ t = Other(s)
  BY TwoSides, Zenon
<1>2. /\ bridge' \in [Streams -> [Sides -> Bridges]]
      /\ bridge'[k][s] = x /\ bridge'[k][Other(s)] = y
      /\ \A j \in Streams : j # k => bridge'[j] = bridge[j]
  BY Zenon DEF Renewed
<1>3. first' \in BOOLEAN /\ (first' => first) /\ (first => Ready(bridge[0]["local"]))
      /\ (\A j \in Streams : Sound(j))
      /\ \A a \in Assocs : Waiting(a) => \A t \in Sides : Fresh(bridge[a][t])
  BY Zenon DEF StreamInv
<1>4. \A j \in Streams : Sound(j)'
  BY AllSound, Zenon
<1>5. ASSUME NEW a \in Assocs, Waiting(a)', NEW t \in Sides
      PROVE  Fresh(bridge'[a][t])
  <2>1. a \in Streams /\ Fresh(bridge[a][t])
    BY <1>3, <1>5, SomeStreams, Zenon
  <2>2. CASE a = k
    BY <1>1, <1>2, <2>1, <2>2, Zenon DEF Keeps
  <2>3. CASE a # k
    BY <1>2, <2>1, <2>3, Zenon
  <2>4. QED
    BY <2>2, <2>3, Zenon
<1>6. ASSUME first'
      PROVE  Ready(bridge'[0]["local"])
  <2>1. 0 \in Streams /\ "local" \in Sides /\ Ready(bridge[0]["local"])
    BY <1>3, <1>6, SomeStreams, TwoSides, Zenon
  <2>2. CASE k = 0
    BY <1>1, <1>2, <2>1, <2>2, Zenon DEF Keeps
  <2>3. CASE k # 0
    BY <1>2, <2>1, <2>3, Zenon
  <2>4. QED
    BY <2>2, <2>3, Zenon
<1>7. QED
  BY <1>2, <1>3, <1>4, <1>5, <1>6, Zenon DEF StreamInv, Fresh, Ready, Idle

\* The ends of a stream before a step, one by one.
LEMMA EndsOf ==
    ASSUME StreamInv, NEW k \in Streams, NEW s \in Sides
    PROVE  /\ bridge[k][s] \in Bridges /\ bridge[k][Other(s)] \in Bridges
           /\ SoundAt(bridge[k][s], bridge[k][Other(s)])
           /\ SoundAt(bridge[k][Other(s)], bridge[k][s])
<1>1. Other(s) \in Sides /\ Other(Other(s)) = s
  BY TwoSides, Zenon
<1>2. bridge \in [Streams -> [Sides -> Bridges]] /\ Sound(k)
  BY Zenon DEF StreamInv
<1>3. QED
  BY <1>1, <1>2, Zenon DEF Sound

\* An end whose writer, reader or waiter is at work is neither fresh nor ready.
LEMMA Busy ==
    ASSUME NEW b, NEW x, b.writer # "off" \/ b.reader # "off" \/ b.waiter # "off"
    PROVE  Keeps(b, x)
BY Zenon DEF Keeps, Ready, Fresh, Idle

LEMMA QueueStep ==
    ASSUME StreamInv, NEW k \in Streams, NEW s \in Sides, NEW q \in Seq(Packets),
           bridge' = [bridge EXCEPT ![k][s].queue = q],
           intact' = intact, first' = first, replied' \in Nat,
           \A a \in Assocs : Waiting(a)' => Waiting(a)
    PROVE  StreamInv'
<1>1. bridge \in [Streams -> [Sides -> Bridges]] /\ intact'
  BY Zenon DEF StreamInv
<1>2. PICK b \in Bridges, c \in Bridges : /\ b = bridge[k][s] /\ c = bridge[k][Other(s)]
                                          /\ SoundAt(b, c) /\ SoundAt(c, b)
  BY EndsOf, Zenon
<1>3. PICK x \in Bridges :
         /\ x = [b EXCEPT !.queue = q]
         /\ x.cur = b.cur /\ x.writer = b.writer /\ x.reader = b.reader /\ x.waiter = b.waiter
         /\ x.end = b.end /\ x.wire = b.wire /\ x.sent = b.sent
  <2>1. PICK x : x = [b EXCEPT !.queue = q]
    BY Zenon
  <2>2. x \in Bridges
    BY <2>1, Zenon DEF Bridges
  <2>3. /\ x.cur = b.cur /\ x.writer = b.writer /\ x.reader = b.reader
        /\ x.waiter = b.waiter /\ x.end = b.end /\ x.wire = b.wire /\ x.sent = b.sent
    BY <2>1 DEF Bridges
  <2>4. QED
    BY <2>1, <2>2, <2>3, Zenon
<1>4. bridge' = [bridge EXCEPT ![k][s] = x]
  BY <1>1, <1>2, <1>3
<1>5. Renewed(k, s, x, c)
  BY <1>1, <1>2, <1>4, OneSide, Zenon
<1>6. SoundAt(x, c) /\ SoundAt(c, x)
  <2>1. x.reader = "run" => x.end = "open"
    BY <1>2, <1>3, Zenon DEF SoundAt
  <2>2. SoundAt(x, c)
    BY <1>2, <1>3, <2>1, SoundKept, ZenonT(30)
  <2>3. QED
    BY <1>2, <1>3, <2>2, SoundOther, ZenonT(30)
<1>7. Keeps(b, x) /\ Keeps(c, c)
  BY <1>3, Zenon DEF Keeps, Ready, Fresh, Idle
<1>8. QED
  BY <1>1, <1>2, <1>5, <1>6, <1>7, StreamStep, Zenon

\* A goroutine of a bridge reports to errorsCh and ends.
Stops(b, x) ==
    /\ x.wire = b.wire /\ x.sent = b.sent /\ x.end = b.end
    /\ \/ b.writer # "off" /\ x.writer = "done" /\ x.reader = b.reader
       \/ b.reader = "run" /\ x.reader = "done" /\ x.writer = b.writer /\ x.cur = b.cur

LEMMA GoroutineEnds ==
    ASSUME StreamInv, NEW k \in Streams, NEW s \in Sides, NEW x \in Bridges,
           bridge' = [bridge EXCEPT ![k][s] = x],
           Stops(bridge[k][s], x),
           UNCHANGED <<assoc, first, intact, replied>>
    PROVE  StreamInv'
<1>1. bridge \in [Streams -> [Sides -> Bridges]] /\ intact' /\ first' = first /\ replied' \in Nat
      /\ \A a \in Assocs : Waiting(a)' => Waiting(a)
  BY Zenon DEF StreamInv, Waiting
<1>2. PICK b \in Bridges, c \in Bridges : /\ b = bridge[k][s] /\ c = bridge[k][Other(s)]
                                          /\ SoundAt(b, c) /\ SoundAt(c, b)
  BY EndsOf, Zenon
<1>3. Renewed(k, s, x, c)
  BY <1>1, <1>2, OneSide, Zenon
<1>4. /\ x.wire = b.wire /\ x.sent = b.sent /\ x.end = b.end
      /\ \/ b.writer # "off" /\ x.writer = "done" /\ x.reader = b.reader
         \/ b.reader = "run" /\ x.reader = "done" /\ x.writer = b.writer /\ x.cur = b.cur
  BY <1>2, Zenon DEF Stops
<1>5. /\ x.writer = "done" \/ (x.writer = b.writer /\ x.cur = b.cur)
      /\ x.reader = "run" => b.reader = "run"
      /\ b.writer # "off" \/ b.reader # "off" \/ b.waiter # "off"
  <2>1. CASE b.writer # "off" /\ x.writer = "done" /\ x.reader = b.reader
    BY <2>1
  <2>2. CASE b.reader = "run" /\ x.reader = "done" /\ x.writer = b.writer /\ x.cur = b.cur
    BY <2>2
  <2>3. QED
    BY <1>4, <2>1, <2>2, Zenon
<1>6. x.reader = "run" => x.end = "open"
  BY <1>2, <1>4, <1>5, Zenon DEF SoundAt
<1>7. SoundAt(x, c)
  BY <1>2, <1>4, <1>5, <1>6, SoundKept, Zenon
<1>8. SoundAt(c, x)
  BY <1>2, <1>4, SoundOther, Zenon
<1>9. Keeps(b, x) /\ Keeps(c, c)
  BY <1>5, Busy, Zenon DEF Keeps
<1>10. QED
  BY <1>1, <1>2, <1>3, <1>7, <1>8, <1>9, StreamStep, Zenon

LEMMA HeaderIsSeq ==
    ASSUME NEW p \in Packets
    PROVE  Header(p) \in Seq(Cells)
<1>1. PICK h \in Cells : Header(p) = <<h>>
  BY Zenon DEF Header, Packets, Cells
<1>2. QED
  BY <1>1

LEMMA WriteHeaderStep ==
    ASSUME StreamInv, NEW k \in Streams, NEW s \in Sides, WriteHeader(k, s)
    PROVE  StreamInv'
<1>1. bridge \in [Streams -> [Sides -> Bridges]] /\ intact' /\ first' = first /\ replied' \in Nat
      /\ \A a \in Assocs : Waiting(a)' => Waiting(a)
  BY Zenon DEF StreamInv, WriteHeader, Waiting
<1>2. PICK b \in Bridges, c \in Bridges : /\ b = bridge[k][s] /\ c = bridge[k][Other(s)]
                                          /\ SoundAt(b, c) /\ SoundAt(c, b)
  BY EndsOf, Zenon
<1>3. b.writer = "run" /\ b.queue # <<>> /\ b.end = "open"
  BY <1>2, Zenon DEF WriteHeader
<1>4. PICK p \in Packets : /\ p = Head(b.queue) /\ p.len \in Nat
                           /\ Tail(b.queue) \in Seq(Packets)
  <2>1. b.queue \in Seq(Packets)
    BY DEF Bridges
  <2>2. Head(b.queue) \in Packets /\ Tail(b.queue) \in Seq(Packets)
    BY <1>3, <2>1
  <2>3. \A p \in Packets : p.len \in Nat
    BY DEF Packets
  <2>4. QED
    BY <2>2, <2>3, Zenon
<1>5. PICK h : h = Header(p) /\ h \in Seq(Cells)
  BY HeaderIsSeq, Zenon
<1>6. PICK d : d = Delivery(k, s, Header(p))
  BY Zenon
<1>7. d = (IF c.end = "open" THEN c.wire \o h ELSE <<>>)
  BY <1>2, <1>5, <1>6, Zenon DEF Delivery
<1>8. c.wire \in Seq(Cells) /\ d \in Seq(Cells)
  <2>1. c.wire \in Seq(Cells)
    BY DEF Bridges
  <2>2. QED
    BY <1>5, <1>7, <2>1
<1>9. PICK x : x = [b EXCEPT !.queue = Tail(@), !.sent = Append(@, p),
                             !.cur = IF p.len = 0 THEN NoPacket ELSE p,
                             !.writer = IF p.len = 0 THEN "run" ELSE "payload"]
  OBVIOUS
<1>10. PICK y : y = [c EXCEPT !.wire = d]
  BY Zenon
<1>11. /\ x \in Bridges /\ x.sent = Append(b.sent, p) /\ x.reader = b.reader
       /\ x.end = b.end /\ x.wire = b.wire
       /\ p.len = 0 => x.writer = "run"
       /\ p.len # 0 => x.writer = "payload" /\ x.cur = p
  <2>1. NoPacket \in Packets
    BY DEF NoPacket, Packets
  <2>2. b.sent \in Seq(Packets) /\ Append(b.sent, p) \in Seq(Packets)
    BY DEF Bridges
  <2>3. x \in Bridges
    BY <1>4, <1>9, <2>1, <2>2, Zenon DEF Bridges
  <2>4. x.sent = Append(b.sent, p) /\ x.reader = b.reader /\ x.end = b.end /\ x.wire = b.wire
    BY <1>9 DEF Bridges
  <2>5. (p.len = 0 => x.writer = "run") /\ (p.len # 0 => x.writer = "payload" /\ x.cur = p)
    BY <1>9 DEF Bridges
  <2>6. QED
    BY <2>3, <2>4, <2>5, Zenon
<1>12. /\ y \in Bridges /\ y.wire = d /\ y.sent = c.sent /\ y.cur = c.cur
       /\ y.writer = c.writer /\ y.reader = c.reader /\ y.waiter = c.waiter /\ y.end = c.end
  BY <1>8, <1>10, Zenon DEF Bridges
<1>13. bridge' = [bridge EXCEPT ![k][s] = x, ![k][Other(s)] = y]
  <2>1. bridge' = [bridge EXCEPT ![k][s] = x, ![k][Other(s)].wire = d]
    BY <1>2, <1>4, <1>6, <1>9, Zenon DEF WriteHeader
  <2>2. Other(s) \in Sides /\ Other(s) # s
    BY TwoSides, Zenon
  <2>3. y = [bridge[k][Other(s)] EXCEPT !.wire = d]
    BY <1>2, <1>10, Zenon
  <2>4. [bridge EXCEPT ![k][s] = x, ![k][Other(s)].wire = d]
           = [bridge EXCEPT ![k][s] = x,
                            ![k][Other(s)] = [bridge[k][Other(s)] EXCEPT !.wire = d]]
    BY <1>1, <1>11, <2>2, SideAndWire
  <2>5. QED
    BY <2>1, <2>3, <2>4, Zenon
<1>14. Renewed(k, s, x, y)
  BY <1>1, <1>11, <1>12, <1>13, BothSides, Zenon
<1>15. SoundAt(x, y)
  <2>1. ASSUME y.end = "open"
        PROVE  Framed(x, y.wire)
    <3>1. c.end = "open" /\ y.wire = c.wire \o Header(p) /\ Framed(b, c.wire)
      BY <1>2, <1>5, <1>7, <1>12, <2>1, Zenon DEF SoundAt
    <3>2. QED
      BY <1>3, <1>8, <1>11, <3>1, FramedHeader, Zenon
  <2>2. QED
    BY <1>3, <1>11, <2>1, Zenon DEF SoundAt
<1>16. SoundAt(y, x)
  <2>1. SoundAt(c, x)
    BY <1>2, <1>11, SoundOther, Zenon
  <2>2. y.reader = "run" => y.end = "open"
    BY <1>2, <1>12, Zenon DEF SoundAt
  <2>3. QED
    BY <1>11, <1>12, <2>1, <2>2, SoundKept, Zenon
<1>17. Keeps(b, x) /\ Keeps(c, y)
  <2>1. b.writer # "off"
    BY <1>3
  <2>2. c.end = "none" => d = <<>>
    BY <1>7
  <2>3. QED
    BY <1>12, <2>1, <2>2, Busy, Zenon DEF Keeps, Ready, Fresh, Idle
<1>18. QED
  BY <1>1, <1>2, <1>14, <1>15, <1>16, <1>17, StreamStep, Zenon

LEMMA WritePayloadStep ==
    ASSUME StreamInv, NEW k \in Streams, NEW s \in Sides, WritePayload(k, s)
    PROVE  StreamInv'
<1>1. bridge \in [Streams -> [Sides -> Bridges]] /\ intact' /\ first' = first /\ replied' \in Nat
      /\ \A a \in Assocs : Waiting(a)' => Waiting(a)
  BY Zenon DEF StreamInv, WritePayload, Waiting
<1>2. PICK b \in Bridges, c \in Bridges : /\ b = bridge[k][s] /\ c = bridge[k][Other(s)]
                                          /\ SoundAt(b, c) /\ SoundAt(c, b)
  BY EndsOf, Zenon
<1>3. b.writer = "payload" /\ b.end = "open"
  BY <1>2, Zenon DEF WritePayload
<1>4. PICK h, d : h = Payload(b.cur) /\ h \in Seq(Cells) /\ d = Delivery(k, s, Payload(b.cur))
  <2>1. b.cur \in Packets
    BY DEF Bridges
  <2>2. QED
    BY <2>1, PayloadIsSeq, Zenon
<1>5. d = (IF c.end = "open" THEN c.wire \o h ELSE <<>>)
  BY <1>2, <1>4, Zenon DEF Delivery
<1>6. c.wire \in Seq(Cells) /\ d \in Seq(Cells)
  <2>1. c.wire \in Seq(Cells)
    BY DEF Bridges
  <2>2. QED
    BY <1>4, <1>5, <2>1
<1>7. PICK x : x = [b EXCEPT !.writer = "run", !.cur = NoPacket]
  OBVIOUS
<1>8. PICK y : y = [c EXCEPT !.wire = d]
  BY Zenon
<1>9. /\ x \in Bridges /\ x.sent = b.sent /\ x.reader = b.reader /\ x.end = b.end
       /\ x.wire = b.wire /\ x.writer = "run"
  <2>1. NoPacket \in Packets
    BY DEF NoPacket, Packets
  <2>2. x \in Bridges
    BY <1>7, <2>1, Zenon DEF Bridges
  <2>3. QED
    BY <1>7, <2>2 DEF Bridges
<1>10. /\ y \in Bridges /\ y.wire = d /\ y.sent = c.sent /\ y.cur = c.cur
       /\ y.writer = c.writer /\ y.reader = c.reader /\ y.waiter = c.waiter /\ y.end = c.end
  BY <1>6, <1>8, Zenon DEF Bridges
<1>11. bridge' = [bridge EXCEPT ![k][s] = x, ![k][Other(s)] = y]
  <2>1. Other(s) \in Sides /\ Other(s) # s
    BY TwoSides, Zenon
  <2>2. bridge' = [bridge EXCEPT ![k][s].writer = "run", ![k][s].cur = NoPacket,
                                 ![k][Other(s)].wire = d]
    BY <1>2, <1>4, Zenon DEF WritePayload
  <2>3. QED
    BY <1>1, <1>2, <1>7, <1>8, <2>1, <2>2, ZenonT(30)
<1>12. Renewed(k, s, x, y)
  BY <1>1, <1>9, <1>10, <1>11, BothSides, Zenon
<1>13. SoundAt(x, y)
  <2>1. ASSUME y.end = "open"
        PROVE  Framed(x, y.wire)
    <3>1. c.end = "open" /\ y.wire = c.wire \o Payload(b.cur) /\ Framed(b, c.wire)
      BY <1>2, <1>4, <1>5, <1>10, <2>1, Zenon DEF SoundAt
    <3>2. QED
      BY <1>3, <1>6, <1>9, <3>1, FramedPayload, Zenon
  <2>2. QED
    BY <1>3, <1>9, <2>1, Zenon DEF SoundAt
<1>14. SoundAt(y, x)
  <2>1. SoundAt(c, x)
    BY <1>2, <1>9, SoundOther, Zenon
  <2>2. y.reader = "run" => y.end = "open"
    BY <1>2, <1>10, Zenon DEF SoundAt
  <2>3. QED
    BY <1>9, <1>10, <2>1, <2>2, SoundKept, Zenon
<1>15. Keeps(b, x) /\ Keeps(c, y)
  <2>1. b.writer # "off"
    BY <1>3
  <2>2. c.end = "none" => d = <<>>
    BY <1>5
  <2>3. QED
    BY <1>10, <2>1, <2>2, Busy, Zenon DEF Keeps, Ready, Fresh, Idle
<1>16. QED
  BY <1>1, <1>2, <1>12, <1>13, <1>14, <1>15, StreamStep, Zenon

\* The writer or the reader of a bridge reports r and ends.
LEMMA WriterEnds ==
    ASSUME StreamInv, NEW k \in Streams, NEW s \in Sides, NEW r \in {"eof", "error"},
           bridge[k][s].writer # "off",
           bridge' = [bridge EXCEPT ![k][s].writer = "done", ![k][s].errorsCh = Append(@, r)],
           UNCHANGED <<assoc, first, intact, replied>>
    PROVE  StreamInv'
<1>1. bridge \in [Streams -> [Sides -> Bridges]] /\ bridge[k][s] \in Bridges
  BY EndsOf, Zenon DEF StreamInv
<1>2. PICK b \in Bridges : b = bridge[k][s]
  BY <1>1, Zenon
<1>3. PICK x : x = [b EXCEPT !.writer = "done", !.errorsCh = Append(@, r)]
  BY Zenon
<1>4. bridge' = [bridge EXCEPT ![k][s] = x]
  BY <1>1, <1>2, <1>3, Zenon
<1>5. x \in Bridges
  <2>1. PICK R : R = {"eof", "error"} /\ r \in R /\ b.errorsCh \in Seq(R)
    BY SMTT(30) DEF Bridges
  <2>2. Append(b.errorsCh, r) \in Seq(R)
    BY <2>1
  <2>3. PICK q \in Seq({"eof", "error"}) : q = Append(b.errorsCh, r)
    BY <2>1, <2>2, Zenon
  <2>4. x = [b EXCEPT !.writer = "done", !.errorsCh = q]
    BY <1>3, <2>3, SMTT(30)
  <2>5. QED
    BY <2>3, <2>4, Zenon DEF Bridges
<1>6. x.wire = b.wire /\ x.sent = b.sent /\ x.end = b.end /\ x.writer = "done"
      /\ x.reader = b.reader
  BY <1>3, SMTT(30) DEF Bridges
<1>7. Stops(bridge[k][s], x)
  BY <1>2, <1>6, Zenon DEF Stops
<1>8. QED
  BY <1>4, <1>5, <1>7, GoroutineEnds, Zenon

LEMMA ReaderEnds ==
    ASSUME StreamInv, NEW k \in Streams, NEW s \in Sides, NEW r \in {"eof", "error"},
           bridge[k][s].reader = "run",
           bridge' = [bridge EXCEPT ![k][s].reader = "done", ![k][s].errorsCh = Append(@, r)],
           UNCHANGED <<assoc, first, intact, replied>>
    PROVE  StreamInv'
<1>1. bridge \in [Streams -> [Sides -> Bridges]] /\ bridge[k][s] \in Bridges
  BY EndsOf, Zenon DEF StreamInv
<1>2. PICK b \in Bridges : b = bridge[k][s]
  BY <1>1, Zenon
<1>3. PICK x : x = [b EXCEPT !.reader = "done", !.errorsCh = Append(@, r)]
  BY Zenon
<1>4. bridge' = [bridge EXCEPT ![k][s] = x]
  BY <1>1, <1>2, <1>3, Zenon
<1>5. x \in Bridges
  <2>1. PICK R : R = {"eof", "error"} /\ r \in R /\ b.errorsCh \in Seq(R)
    BY SMTT(30) DEF Bridges
  <2>2. Append(b.errorsCh, r) \in Seq(R)
    BY <2>1
  <2>3. PICK q \in Seq({"eof", "error"}) : q = Append(b.errorsCh, r)
    BY <2>1, <2>2, Zenon
  <2>4. x = [b EXCEPT !.reader = "done", !.errorsCh = q]
    BY <1>3, <2>3, SMTT(30)
  <2>5. QED
    BY <2>3, <2>4, Zenon DEF Bridges
<1>6. x.wire = b.wire /\ x.sent = b.sent /\ x.end = b.end /\ x.reader = "done"
      /\ x.writer = b.writer /\ x.cur = b.cur
  BY <1>3, SMTT(30) DEF Bridges
<1>7. Stops(bridge[k][s], x)
  BY <1>2, <1>6, Zenon DEF Stops
<1>8. QED
  BY <1>4, <1>5, <1>7, GoroutineEnds, Zenon

LEMMA WriteFailsStep ==
    ASSUME StreamInv, NEW k \in Streams, NEW s \in Sides, WriteFails(k, s)
    PROVE  StreamInv'
<1>1. bridge[k][s].writer \in {"payload", "run"}
  BY Zenon DEF WriteFails
<1>2. bridge[k][s].writer # "off" /\ "error" \in {"eof", "error"}
  BY <1>1
<1>3. QED
  BY <1>2, WriterEnds, Zenon DEF WriteFails

LEMMA WriterStopsStep ==
    ASSUME StreamInv, NEW k \in Streams, WriterStops(k)
    PROVE  StreamInv'
<1>1. bridge[k]["local"].writer = "run" /\ "local" \in Sides
  BY TwoSides, Zenon DEF WriterStops
<1>2. bridge[k]["local"].writer # "off" /\ "error" \in {"eof", "error"}
  BY <1>1
<1>3. QED
  BY <1>1, <1>2, WriterEnds, Zenon DEF WriterStops

LEMMA PacketRefusedStep ==
    ASSUME StreamInv, NEW k \in Streams, NEW s \in Sides, PacketRefused(k, s)
    PROVE  StreamInv'
<1>1. (IF s = "local" THEN "eof" ELSE "error") \in {"eof", "error"}
  BY Zenon
<1>2. QED
  BY <1>1, ReaderEnds, Zenon DEF PacketRefused

LEMMA ReadEndsStep ==
    ASSUME StreamInv, NEW k \in Streams, NEW s \in Sides, ReadEnds(k, s)
    PROVE  StreamInv'
<1>1. (IF bridge[k][Other(s)].end = "closed" THEN "eof" ELSE "error") \in {"eof", "error"}
  BY Zenon
<1>2. QED
  BY <1>1, ReaderEnds, Zenon DEF ReadEnds

LEMMA ReadPacketStep ==
    ASSUME StreamInv, NEW k \in Streams, NEW s \in Sides, ReadPacket(k, s)
    PROVE  StreamInv'
<1>1. bridge \in [Streams -> [Sides -> Bridges]] /\ intact /\ first' = first /\ replied' \in Nat
      /\ \A a \in Assocs : Waiting(a)' => Waiting(a)
  BY Zenon DEF StreamInv, ReadPacket, Waiting
<1>2. PICK b \in Bridges, c \in Bridges : /\ b = bridge[k][s] /\ c = bridge[k][Other(s)]
                                          /\ SoundAt(b, c) /\ SoundAt(c, b)
  BY EndsOf, Zenon
<1>3. b.reader = "run" /\ b.end = "open" /\ Framed(c, b.wire) /\ b.wire # <<>>
      /\ Len(b.wire) > Head(b.wire).len
  BY <1>2, Zenon DEF ReadPacket, Complete, HeaderLen, SoundAt
<1>4. PICK w \in Seq(Cells), q \in Seq(Packets) : w = b.wire /\ q = c.sent
  BY SMTT(30) DEF Bridges
<1>5. PICK n : n = Head(w).len
  BY Zenon
<1>6. PICK v, x, y : /\ v = SubSeq(w, n + 2, Len(w)) /\ x = [b EXCEPT !.wire = v]
                     /\ y = [c EXCEPT !.sent = Tail(q)]
  BY Zenon
<1>7. y.sent = Tail(q) /\ y.writer = c.writer /\ y.cur = c.cur /\ y.wire = c.wire
      /\ y.end = c.end /\ y.reader = c.reader /\ y.waiter = c.waiter
  BY <1>6 DEF Bridges
<1>8. /\ q # <<>> /\ n \in Nat /\ Head(w) = Header(Head(q))[1]
      /\ SubSeq(w, 2, n + 1) = Payload(Head(q)) /\ Framed(y, v)
  <2>1. Framed(c, w) /\ w # <<>> /\ Len(w) > n /\ y.sent = Tail(c.sent)
    BY <1>3, <1>4, <1>5, <1>7, Zenon
  <2>2. n = Head(w).len /\ y.writer = c.writer /\ y.cur = c.cur
    BY <1>5, <1>7, Zenon
  <2>3. /\ c.sent # <<>> /\ n \in Nat /\ Head(w) = Header(Head(c.sent))[1]
        /\ SubSeq(w, 2, n + 1) = Payload(Head(c.sent))
        /\ Framed(y, SubSeq(w, n + 2, Len(w)))
    BY <2>1, <2>2, FramedRead, SMTT(30)
  <2>4. QED
    BY <1>4, <1>6, <2>3, Zenon
<1>9. y \in Bridges
  <2>1. Tail(q) \in Seq(Packets)
    BY <1>8, SMTT(30)
  <2>2. QED
    BY <1>6, <2>1, Zenon DEF Bridges
<1>10. v \in Seq(Cells)
  <2>1. Len(w) \in Nat /\ Len(w) > n
    BY <1>3, <1>4, <1>5
  <2>2. PICK e \in Nat : Len(w) = e + (n + 1)
    <3>1. Len(w) - (n + 1) \in Nat /\ Len(w) = (Len(w) - (n + 1)) + (n + 1)
      BY <1>8, <2>1, SMTT(30)
    <3>2. QED
      BY <3>1, Zenon
  <2>3. QED
    BY <1>6, <1>8, <2>2, CutRest, SMTT(30)
<1>11. /\ x \in Bridges /\ x.wire = v /\ x.sent = b.sent /\ x.cur = b.cur
       /\ x.writer = b.writer /\ x.reader = b.reader /\ x.waiter = b.waiter /\ x.end = b.end
  BY <1>6, <1>10, Zenon DEF Bridges
<1>12. intact'
  BY <1>1, <1>2, <1>4, <1>5, <1>8, Zenon DEF ReadPacket, HeaderLen
<1>13. bridge' = [bridge EXCEPT ![k][s] = x, ![k][Other(s)] = y]
  <2>1. Other(s) \in Sides /\ Other(s) # s
    BY TwoSides, Zenon
  <2>2. bridge' = [bridge EXCEPT ![k][s].wire = SubSeq(@, n + 2, Len(@)),
                                 ![k][Other(s)].sent = IF @ = <<>> THEN @ ELSE Tail(@)]
    BY <1>2, <1>4, <1>5, Zenon DEF ReadPacket, HeaderLen
  <2>3. QED
    BY <1>1, <1>2, <1>4, <1>6, <1>8, <2>1, <2>2, ZenonT(30)
<1>14. Renewed(k, s, x, y)
  BY <1>1, <1>9, <1>11, <1>13, BothSides, Zenon
<1>15. SoundAt(x, y)
  <2>1. SoundAt(b, y)
    BY <1>2, <1>7, SoundOther, Zenon
  <2>2. x.reader = "run" => x.end = "open"
    BY <1>3, <1>11, Zenon
  <2>3. QED
    BY <1>9, <1>11, <2>1, <2>2, SoundKept, Zenon
<1>16. SoundAt(y, x)
  <2>1. y.reader = "run" => y.end = "open"
    BY <1>2, <1>7, Zenon DEF SoundAt
  <2>2. QED
    BY <1>8, <1>11, <2>1, Zenon DEF SoundAt
<1>17. Keeps(b, x) /\ Keeps(c, y)
  <2>1. b.reader # "off"
    BY <1>3
  <2>2. c.sent # <<>>
    BY <1>4, <1>8, Zenon
  <2>3. QED
    BY <1>7, <2>1, <2>2, Busy, Zenon DEF Keeps, Ready, Fresh, Idle
<1>18. QED
  BY <1>1, <1>2, <1>12, <1>14, <1>15, <1>16, <1>17, StreamStep, Zenon

LEMMA ReturnStep ==
    ASSUME StreamInv, assoc \in [Assocs -> Associations],
           NEW k \in Streams, NEW s \in Sides, NEW e \in {"closed", "reset"}, Return(k, s, e)
    PROVE  StreamInv'
<1>1. bridge \in [Streams -> [Sides -> Bridges]] /\ intact' /\ first' = first /\ replied' \in Nat
  BY Zenon DEF StreamInv, Return
<1>2. PICK b \in Bridges, c \in Bridges : /\ b = bridge[k][s] /\ c = bridge[k][Other(s)]
                                          /\ SoundAt(b, c) /\ SoundAt(c, b)
  BY EndsOf, Zenon
<1>3. b.waiter = "run"
  BY <1>2, Zenon DEF Return
<1>4. \A a \in Assocs : Waiting(a)' => Waiting(a)
  <2> SUFFICES ASSUME NEW a \in Assocs, Waiting(a)'
               PROVE  Waiting(a)
    BY Zenon
  <2>1. assoc'[a] = IF s = "local" /\ Owner(k, a)
                    THEN [assoc[a] EXCEPT !.pc = "forget"] ELSE assoc[a]
    BY Zenon DEF Return
  <2>2. assoc[a] \in Associations
    BY Zenon
  <2>3. [assoc[a] EXCEPT !.pc = "forget"].pc = "forget"
    BY <2>2 DEF Associations
  <2>4. assoc'[a].pc \in {"none", "open"}
    BY Zenon DEF Waiting
  <2>5. assoc'[a] # [assoc[a] EXCEPT !.pc = "forget"]
    BY <2>3, <2>4, Zenon
  <2>6. QED
    BY <2>1, <2>4, <2>5, Zenon DEF Waiting
<1>5. PICK x, y : /\ x = [Bridge("done", e) EXCEPT !.sent = b.sent]
                  /\ y = [c EXCEPT !.sent = <<>>]
  BY Zenon
<1>6. b.sent \in Seq(Packets) /\ <<>> \in Seq(Packets)
  BY DEF Bridges
<1>7. /\ x \in Bridges /\ x.sent = b.sent /\ x.writer = "done" /\ x.reader = "done" /\ x.end = e
      /\ x.wire = <<>>
  <2>1. x = [queue |-> <<>>, cur |-> NoPacket, writer |-> "done", reader |-> "done",
             waiter |-> "done", errorsCh |-> <<>>, end |-> e, wire |-> <<>>, sent |-> b.sent]
    BY <1>5 DEF Bridge
  <2>2. NoPacket \in Packets
    BY DEF NoPacket, Packets
  <2>3. <<>> \in Seq(Cells) /\ <<>> \in Seq({"eof", "error"})
    OBVIOUS
  <2>4. x \in Bridges
    BY <1>6, <2>1, <2>2, <2>3, SMTT(30) DEF Bridges
  <2>5. QED
    BY <2>1, <2>4
<1>8. /\ y \in Bridges /\ y.sent = <<>> /\ y.writer = c.writer /\ y.cur = c.cur /\ y.wire = c.wire
      /\ y.end = c.end /\ y.reader = c.reader /\ y.waiter = c.waiter
  BY <1>5, <1>6, Zenon DEF Bridges
<1>9. bridge' = [bridge EXCEPT ![k][s] = x, ![k][Other(s)] = y]
  <2>1. Other(s) \in Sides /\ Other(s) # s
    BY TwoSides, Zenon
  <2>2. bridge' = [bridge EXCEPT ![k][s] = x, ![k][Other(s)].sent = <<>>]
    BY <1>2, <1>5, Zenon DEF Return
  <2>3. QED
    BY <1>1, <1>2, <1>5, <2>1, <2>2, SMTT(30)
<1>10. Renewed(k, s, x, y)
  BY <1>1, <1>7, <1>8, <1>9, BothSides, Zenon
<1>11. x.end # "open" /\ x.reader # "run" /\ b.waiter # "off"
  BY <1>3, <1>7
<1>12. SoundAt(x, y)
  <2>1. SoundAt(b, y)
    BY <1>2, <1>8, SoundOther, Zenon
  <2>2. QED
    BY <1>7, <1>8, <1>11, <2>1, SoundKept, Zenon
<1>13. SoundAt(y, x)
  BY <1>2, <1>8, <1>11, Zenon DEF SoundAt
<1>14. Keeps(b, x) /\ Keeps(c, y)
  BY <1>8, <1>11, Busy, Zenon DEF Keeps, Ready, Fresh, Idle
<1>15. QED
  BY <1>1, <1>2, <1>4, <1>10, <1>12, <1>13, <1>14, StreamStep, Zenon

\* The stream opened in advance is taken or closed, or a stream is dialled.
LEMMA TakenStep ==
    ASSUME StreamInv, bridge' \in [Streams -> [Sides -> Bridges]],
           \A j \in Streams : Sound(j)', first' = FALSE, intact' = intact, replied' = replied,
           \A a \in Assocs : Waiting(a)' => Waiting(a) /\ bridge'[a] = bridge[a]
    PROVE  StreamInv'
<1>1. first' \in BOOLEAN /\ ~first' /\ intact' /\ replied' \in Nat
  BY Zenon DEF StreamInv
<1>2. ASSUME NEW a \in Assocs, Waiting(a)', NEW s \in Sides
      PROVE  Fresh(bridge'[a][s])
  BY <1>2, Zenon DEF StreamInv
<1>3. QED
  BY <1>1, <1>2, Zenon DEF StreamInv, Fresh, Idle

LEMMA OpenerClosesStep ==
    ASSUME StreamInv, OpenerCloses
    PROVE  StreamInv'
<1>1. /\ bridge \in [Streams -> [Sides -> Bridges]] /\ Ready(bridge[0]["local"])
      /\ first' = FALSE /\ intact' = intact /\ replied' = replied
      /\ \A a \in Assocs : Waiting(a)' => Waiting(a)
  BY Zenon DEF StreamInv, OpenerCloses, Waiting
<1>2. 0 \in Streams /\ "local" \in Sides
  BY SomeStreams, TwoSides, Zenon
<1>3. PICK b \in Bridges, c \in Bridges :
         /\ b = bridge[0]["local"] /\ c = bridge[0][Other("local")]
         /\ SoundAt(b, c) /\ SoundAt(c, b)
  BY <1>2, EndsOf, Zenon
<1>4. PICK x : x = [b EXCEPT !.end = "closed"]
  BY Zenon
<1>5. /\ x \in Bridges /\ x.end = "closed" /\ x.reader = b.reader /\ x.sent = b.sent
      /\ x.writer = b.writer /\ x.cur = b.cur
  BY <1>4, Zenon DEF Bridges
<1>6. bridge' = [bridge EXCEPT ![0]["local"] = x]
  BY <1>1, <1>2, <1>3, <1>4 DEF OpenerCloses
<1>7. Renewed(0, "local", x, c)
  BY <1>1, <1>2, <1>3, <1>5, <1>6, OneSide, Zenon
<1>8. x.end # "open" /\ x.reader # "run"
  <2>1. b.reader = "off"
    BY <1>1, <1>3, Zenon DEF Ready, Idle
  <2>2. QED
    BY <1>5, <2>1
<1>9. SoundAt(x, c) /\ SoundAt(c, x)
  <2>1. SoundAt(x, c)
    <3>1. Framed(b, c.wire) => Framed(x, c.wire)
      BY <1>5, FramedKept, Zenon
    <3>2. QED
      BY <1>3, <1>8, <3>1, Zenon DEF SoundAt
  <2>2. QED
    BY <1>3, <1>8, <2>1, Zenon DEF SoundAt
<1>10. \A j \in Streams : Sound(j)'
  BY <1>2, <1>7, <1>9, AllSound, Zenon
<1>11. \A a \in Assocs : bridge'[a] = bridge[a]
  BY <1>7, SomeStreams, Zenon DEF Renewed
<1>12. bridge' \in [Streams -> [Sides -> Bridges]]
  BY <1>7, Zenon DEF Renewed
<1>13. QED
  BY <1>1, <1>10, <1>11, <1>12, TakenStep, Zenon

LEMMA StartedIs ==
    ASSUME NEW b \in Bridges
    PROVE  /\ Started(b) \in Bridges /\ Started(b).sent = b.sent /\ Started(b).wire = b.wire
           /\ Started(b).end = b.end /\ Started(b).writer = "run"
BY Zenon DEF Started, Bridges

LEMMA OpenDialsStep ==
    ASSUME StreamInv, assoc \in [Assocs -> Associations], NEW a \in Assocs, OpenDials(a)
    PROVE  StreamInv'
<1>1. /\ bridge \in [Streams -> [Sides -> Bridges]] /\ assoc[a].pc = "open" /\ first' = first
      /\ first = FALSE /\ intact' = intact /\ replied' = replied
  BY Zenon DEF StreamInv, OpenDials
<1>2. a \in Streams /\ \A s \in Sides : Other(s) \in Sides
  BY SomeStreams, TwoSides, Zenon
<1>3. ASSUME NEW s \in Sides
      PROVE  /\ bridge[a][s] \in Bridges /\ bridge[a][s].wire = <<>> /\ bridge[a][s].sent = <<>>
  <2>1. Waiting(a)
    BY <1>1, Zenon DEF Waiting
  <2>2. QED
    BY <1>1, <1>2, <2>1, Zenon DEF StreamInv, Fresh
<1>4. PICK new : /\ new = [s \in Sides |-> [Started(bridge[a][s]) EXCEPT !.end = "open"]]
                 /\ bridge' = [bridge EXCEPT ![a] = new]
  BY Zenon DEF OpenDials
<1>5. ASSUME NEW s \in Sides
      PROVE  /\ new[s] \in Bridges /\ new[s].end = "open" /\ new[s].wire = <<>>
             /\ new[s].sent = <<>> /\ new[s].writer = "run"
  <2>1. PICK b \in Bridges : b = Started(bridge[a][s]) /\ b.wire = <<>> /\ b.sent = <<>>
                             /\ b.writer = "run"
    BY <1>3, StartedIs, ZenonT(30)
  <2>2. new[s] = [b EXCEPT !.end = "open"]
    BY <1>4, <2>1, Zenon
  <2>3. QED
    BY <2>1, <2>2, ZenonT(30) DEF Bridges
<1>6. new \in [Sides -> Bridges]
  BY <1>4, <1>5, Zenon
<1>7. /\ bridge' \in [Streams -> [Sides -> Bridges]] /\ bridge'[a] = new
      /\ \A j \in Streams : j # a => bridge'[j] = bridge[j]
  BY <1>1, <1>2, <1>4, <1>6, Zenon
<1>8. ASSUME NEW s \in Sides
      PROVE  SoundAt(new[s], new[Other(s)])
  <2>1. new[s] \in Bridges /\ new[s].sent = <<>> /\ new[s].writer # "payload"
    <3>1. new[s].writer = "run"
      BY <1>5, Zenon
    <3>2. new[s].writer # "payload"
      BY <3>1
    <3>3. QED
      BY <1>5, <3>2, Zenon
  <2>2. Framed(new[s], <<>>)
    BY <2>1, FramedStart, Zenon
  <2>3. new[Other(s)].wire = <<>> /\ new[s].end = "open"
    BY <1>2, <1>5, Zenon
  <2>4. QED
    BY <2>2, <2>3, Zenon DEF SoundAt
<1>9. ASSUME NEW j \in Streams
      PROVE  Sound(j)'
  <2>1. CASE j = a
    BY <1>7, <1>8, <2>1, Zenon DEF Sound
  <2>2. CASE j # a
    BY <1>7, <2>2, Zenon DEF StreamInv, Sound
  <2>3. QED
    BY <2>1, <2>2, Zenon
<1>10. \A d \in Assocs : Waiting(d)' => Waiting(d) /\ bridge'[d] = bridge[d]
  <2>1. ASSUME NEW d \in Assocs, d # a
        PROVE  assoc'[d] = assoc[d] /\ bridge'[d] = bridge[d]
    BY <1>7, <2>1, SomeStreams, Zenon DEF OpenDials
  <2>2. assoc'[a].pc = "bridge"
    BY DEF OpenDials, Associations
  <2>3. ~ Waiting(a)'
    BY <2>2 DEF Waiting
  <2>4. QED
    BY <2>1, <2>3, Zenon DEF Waiting
<1>11. QED
  BY <1>1, <1>7, <1>9, <1>10, TakenStep, Zenon

LEMMA OpenFirstStep ==
    ASSUME StreamInv, assoc \in [Assocs -> Associations], NEW a \in Assocs, OpenFirst(a)
    PROVE  StreamInv'
<1>1. /\ bridge \in [Streams -> [Sides -> Bridges]] /\ Ready(bridge[0]["local"])
      /\ first' = FALSE /\ intact' = intact /\ replied' = replied
  BY Zenon DEF StreamInv, OpenFirst
<1>2. a \in Streams /\ 0 \in Streams /\ a # 0 /\ "local" \in Sides /\ "remote" \in Sides
      /\ Other("local") = "remote" /\ Other("remote") = "local"
      /\ \A s \in Sides : s = "local" \/ s = "remote"
  BY SomeStreams, TwoSides, Zenon
<1>3. PICK b \in Bridges, c \in Bridges :
         /\ b = bridge[0]["local"] /\ c = bridge[0]["remote"]
         /\ SoundAt(b, c) /\ SoundAt(c, b)
  BY <1>2, EndsOf, Zenon
<1>4. PICK f \in Bridges, g \in Bridges :
         /\ f = bridge[a]["local"] /\ g = bridge[a]["remote"]
         /\ SoundAt(f, g) /\ SoundAt(g, f)
  BY <1>2, EndsOf, Zenon
<1>5. PICK x, y : /\ x = [Started(b) EXCEPT !.queue = f.queue] /\ y = [f EXCEPT !.queue = <<>>]
                  /\ bridge' = [bridge EXCEPT ![0]["local"] = x, ![a]["local"].queue = <<>>]
  BY <1>3, <1>4, Zenon DEF OpenFirst
<1>6. /\ x \in Bridges /\ x.sent = b.sent /\ x.wire = b.wire /\ x.end = b.end /\ x.writer = "run"
  <2>1. PICK h \in Bridges : h = Started(b) /\ h.sent = b.sent /\ h.wire = b.wire
                             /\ h.end = b.end /\ h.writer = "run"
    BY StartedIs, Zenon
  <2>2. x = [h EXCEPT !.queue = f.queue] /\ f.queue \in Seq(Packets)
    BY <1>5, <2>1 DEF Bridges
  <2>3. QED
    BY <2>1, <2>2, ZenonT(30) DEF Bridges
<1>7. /\ y \in Bridges /\ y.sent = f.sent /\ y.wire = f.wire /\ y.end = f.end
      /\ y.writer = f.writer /\ y.reader = f.reader /\ y.cur = f.cur
  <2>1. <<>> \in Seq(Packets)
    OBVIOUS
  <2>2. QED
    BY <1>5, <2>1, Zenon DEF Bridges
<1>8. /\ bridge' \in [Streams -> [Sides -> Bridges]]
      /\ bridge'[0]["local"] = x /\ bridge'[0]["remote"] = c
      /\ bridge'[a]["local"] = y /\ bridge'[a]["remote"] = g
      /\ \A j \in Streams : j # 0 /\ j # a => bridge'[j] = bridge[j]
  <2>1. bridge' = [bridge EXCEPT ![0]["local"] = x, ![a]["local"] = y]
    BY <1>1, <1>2, <1>4, <1>5
  <2>2. bridge' \in [Streams -> [Sides -> Bridges]]
    BY <1>1, <1>2, <1>6, <1>7, <2>1, Zenon
  <2>3. bridge'[0]["local"] = x /\ bridge'[0]["remote"] = c
    BY <1>1, <1>2, <1>3, <2>1
  <2>4. bridge'[a]["local"] = y /\ bridge'[a]["remote"] = g
    BY <1>1, <1>2, <1>4, <2>1
  <2>5. \A j \in Streams : j # 0 /\ j # a => bridge'[j] = bridge[j]
    BY <1>1, <2>1
  <2>6. QED
    BY <2>2, <2>3, <2>4, <2>5, Zenon
<1>9. SoundAt(x, c) /\ SoundAt(c, x)
  <2>1. b.end = "open" /\ b.writer = "off"
    BY <1>1, <1>3, Zenon DEF Ready, Idle
  <2>2. b.writer # "payload" /\ b.writer # "done" /\ x.writer # "payload" /\ x.end = "open"
    BY <1>6, <2>1
  <2>3. Framed(b, c.wire) => Framed(x, c.wire)
    BY <1>6, <2>2, FramedKept, Zenon
  <2>4. QED
    BY <1>3, <1>6, <2>2, <2>3, Zenon DEF SoundAt
<1>10. SoundAt(y, g) /\ SoundAt(g, y)
  <2>1. Framed(f, g.wire) => Framed(y, g.wire)
    BY <1>7, FramedKept, Zenon
  <2>2. QED
    BY <1>4, <1>7, <2>1, Zenon DEF SoundAt
<1>11. ASSUME NEW j \in Streams
       PROVE  Sound(j)'
  <2>1. CASE j = 0
    BY <1>2, <1>8, <1>9, <2>1, Zenon DEF Sound
  <2>2. CASE j = a
    BY <1>2, <1>8, <1>10, <2>2, Zenon DEF Sound
  <2>3. CASE j # 0 /\ j # a
    BY <1>8, <2>3, Zenon DEF StreamInv, Sound
  <2>4. QED
    BY <2>1, <2>2, <2>3, Zenon
<1>12. \A d \in Assocs : Waiting(d)' => Waiting(d) /\ bridge'[d] = bridge[d]
  <2>1. ASSUME NEW d \in Assocs, d # a
        PROVE  assoc'[d] = assoc[d] /\ bridge'[d] = bridge[d]
    <3>1. d \in Streams /\ d # 0
      BY SomeStreams, Zenon
    <3>2. assoc'[d] = assoc[d]
      BY <2>1 DEF OpenFirst
    <3>3. QED
      BY <1>8, <2>1, <3>1, <3>2, Zenon
  <2>2. assoc'[a].pc = "bridge"
    BY DEF OpenFirst, Associations
  <2>3. ~ Waiting(a)'
    BY <2>2, SMTT(30) DEF Waiting
  <2>4. QED
    BY <2>1, <2>3, Zenon DEF Waiting
<1>13. QED
  BY <1>1, <1>8, <1>11, <1>12, TakenStep, Zenon

\* A step that leaves the streams alone.
LEMMA StreamsAlone ==
    ASSUME StreamInv, UNCHANGED <<bridge, first, intact, replied>>,
           \A a \in Assocs : Waiting(a)' => Waiting(a)
    PROVE  StreamInv'
<1>1. ASSUME NEW j \in Streams
      PROVE  Sound(j)'
  BY Zenon DEF StreamInv, Sound
<1>2. ASSUME NEW a \in Assocs, Waiting(a)', NEW s \in Sides
      PROVE  Fresh(bridge'[a][s])
  BY <1>2, Zenon DEF StreamInv
<1>3. first' => Ready(bridge'[0]["local"])
  BY Zenon DEF StreamInv
<1>4. QED
  BY <1>1, <1>2, <1>3, Zenon DEF StreamInv, Fresh, Ready, Idle

LEMMA QueuedIsSeq ==
    ASSUME NEW q \in Seq(Packets), NEW p \in Packets
    PROVE  Queued(q, p) \in Seq(Packets)
BY DEF Queued

LEMMA ReplyStep ==
    ASSUME StreamInv, NEW k \in Streams, NEW n \in ReplyLengths, Reply(k, n)
    PROVE  StreamInv'
<1>1. "remote" \in Sides /\ bridge[k]["remote"] \in Bridges /\ replied \in Nat
  BY TwoSides, ZenonT(30) DEF StreamInv
<1>2. n \in Nat /\ replied + 1 \in Nat
  BY <1>1, LimitsAssumption
<1>3. PICK p \in Packets : p = [id |-> replied + 1, len |-> n]
  BY <1>2, Zenon DEF Packets
<1>4. bridge[k]["remote"].queue \in Seq(Packets)
  BY <1>1, SMTT(30) DEF Bridges
<1>5. PICK q \in Seq(Packets) : q = Queued(bridge[k]["remote"].queue, p)
  BY <1>4, QueuedIsSeq, Zenon
<1>6. bridge' = [bridge EXCEPT ![k]["remote"].queue = q]
  BY <1>3, <1>5 DEF Reply
<1>7. intact' = intact /\ first' = first /\ replied' \in Nat
      /\ \A a \in Assocs : Waiting(a)' => Waiting(a)
  BY <1>2, Zenon DEF Reply, Waiting
<1>8. QED
  BY <1>1, <1>6, <1>7, QueueStep, Zenon

------------------------------------------------------------------------------
\* Table and goroutines agree: an entry is an association of that source that
\* runs, and an association that runs is the entry of its source.
TableTypes ==
    /\ table \in [Sources -> Nat] /\ assoc \in [Assocs -> Associations]
    /\ made \in Nat /\ arrived \in Nat /\ made <= arrived /\ arrived <= MaxPackets
Entry(c) == table[c] # 0 => /\ table[c] \in Assocs /\ Running(table[c])
                            /\ assoc[table[c]].src = c
Listed ==
    /\ \A a \in Assocs : a > made => assoc[a].pc = "none"
    /\ \A a \in Assocs : Running(a) => table[assoc[a].src] = a
    /\ \A c \in Sources : Entry(c)
Limited == IsFiniteSet(Live) /\ Cardinality(Live) <= MaxAssociations

TableInv == TableTypes /\ Listed /\ Limited

\* An association goes on, or ends, without a change of the table.
GoesOn(a) ==
    /\ assoc'[a].src = assoc[a].src
    /\ assoc'[a].pc = "none" <=> assoc[a].pc = "none"
    /\ assoc'[a].pc = "gone" <=> assoc[a].pc = "gone"

LEMMA TableAlone ==
    ASSUME TableInv, table' = table, made' = made, arrived' \in Nat, made <= arrived',
           arrived' <= MaxPackets, assoc' \in [Assocs -> Associations],
           \A a \in Assocs : GoesOn(a)
    PROVE  TableInv'
<1>1. \A a \in Assocs : Running(a)' <=> Running(a)
  BY Zenon DEF Running, GoesOn
<1>2. Listed'
  <2>1. \A a \in Assocs : a > made' => assoc'[a].pc = "none"
    BY Zenon DEF TableInv, Listed, GoesOn
  <2>2. \A a \in Assocs : Running(a)' => table'[assoc'[a].src] = a
    BY <1>1, Zenon DEF TableInv, Listed, GoesOn
  <2>3. ASSUME NEW c \in Sources
        PROVE  Entry(c)'
    BY <1>1, Zenon DEF TableInv, Listed, GoesOn, Entry
  <2>4. QED
    BY <2>1, <2>2, <2>3, Zenon DEF Listed
<1>3. Live' = Live
  BY Zenon DEF Live
<1>4. QED
  BY <1>2, <1>3, Zenon DEF TableInv, TableTypes, Limited

LEMMA TableUnchanged ==
    ASSUME TableInv, UNCHANGED <<table, made, arrived, assoc>>
    PROVE  TableInv'
<1>1. \A a \in Assocs : GoesOn(a)
  BY Zenon DEF GoesOn
<1>2. QED
  BY <1>1, TableAlone, Zenon DEF TableInv, TableTypes

LEMMA AnArrival ==
    ASSUME TableInv, arrived < MaxPackets
    PROVE  /\ arrived + 1 \in Nat /\ made <= arrived + 1 /\ arrived + 1 <= MaxPackets
           /\ made + 1 \in Assocs /\ made + 1 # 0 /\ made + 1 > made /\ made + 1 <= arrived + 1
           /\ made + 1 \in Nat /\ \A a \in Assocs : a > made + 1 => a > made /\ a # made + 1
<1>1. made \in Nat /\ arrived \in Nat /\ made <= arrived /\ MaxPackets \in Nat
  BY LimitsAssumption, Zenon DEF TableInv, TableTypes
<1>2. QED
  BY <1>1 DEF Assocs

LEMMA ReceiveOverLimitTable ==
    ASSUME TableInv, NEW c \in Sources, ReceiveOverLimit(c)
    PROVE  TableInv'
<1>1. \A a \in Assocs : GoesOn(a)
  BY Zenon DEF GoesOn, ReceiveOverLimit
<1>2. QED
  BY <1>1, AnArrival, TableAlone, Zenon DEF TableInv, TableTypes, ReceiveOverLimit

LEMMA ReceiveKnownTable ==
    ASSUME TableInv, NEW c \in Sources, NEW n \in Lengths, ReceiveKnown(c, n)
    PROVE  TableInv'
<1>1. \A a \in Assocs : GoesOn(a)
  BY Zenon DEF GoesOn, ReceiveKnown
<1>2. QED
  BY <1>1, AnArrival, TableAlone, Zenon DEF TableInv, TableTypes, ReceiveKnown

LEMMA ReceiveNewTable ==
    ASSUME TableInv, NEW c \in Sources, NEW n \in Lengths, ReceiveNew(c, n)
    PROVE  TableInv'
<1>1. /\ table \in [Sources -> Nat] /\ assoc \in [Assocs -> Associations]
      /\ table[c] = 0 /\ IsFiniteSet(Live) /\ Cardinality(Live) < MaxAssociations
      /\ made' = made + 1 /\ arrived' = arrived + 1 /\ arrived < MaxPackets
  BY Zenon DEF TableInv, TableTypes, Limited, ReceiveNew
<1>2. PICK a \in Assocs : /\ a = made + 1 /\ a \in Nat /\ a # 0 /\ a > made
                          /\ table' = [table EXCEPT ![c] = a]
                          /\ assoc' = [assoc EXCEPT ![a].src = c, ![a].pc = "open"]
                          /\ \A b \in Assocs : b > a => b > made /\ b # a
  BY <1>1, AnArrival, Zenon DEF ReceiveNew
<1>3. /\ table' \in [Sources -> Nat] /\ table'[c] = a
      /\ \A d \in Sources : d # c => table'[d] = table[d]
  BY <1>1, <1>2, Zenon
<1>4. /\ assoc' \in [Assocs -> Associations] /\ assoc'[a].src = c /\ assoc'[a].pc = "open"
      /\ \A b \in Assocs : b # a => assoc'[b] = assoc[b]
  BY <1>1, <1>2 DEF Associations
<1>5. assoc[a].pc = "none" /\ Running(a)'
  <2>1. assoc[a].pc = "none"
    BY <1>2, Zenon DEF TableInv, Listed
  <2>2. QED
    BY <1>4, <2>1, SMTT(30) DEF Running
<1>6. \A b \in Assocs : b # a => (Running(b)' <=> Running(b))
  BY <1>4, Zenon DEF Running
<1>7. Listed'
  <2>1. \A b \in Assocs : b > made' => assoc'[b].pc = "none"
    BY <1>1, <1>2, <1>4, Zenon DEF TableInv, Listed
  <2>2. ASSUME NEW b \in Assocs, Running(b)'
        PROVE  table'[assoc'[b].src] = b
    <3>1. CASE b = a
      BY <1>3, <1>4, <3>1, Zenon
    <3>2. CASE b # a
      <4>1. Running(b) /\ assoc'[b] = assoc[b] /\ table[assoc[b].src] = b
        BY <1>4, <1>6, <2>2, <3>2, Zenon DEF TableInv, Listed
      <4>2. assoc[b].src \in Sources /\ b # 0
        BY <1>1, SomeStreams DEF Associations
      <4>3. assoc[b].src # c
        BY <1>1, <4>1, <4>2, Zenon
      <4>4. QED
        BY <1>3, <4>1, <4>2, <4>3, Zenon
    <3>3. QED
      BY <3>1, <3>2, Zenon
  <2>3. ASSUME NEW d \in Sources
        PROVE  Entry(d)'
    <3>1. CASE d = c
      BY <1>2, <1>3, <1>4, <1>5, <3>1, Zenon DEF Entry
    <3>2. CASE d # c
      <4>1. table'[d] = table[d] /\ Entry(d)
        BY <1>3, <3>2, Zenon DEF TableInv, Listed
      <4>2. table[d] # 0 => table[d] # a
        <5>1. ~ Running(a)
          BY <1>5 DEF Running
        <5>2. QED
          BY <4>1, <5>1, Zenon DEF Entry
      <4>3. QED
        BY <1>4, <1>6, <4>1, <4>2, Zenon DEF Entry
    <3>3. QED
      BY <3>1, <3>2, Zenon
  <2>4. QED
    BY <2>1, <2>2, <2>3, Zenon DEF Listed
<1>8. Limited'
  <2>1. Live' = Live \cup {c}
    BY <1>2, <1>3, Zenon DEF Live
  <2>2. c \notin Live
    BY <1>1, Zenon DEF Live
  <2>3. IsFiniteSet(Live') /\ Cardinality(Live') = Cardinality(Live) + 1
    BY <1>1, <2>1, <2>2, FS_AddElement, Zenon
  <2>4. Cardinality(Live) \in Nat
    BY <1>1, FS_CardinalityType, Zenon
  <2>5. Cardinality(Live) + 1 <= MaxAssociations
    BY <1>1, <2>4, LimitsAssumption
  <2>6. QED
    BY <2>3, <2>5, Zenon DEF Limited
<1>9. TableTypes'
  BY <1>1, <1>3, <1>4, AnArrival, Zenon DEF TableTypes
<1>10. QED
  BY <1>7, <1>8, <1>9, Zenon DEF TableInv

LEMMA ForgetTable ==
    ASSUME TableInv, NEW a \in Assocs, Forget(a)
    PROVE  TableInv'
<1>1. /\ table \in [Sources -> Nat] /\ assoc \in [Assocs -> Associations]
      /\ assoc[a].pc = "forget" /\ made' = made /\ arrived' = arrived
      /\ assoc' = [assoc EXCEPT ![a].cancelled = TRUE, ![a].pc = "gone"]
  BY Zenon DEF TableInv, TableTypes, Forget
<1>2. Running(a) /\ a # 0
  BY <1>1, SomeStreams DEF Running
<1>3. PICK c \in Sources : c = assoc[a].src
  BY <1>1 DEF Associations
<1>4. table[c] = a
  BY <1>2, <1>3, Zenon DEF TableInv, Listed
<1>5. /\ table' \in [Sources -> Nat] /\ table'[c] = 0
      /\ \A d \in Sources : d # c => table'[d] = table[d]
  <2>1. 0 \in Nat
    OBVIOUS
  <2>2. table' = [table EXCEPT ![c] = 0]
    BY <1>3, <1>4, Zenon DEF Forget
  <2>3. QED
    BY <1>1, <2>1, <2>2, Zenon
<1>6. /\ assoc' \in [Assocs -> Associations] /\ assoc'[a].pc = "gone"
      /\ \A b \in Assocs : b # a => assoc'[b] = assoc[b]
  BY <1>1 DEF Associations
<1>7. /\ ~ Running(a)'
      /\ \A b \in Assocs : b # a => (Running(b)' <=> Running(b))
  BY <1>6, Zenon DEF Running
<1>8. Listed'
  <2>1. ASSUME NEW b \in Assocs, b > made'
        PROVE  assoc'[b].pc = "none"
    <3>1. assoc[b].pc = "none"
      BY <1>1, <2>1, Zenon DEF TableInv, Listed
    <3>2. b # a
      BY <1>1, <3>1
    <3>3. QED
      BY <1>6, <3>1, <3>2, Zenon
  <2>2. ASSUME NEW b \in Assocs, Running(b)'
        PROVE  table'[assoc'[b].src] = b
    <3>1. b # a /\ Running(b) /\ assoc'[b] = assoc[b]
      BY <1>6, <1>7, <2>2, Zenon
    <3>2. table[assoc[b].src] = b
      BY <3>1, Zenon DEF TableInv, Listed
    <3>3. assoc[b].src \in Sources
      BY <1>1 DEF Associations
    <3>4. QED
      BY <1>4, <1>5, <3>1, <3>2, <3>3, Zenon
  <2>3. ASSUME NEW d \in Sources
        PROVE  Entry(d)'
    <3>1. CASE d = c
      BY <1>5, <3>1, Zenon DEF Entry
    <3>2. CASE d # c
      <4>1. table'[d] = table[d] /\ Entry(d)
        BY <1>5, <3>2, Zenon DEF TableInv, Listed
      <4>2. table[d] # 0 => table[d] # a
        BY <1>3, <3>2, <4>1, Zenon DEF Entry
      <4>3. QED
        BY <1>6, <1>7, <4>1, <4>2, Zenon DEF Entry
    <3>3. QED
      BY <3>1, <3>2, Zenon
  <2>4. QED
    BY <2>1, <2>2, <2>3, Zenon DEF Listed
<1>9. Limited'
  <2>1. Live' \subseteq Live
    BY <1>5, Zenon DEF Live
  <2>2. IsFiniteSet(Live) /\ Cardinality(Live) <= MaxAssociations
    BY Zenon DEF TableInv, Limited
  <2>3. IsFiniteSet(Live') /\ Cardinality(Live') <= Cardinality(Live)
    BY <2>1, <2>2, FS_Subset, Zenon
  <2>4. Cardinality(Live) \in Nat /\ Cardinality(Live') \in Nat
    BY <2>2, <2>3, FS_CardinalityType, Zenon
  <2>5. Cardinality(Live') <= MaxAssociations
    BY <2>2, <2>3, <2>4, LimitsAssumption
  <2>6. QED
    BY <2>3, <2>5, Zenon DEF Limited
<1>10. TableTypes'
  BY <1>1, <1>5, <1>6, Zenon DEF TableInv, TableTypes
<1>11. QED
  BY <1>8, <1>9, <1>10, Zenon DEF TableInv

\* Opening, returning and being cancelled only move a running association along.
LEMMA OpenTable ==
    ASSUME TableInv, NEW a \in Assocs, Open(a)
    PROVE  TableInv'
<1>1. /\ assoc \in [Assocs -> Associations] /\ assoc[a].pc = "open"
      /\ table' = table /\ made' = made /\ arrived' = arrived
      /\ \/ assoc' = [assoc EXCEPT ![a].pc = "bridge", ![a].sid = 0]
         \/ assoc' = [assoc EXCEPT ![a].pc = "bridge"]
         \/ assoc' = [assoc EXCEPT ![a].pc = "forget"]
  BY Zenon DEF TableInv, TableTypes, Open, OpenFirst, OpenDials, OpenFails
<1>2. /\ assoc' \in [Assocs -> Associations] /\ assoc'[a].src = assoc[a].src
      /\ assoc'[a].pc \in {"bridge", "forget"}
      /\ \A b \in Assocs : b # a => assoc'[b] = assoc[b]
  BY <1>1, SomeStreams DEF Associations
<1>3. GoesOn(a)
  BY <1>1, <1>2 DEF GoesOn
<1>4. \A b \in Assocs : b # a => GoesOn(b)
  BY <1>2, Zenon DEF GoesOn
<1>5. \A b \in Assocs : GoesOn(b)
  BY <1>3, <1>4, Zenon
<1>6. QED
  BY <1>1, <1>2, <1>5, TableAlone, Zenon DEF TableInv, TableTypes

LEMMA ReturnTable ==
    ASSUME TableInv, NEW k \in Streams, NEW s \in Sides, NEW e, Return(k, s, e)
    PROVE  TableInv'
<1>1. /\ assoc \in [Assocs -> Associations]
      /\ table' = table /\ made' = made /\ arrived' = arrived
      /\ assoc' = [a \in Assocs |-> IF s = "local" /\ Owner(k, a)
                                    THEN [assoc[a] EXCEPT !.pc = "forget"] ELSE assoc[a]]
  BY Zenon DEF TableInv, TableTypes, Return
<1>2. ASSUME NEW a \in Assocs
      PROVE  assoc'[a] \in Associations /\ GoesOn(a)
  <2>1. assoc[a] \in Associations
    BY <1>1, Zenon
  <2>2. CASE s = "local" /\ Owner(k, a)
    <3>1. assoc'[a] = [assoc[a] EXCEPT !.pc = "forget"] /\ assoc[a].pc = "bridge"
      BY <1>1, <2>2, Zenon DEF Owner
    <3>2. QED
      BY <2>1, <3>1 DEF Associations, GoesOn
  <2>3. CASE ~(s = "local" /\ Owner(k, a))
    <3>1. assoc'[a] = assoc[a]
      BY <1>1, <2>3, Zenon
    <3>2. QED
      BY <2>1, <3>1, Zenon DEF GoesOn
  <2>4. QED
    BY <2>2, <2>3, Zenon
<1>3. assoc' \in [Assocs -> Associations]
  BY <1>1, <1>2, Zenon
<1>4. QED
  BY <1>1, <1>2, <1>3, TableAlone, Zenon DEF TableInv, TableTypes

LEMMA LoopEndsTable ==
    ASSUME TableInv, LoopEnds
    PROVE  TableInv' /\ \A a \in Assocs : assoc'[a].pc = assoc[a].pc
<1>1. /\ assoc \in [Assocs -> Associations]
      /\ table' = table /\ made' = made /\ arrived' = arrived
      /\ assoc' = [a \in Assocs |->
                      IF table[assoc[a].src] = a THEN [assoc[a] EXCEPT !.cancelled = TRUE]
                                                 ELSE assoc[a]]
  BY Zenon DEF TableInv, TableTypes, LoopEnds
<1>2. ASSUME NEW a \in Assocs
      PROVE  assoc'[a] \in Associations /\ GoesOn(a) /\ assoc'[a].pc = assoc[a].pc
  <2>1. assoc[a] \in Associations
    BY <1>1, Zenon
  <2>2. \/ assoc'[a] = [assoc[a] EXCEPT !.cancelled = TRUE]
        \/ assoc'[a] = assoc[a]
    BY <1>1, Zenon
  <2>3. QED
    BY <2>1, <2>2, Zenon DEF Associations, GoesOn
<1>3. assoc' \in [Assocs -> Associations]
  BY <1>1, <1>2, Zenon
<1>4. QED
  BY <1>1, <1>2, <1>3, TableAlone, Zenon DEF TableInv, TableTypes

------------------------------------------------------------------------------
\* The steps of the receiving goroutine and of the associations, for the streams.
LEMMA ArrivalIsPacket ==
    ASSUME TableInv, NEW n \in Lengths
    PROVE  Arrival(n) \in Packets
<1>1. arrived \in Nat
  BY Zenon DEF TableInv, TableTypes
<1>2. n \in Nat
  BY LimitsAssumption
<1>3. QED
  BY <1>1, <1>2 DEF Arrival, Packets

LEMMA ReceiveNewStep ==
    ASSUME TableInv, StreamInv, NEW c \in Sources, NEW n \in Lengths, ReceiveNew(c, n)
    PROVE  StreamInv'
<1>1. /\ assoc \in [Assocs -> Associations] /\ arrived < MaxPackets /\ intact' = intact
      /\ first' = first /\ replied' \in Nat
  BY Zenon DEF TableInv, TableTypes, StreamInv, ReceiveNew
<1>2. PICK a \in Assocs : /\ a > made
                          /\ assoc' = [assoc EXCEPT ![a].src = c, ![a].pc = "open"]
                          /\ bridge' = [bridge EXCEPT ![a]["local"].queue = <<Arrival(n)>>]
  BY <1>1, AnArrival, Zenon DEF ReceiveNew
<1>3. PICK q \in Seq(Packets) : q = <<Arrival(n)>>
  <2>1. PICK p \in Packets : p = Arrival(n)
    BY ArrivalIsPacket, Zenon
  <2>2. <<p>> \in Seq(Packets)
    OBVIOUS
  <2>3. QED
    BY <2>1, <2>2, Zenon
<1>4. a \in Streams /\ "local" \in Sides
  BY SomeStreams, TwoSides, Zenon
<1>5. Waiting(a)
  BY <1>2, Zenon DEF TableInv, Listed, Waiting
<1>6. \A b \in Assocs : b # a => assoc'[b] = assoc[b]
  BY <1>1, <1>2, Zenon
<1>7. \A b \in Assocs : Waiting(b)' => Waiting(b)
  BY <1>5, <1>6, Zenon DEF Waiting
<1>8. bridge' = [bridge EXCEPT ![a]["local"].queue = q]
  BY <1>2, <1>3, Zenon
<1>9. QED
  BY <1>1, <1>4, <1>7, <1>8, QueueStep, Zenon

LEMMA ReceiveKnownStep ==
    ASSUME TableInv, StreamInv, NEW c \in Sources, NEW n \in Lengths, ReceiveKnown(c, n)
    PROVE  StreamInv'
<1>1. /\ assoc \in [Assocs -> Associations] /\ intact' = intact
      /\ first' = first /\ replied' \in Nat /\ assoc' = assoc /\ table[c] # 0
      /\ bridge' = [bridge EXCEPT ![assoc[table[c]].sid]["local"].queue =
                                      Queued(@, Arrival(n))]
  BY Zenon DEF TableInv, TableTypes, StreamInv, ReceiveKnown
<1>2. table[c] \in Assocs
  BY <1>1, Zenon DEF TableInv, Listed, Entry
<1>3. PICK k \in Streams : k = assoc[table[c]].sid
  BY <1>1, <1>2, SMTT(30) DEF Associations
<1>4. "local" \in Sides /\ bridge[k]["local"] \in Bridges
  BY TwoSides, ZenonT(30) DEF StreamInv
<1>5. bridge[k]["local"].queue \in Seq(Packets)
  BY <1>4, SMTT(30) DEF Bridges
<1>6. PICK q \in Seq(Packets) : q = Queued(bridge[k]["local"].queue, Arrival(n))
  BY <1>5, ArrivalIsPacket, QueuedIsSeq, Zenon
<1>7. bridge \in [Streams -> [Sides -> Bridges]]
  BY Zenon DEF StreamInv
<1>8. bridge' = [bridge EXCEPT ![k]["local"].queue = q]
  BY <1>1, <1>3, <1>6, Zenon
<1>9. \A b \in Assocs : Waiting(b)' => Waiting(b)
  BY <1>1, Zenon DEF Waiting
<1>10. QED
  BY <1>1, <1>4, <1>8, <1>9, QueueStep, Zenon

LEMMA OpenFailsStep ==
    ASSUME TableInv, StreamInv, NEW a \in Assocs, OpenFails(a)
    PROVE  StreamInv'
<1>1. /\ assoc \in [Assocs -> Associations] /\ intact' = intact /\ first' = first
      /\ replied' \in Nat /\ assoc[a].pc = "open"
      /\ assoc' = [assoc EXCEPT ![a].pc = "forget"]
      /\ bridge' = [bridge EXCEPT ![a]["local"].queue = <<>>]
  BY Zenon DEF TableInv, TableTypes, StreamInv, OpenFails
<1>2. a \in Streams /\ "local" \in Sides
  BY SomeStreams, TwoSides, Zenon
<1>3. <<>> \in Seq(Packets)
  OBVIOUS
<1>4. Waiting(a) /\ \A b \in Assocs : b # a => assoc'[b] = assoc[b]
  BY <1>1, Zenon DEF Waiting
<1>5. \A b \in Assocs : Waiting(b)' => Waiting(b)
  BY <1>4, Zenon DEF Waiting
<1>6. QED
  BY <1>1, <1>2, <1>3, <1>5, QueueStep, Zenon

LEMMA ForgetStep ==
    ASSUME TableInv, StreamInv, NEW a \in Assocs, Forget(a)
    PROVE  StreamInv'
<1>1. /\ assoc \in [Assocs -> Associations] /\ UNCHANGED <<bridge, first, intact, replied>>
      /\ assoc' = [assoc EXCEPT ![a].cancelled = TRUE, ![a].pc = "gone"]
  BY Zenon DEF TableInv, TableTypes, Forget
<1>2. assoc'[a].pc = "gone" /\ \A b \in Assocs : b # a => assoc'[b] = assoc[b]
  BY <1>1 DEF Associations
<1>3. ~ Waiting(a)'
  BY <1>2, SMTT(30) DEF Waiting
<1>4. \A b \in Assocs : Waiting(b)' => Waiting(b)
  BY <1>2, <1>3, Zenon DEF Waiting
<1>5. QED
  BY <1>1, <1>4, StreamsAlone, Zenon

LEMMA LoopEndsStep ==
    ASSUME TableInv, StreamInv, LoopEnds
    PROVE  StreamInv'
<1>1. \A b \in Assocs : Waiting(b)' => Waiting(b)
  BY LoopEndsTable, Zenon DEF Waiting
<1>2. QED
  BY <1>1, StreamsAlone, Zenon DEF LoopEnds

LEMMA WaitStep ==
    ASSUME TableInv, StreamInv, NEW k \in Streams, NEW s \in Sides,
           Wait(k, s) \/ WaitCancelled(k)
    PROVE  TableInv' /\ StreamInv'
<1>1. "local" \in Sides /\ assoc \in [Assocs -> Associations]
  BY TwoSides, Zenon DEF TableInv, TableTypes
<1>2. PICK t \in Sides, e \in {"closed", "reset"} : Return(k, t, e)
  <2>1. CASE WaitIdle(k, s)
    BY <2>1, Zenon DEF WaitIdle
  <2>2. CASE WaitError(k, s)
    <3>1. (IF Head(bridge[k][s].errorsCh) = "eof" THEN "closed" ELSE "reset")
             \in {"closed", "reset"}
      BY Zenon
    <3>2. QED
      BY <2>2, <3>1, Zenon DEF WaitError
  <2>3. CASE WaitCancelled(k)
    BY <1>1, <2>3, Zenon DEF WaitCancelled
  <2>4. QED
    BY <2>1, <2>2, <2>3, Zenon DEF Wait
<1>3. TableInv'
  BY <1>2, ReturnTable, Zenon
<1>4. StreamInv'
  BY <1>1, <1>2, ReturnStep, Zenon
<1>5. QED
  BY <1>3, <1>4, Zenon

------------------------------------------------------------------------------
LEMMA InitTable ==
    ASSUME Init
    PROVE  TableInv
<1>1. /\ table = [c \in Sources |-> 0] /\ made = 0 /\ arrived = 0
      /\ assoc = [a \in Assocs |-> [src |-> CHOOSE c \in Sources : TRUE, pc |-> "none",
                                    cancelled |-> FALSE, sid |-> a]]
  BY Zenon DEF Init
<1>2. PICK d \in Sources : d = CHOOSE c \in Sources : TRUE
  BY LimitsAssumption, Zenon
<1>3. /\ assoc \in [Assocs -> Associations]
      /\ \A a \in Assocs : assoc[a].pc = "none"
  BY <1>1, <1>2, SomeStreams, SMTT(30) DEF Associations
<1>4. table \in [Sources -> Nat] /\ \A c \in Sources : table[c] = 0
  BY <1>1
<1>5. TableTypes
  BY <1>1, <1>3, <1>4, LimitsAssumption DEF TableTypes
<1>6. Listed
  BY <1>3, <1>4, Zenon DEF Listed, Running, Entry
<1>7. Limited
  <2>1. Live = {}
    BY <1>4, Zenon DEF Live
  <2>2. IsFiniteSet(Live) /\ Cardinality(Live) = 0
    BY <2>1, FS_EmptySet, Zenon
  <2>3. QED
    BY <2>2, LimitsAssumption DEF Limited
<1>8. QED
  BY <1>5, <1>6, <1>7, Zenon DEF TableInv

LEMMA InitStreams ==
    ASSUME Init
    PROVE  StreamInv
<1>1. /\ first = TRUE /\ intact = TRUE /\ replied = 0
      /\ bridge = [k \in Streams |-> [s \in Sides |->
                      IF k = 0 THEN Bridge(IF s = "remote" THEN "run" ELSE "off", "open")
                               ELSE Bridge("off", "none")]]
  BY Zenon DEF Init
<1>2. ASSUME NEW st \in {"off", "run"}, NEW e \in {"none", "open"}
      PROVE  /\ Bridge(st, e) \in Bridges /\ Bridge(st, e).wire = <<>>
             /\ Bridge(st, e).sent = <<>> /\ Bridge(st, e).writer = st
             /\ Bridge(st, e).reader = st /\ Bridge(st, e).waiter = st /\ Bridge(st, e).end = e
  <2>1. <<>> \in Seq(Packets) /\ <<>> \in Seq(Cells) /\ <<>> \in Seq({"eof", "error"})
    OBVIOUS
  <2>2. NoPacket \in Packets
    BY DEF NoPacket, Packets
  <2>3. QED
    BY <2>1, <2>2, SMTT(30) DEF Bridge, Bridges
<1>3. ASSUME NEW k \in Streams, NEW s \in Sides
      PROVE  \E st \in {"off", "run"}, e \in {"none", "open"} :
                 /\ bridge[k][s] = Bridge(st, e)
                 /\ st = "run" => e = "open"
                 /\ k # 0 => st = "off" /\ e = "none"
                 /\ k = 0 /\ s = "local" => st = "off" /\ e = "open"
  <2>1. CASE k # 0
    <3>1. bridge[k][s] = Bridge("off", "none")
      BY <1>1, <2>1, Zenon
    <3>2. QED
      BY <2>1, <3>1, SMTT(30)
  <2>2. CASE k = 0 /\ s = "local"
    <3>1. bridge[k][s] = Bridge("off", "open")
      BY <1>1, <2>2
    <3>2. QED
      BY <2>2, <3>1
  <2>3. CASE k = 0 /\ s # "local"
    <3>1. s = "remote"
      BY <2>3 DEF Sides
    <3>2. bridge[k][s] = Bridge("run", "open")
      BY <1>1, <2>3, <3>1, Zenon
    <3>3. QED
      BY <2>3, <3>2
  <2>4. QED
    BY <2>1, <2>2, <2>3, Zenon
<1>4. ASSUME NEW k \in Streams, NEW s \in Sides
      PROVE  /\ bridge[k][s] \in Bridges /\ bridge[k][s].wire = <<>> /\ bridge[k][s].sent = <<>>
             /\ bridge[k][s].writer # "payload"
             /\ bridge[k][s].reader = "run" => bridge[k][s].end = "open"
             /\ k # 0 => Fresh(bridge[k][s])
             /\ k = 0 /\ s = "local" => Ready(bridge[k][s])
  <2>1. PICK st \in {"off", "run"}, e \in {"none", "open"} :
                 /\ bridge[k][s] = Bridge(st, e)
                 /\ st = "run" => e = "open"
                 /\ k # 0 => st = "off" /\ e = "none"
                 /\ k = 0 /\ s = "local" => st = "off" /\ e = "open"
    BY <1>3, Zenon
  <2>2. PICK b \in Bridges : /\ b = Bridge(st, e) /\ b.wire = <<>> /\ b.sent = <<>>
                             /\ b.writer = st /\ b.reader = st /\ b.waiter = st /\ b.end = e
    BY <1>2, Zenon
  <2>3. bridge[k][s] = b
    BY <2>1, <2>2, Zenon
  <2>4. b.reader = "run" => b.end = "open"
    BY <2>1, <2>2
  <2>5. /\ k # 0 => Fresh(b)
        /\ k = 0 /\ s = "local" => Ready(b)
    BY <2>1, <2>2, Zenon DEF Fresh, Ready, Idle
  <2>6. b.writer # "payload"
    BY <2>2
  <2>7. QED
    BY <2>2, <2>3, <2>4, <2>5, <2>6, Zenon
<1>5. bridge \in [Streams -> [Sides -> Bridges]]
  BY <1>1, <1>4, Zenon
<1>6. ASSUME NEW k \in Streams
      PROVE  Sound(k)
  <2>1. ASSUME NEW s \in Sides
        PROVE  SoundAt(bridge[k][s], bridge[k][Other(s)])
    <3>1. Other(s) \in Sides
      BY TwoSides, Zenon
    <3>2. Framed(bridge[k][s], <<>>)
      BY <1>4, FramedStart, Zenon
    <3>3. QED
      BY <1>4, <3>1, <3>2, Zenon DEF SoundAt
  <2>2. QED
    BY <2>1, Zenon DEF Sound
<1>7. \A a \in Assocs : Waiting(a) => \A s \in Sides : Fresh(bridge[a][s])
  BY <1>4, SomeStreams, Zenon
<1>8. Ready(bridge[0]["local"])
  BY <1>4, SomeStreams, TwoSides, Zenon
<1>9. first \in BOOLEAN /\ replied \in Nat /\ intact
  BY <1>1
<1>10. QED
  BY <1>5, <1>6, <1>7, <1>8, <1>9, Zenon DEF StreamInv

LEMMA PumpStep ==
    ASSUME TableInv, StreamInv, NEW k \in Streams, NEW s \in Sides, Pump(k, s) \/ Drain(k, s)
    PROVE  TableInv' /\ StreamInv'
<1>1. UNCHANGED <<table, made, arrived, assoc>>
  BY Zenon DEF Pump, Drain, WriteHeader, WritePayload, WriteFails, ReadPacket, PacketRefused,
               ReadEnds
<1>2. TableInv'
  BY <1>1, TableUnchanged, Zenon
<1>3. StreamInv'
  BY WriteHeaderStep, WritePayloadStep, WriteFailsStep, ReadPacketStep, PacketRefusedStep,
     ReadEndsStep, Zenon DEF Pump, Drain
<1>4. QED
  BY <1>2, <1>3, Zenon

LEMMA AssociateStep ==
    ASSUME TableInv, StreamInv, NEW a \in Assocs, Associate(a)
    PROVE  TableInv' /\ StreamInv'
<1>1. assoc \in [Assocs -> Associations]
  BY Zenon DEF TableInv, TableTypes
<1>2. TableInv'
  BY OpenTable, ForgetTable, Zenon DEF Associate
<1>3. StreamInv'
  BY <1>1, OpenFirstStep, OpenDialsStep, OpenFailsStep, ForgetStep, Zenon DEF Associate, Open
<1>4. QED
  BY <1>2, <1>3, Zenon

LEMMA ArrivalsStep ==
    ASSUME TableInv, StreamInv, Arrivals
    PROVE  TableInv' /\ StreamInv'
<1>1. ASSUME NEW c \in Sources, ReceiveOverLimit(c)
      PROVE  TableInv' /\ StreamInv'
  <2>1. UNCHANGED <<bridge, first, intact, replied>> /\ assoc' = assoc
    BY <1>1, Zenon DEF ReceiveOverLimit
  <2>2. \A b \in Assocs : Waiting(b)' => Waiting(b)
    BY <2>1, Zenon DEF Waiting
  <2>3. QED
    BY <1>1, <2>1, <2>2, ReceiveOverLimitTable, StreamsAlone, Zenon
<1>2. ASSUME NEW c \in Sources, NEW n \in Lengths, ReceiveNew(c, n)
      PROVE  TableInv' /\ StreamInv'
  BY <1>2, ReceiveNewTable, ReceiveNewStep, Zenon
<1>3. ASSUME NEW c \in Sources, NEW n \in Lengths, ReceiveKnown(c, n)
      PROVE  TableInv' /\ StreamInv'
  BY <1>3, ReceiveKnownTable, ReceiveKnownStep, Zenon
<1>4. ASSUME NEW k \in Streams, NEW n \in ReplyLengths, Reply(k, n)
      PROVE  TableInv' /\ StreamInv'
  <2>1. UNCHANGED <<table, made, arrived, assoc>>
    BY <1>4, Zenon DEF Reply
  <2>2. QED
    BY <1>4, <2>1, TableUnchanged, ReplyStep, Zenon
<1>5. QED
  BY <1>1, <1>2, <1>3, <1>4, Zenon DEF Arrivals

LEMMA NextHolds ==
    ASSUME TableInv, StreamInv, [Next]_vars
    PROVE  TableInv' /\ StreamInv'
<1>1. ASSUME UNCHANGED <<table, made, arrived, assoc, bridge, first, intact, replied>>
      PROVE  TableInv' /\ StreamInv'
  <2>1. \A b \in Assocs : Waiting(b)' => Waiting(b)
    BY <1>1, Zenon DEF Waiting
  <2>2. QED
    BY <1>1, <2>1, TableUnchanged, StreamsAlone, Zenon
<1>2. CASE Arrivals
  BY <1>2, ArrivalsStep, Zenon
<1>3. CASE LoopEnds
  BY <1>3, LoopEndsTable, LoopEndsStep, Zenon
<1>4. CASE Cancel \/ ListenerCloses
  BY <1>1, <1>4, Zenon DEF Cancel, ListenerCloses
<1>5. CASE OpenerCloses
  <2>1. UNCHANGED <<table, made, arrived, assoc>>
    BY <1>5, Zenon DEF OpenerCloses
  <2>2. QED
    BY <1>5, <2>1, TableUnchanged, OpenerClosesStep, Zenon
<1>6. ASSUME NEW a \in Assocs, Associate(a)
      PROVE  TableInv' /\ StreamInv'
  BY <1>6, AssociateStep, Zenon
<1>7. ASSUME NEW k \in Streams, WriterStops(k)
      PROVE  TableInv' /\ StreamInv'
  <2>1. UNCHANGED <<table, made, arrived, assoc>>
    BY <1>7, Zenon DEF WriterStops
  <2>2. QED
    BY <1>7, <2>1, TableUnchanged, WriterStopsStep, Zenon
<1>8. ASSUME NEW k \in Streams, WaitCancelled(k)
      PROVE  TableInv' /\ StreamInv'
  BY <1>8, TwoSides, WaitStep, Zenon
<1>9. ASSUME NEW k \in Streams, NEW s \in Sides, Pump(k, s) \/ Drain(k, s)
      PROVE  TableInv' /\ StreamInv'
  BY <1>9, PumpStep, Zenon
<1>10. ASSUME NEW k \in Streams, NEW s \in Sides, Wait(k, s)
       PROVE  TableInv' /\ StreamInv'
  BY <1>10, WaitStep, Zenon
<1>11. CASE UNCHANGED vars
  BY <1>1, <1>11, Zenon DEF vars
<1>12. QED
  BY <1>2, <1>3, <1>4, <1>5, <1>6, <1>7, <1>8, <1>9, <1>10, <1>11, Zenon DEF Next

LEMMA RunningCounted ==
    ASSUME TableInv
    PROVE  OneAssociation
<1>1. ASSUME NEW a \in Assocs, Running(a)
      PROVE  /\ assoc[a].src \in Sources /\ assoc[a].src \in Live
             /\ table[assoc[a].src] = a
  <2>1. assoc[a].src \in Sources
    BY DEF TableInv, TableTypes, Associations
  <2>2. table[assoc[a].src] = a /\ a # 0
    BY <1>1, SomeStreams, Zenon DEF TableInv, Listed
  <2>3. QED
    BY <2>1, <2>2, Zenon DEF Live
<1>2. \A a, b \in Assocs : Running(a) /\ Running(b) /\ assoc[a].src = assoc[b].src => a = b
  <2>1. SUFFICES ASSUME NEW a \in Assocs, NEW b \in Assocs, Running(a), Running(b),
                        assoc[a].src = assoc[b].src
                 PROVE  a = b
    BY Zenon
  <2>2. table[assoc[a].src] = a
    BY <1>1, <2>1, Zenon
  <2>3. table[assoc[a].src] = b
    BY <1>1, <2>1, Zenon
  <2>4. QED
    BY <2>2, <2>3, Zenon
<1>3. PICK R : R = {a \in Assocs : Running(a)}
  BY Zenon
<1>4. PICK f : f = [a \in R |-> assoc[a].src]
  BY Zenon
<1>5. f \in [R -> Live] /\ DOMAIN f = R
  BY <1>1, <1>3, <1>4, Zenon
<1>6. IsInjective(f)
  <2>1. ASSUME NEW a \in R, NEW b \in R, f[a] = f[b]
        PROVE  a = b
    BY <1>2, <1>3, <1>4, <2>1, Zenon
  <2>2. QED
    BY <1>5, <2>1, Zenon DEF IsInjective
<1>7. f \in Injection(R, Live)
  BY <1>5, <1>6, Zenon DEF Injection
<1>8. IsFiniteSet(Live) /\ Cardinality(Live) <= MaxAssociations
  BY Zenon DEF TableInv, Limited
<1>9. IsFiniteSet(R) /\ Cardinality(R) <= Cardinality(Live)
  BY <1>7, <1>8, FS_Injection, Zenon
<1>10. Cardinality(R) \in Nat /\ Cardinality(Live) \in Nat
  BY <1>8, <1>9, FS_CardinalityType, Zenon
<1>11. Cardinality(R) <= MaxAssociations
  BY <1>8, <1>9, <1>10, LimitsAssumption
<1>12. QED
  BY <1>2, <1>3, <1>11, Zenon DEF OneAssociation

LEMMA InvariantsHold == Spec => [](TableInv /\ StreamInv)
<1>1. Init => TableInv /\ StreamInv
  BY InitTable, InitStreams, Zenon
<1>2. TableInv /\ StreamInv /\ [Next]_vars => (TableInv /\ StreamInv)'
  BY NextHolds, Zenon
<1>3. QED
  BY <1>1, <1>2, PTL DEF Spec

\* Whatever arrives on either side, in whatever order the writers, the readers
\* and waitForDatagramBridge run, and wherever a stream is closed or reset: a
\* datagram that datagram.Read hands to a socket is the next one that
\* datagram.Write put on the stream, with its length and all of its bytes.
THEOREM BoundariesKept == Spec => []Boundaries
<1>1. TableInv /\ StreamInv => Boundaries
  BY Zenon DEF StreamInv, Boundaries
<1>2. QED
  BY <1>1, InvariantsHold, PTL

\* For any number of sources and any limit: two association goroutines of
\* StartLocalUDPForward never serve the same source, and no more of them run
\* than maxUDPAssociations, those that are about to leave the table included.
THEOREM OneAssociationHolds == Spec => []OneAssociation
<1>1. TableInv /\ StreamInv => OneAssociation
  BY RunningCounted, Zenon
<1>2. QED
  BY <1>1, InvariantsHold, PTL
==============================================================================
