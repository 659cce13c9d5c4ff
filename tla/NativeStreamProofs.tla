-------------------------- MODULE NativeStreamProofs --------------------------
(***************************************************************************)
(* Proofs about NativeStream for every window, queue limit, chunk size,    *)
(* number of writes and number of lost data channels, in three parts.      *)
(* Chunks stay in order through the pipe of what was read, what is queued  *)
(* and what is on its way.  Then eof does not overtake data: chunks are    *)
(* counted with the tallies of StreamAccounting, whose laws are proved     *)
(* first.  Last, the accounts of bytes: readQueued is what readQueue       *)
(* holds, what is outstanding is covered by inFlight, and no credit leaks  *)
(* while nothing fails.                                                    *)
(*                                                                         *)
(* A lemma about every step has a named step for each action, or group of  *)
(* actions, and ends with Next.  USE Zenon makes Zenon the prover of the   *)
(* leaves below it that name no other.                                     *)
(***************************************************************************)
EXTENDS StreamAccounting, WellFoundedInduction, TLAPS

\* d, q and f are the chunks of one direction that were read, are queued and
\* are on their way, and n is the number of chunks written: numbers increase
\* through the whole pipe.
ReadRises(d) == \A i, j \in 1 .. Len(d) : i < j => d[i] < d[j]
QueueRises(q) == \A i, j \in 1 .. Len(q) : i < j => q[i].id < q[j].id
FramesRise(f) ==
    \A i, j \in 1 .. Len(f) :
        i < j /\ f[i].type = "data" /\ f[j].type = "data" => f[i].id < f[j].id
ReadThenQueue(d, q) == \A i \in 1 .. Len(d), j \in 1 .. Len(q) : d[i] < q[j].id
ReadThenFrames(d, f) ==
    \A i \in 1 .. Len(d), j \in 1 .. Len(f) : f[j].type = "data" => d[i] < f[j].id
QueueThenFrames(q, f) ==
    \A i \in 1 .. Len(q), j \in 1 .. Len(f) : f[j].type = "data" => q[i].id < f[j].id
AllWritten(d, q, f, n) ==
    /\ \A i \in 1 .. Len(d) : d[i] <= n
    /\ \A i \in 1 .. Len(q) : q[i].id <= n
    /\ \A i \in 1 .. Len(f) : f[i].type = "data" => f[i].id <= n
Pipe(d, q, f, n) ==
    /\ ReadRises(d) /\ QueueRises(q) /\ FramesRise(f)
    /\ ReadThenQueue(d, q) /\ ReadThenFrames(d, f) /\ QueueThenFrames(q, f)
    /\ AllWritten(d, q, f, n)

Order ==
    \A e \in Ends : Pipe(delivered[e], readQueue[e], frames[e], written[Other(e)])

\* Numbers and lengths of frames are natural numbers.
LEMMA FrameFields ==
    ASSUME NEW f \in Seq(Frames), NEW i \in 1 .. Len(f)
    PROVE  f[i] \in Frames /\ f[i].id \in Nat /\ f[i].len \in Nat
<1>1. f[i] \in Frames
  OBVIOUS
<1>2. QED
  BY <1>1, Zenon DEF Frames

\* The first frame of a sequence of frames is a frame.
LEMMA HeadFrame ==
    ASSUME NEW f \in Seq(Frames), f # <<>>
    PROVE  Head(f) \in Frames /\ Head(f).id \in Nat /\ Head(f).len \in Nat
<1>1. Head(f) = f[1] /\ 1 \in 1 .. Len(f)
  OBVIOUS
<1>2. QED
  BY <1>1, FrameFields, Zenon

\* The frames after the first one are frames.
LEMMA TailFrames ==
    ASSUME NEW f \in Seq(Frames), f # <<>>
    PROVE  Tail(f) \in Seq(Frames)
OBVIOUS

\* What a tally without weight adds.
LEMMA PlusZero == \A m \in Nat : m + 0 = m
OBVIOUS

\* The next four lemmas say of the operations on sequences only what order
\* needs: which element of the new sequence is which element of the old one.
LEMMA OmitFrame ==
    ASSUME NEW d, NEW q, NEW f, NEW n, NEW g, NEW k, NEW l \in Nat,
           Pipe(d, q, f, n), Len(f) = l, k \in 1 .. l, Len(g) = l - 1,
           \A i \in 1 .. l - 1 : g[i] = IF i < k THEN f[i] ELSE f[i + 1]
    PROVE  Pipe(d, q, g, n)
<1>1. FramesRise(g)
  BY DEF Pipe, FramesRise
<1>2. ReadThenFrames(d, g)
  BY SMTT(30) DEF Pipe, ReadThenFrames
<1>3. QueueThenFrames(q, g)
  BY DEF Pipe, QueueThenFrames
<1>4. AllWritten(d, q, g, n)
  BY DEF Pipe, AllWritten
<1>5. QED
  BY <1>1, <1>2, <1>3, <1>4, Zenon DEF Pipe

\* A frame appended at the sending end keeps the pipe in order.
LEMMA AddFrame ==
    ASSUME NEW d, NEW q, NEW f, NEW n \in Nat, NEW m \in Nat, NEW g, NEW l \in Nat,
           \A i \in 1 .. Len(d) : d[i] \in Nat,
           \A i \in 1 .. Len(q) : q[i].id \in Nat,
           \A i \in 1 .. l : f[i].id \in Nat,
           Pipe(d, q, f, n), n <= m, Len(f) = l, Len(g) = l + 1,
           \A i \in 1 .. l : g[i] = f[i],
           NEW c, g[l + 1] = c,
           c.type = "data" => c.id \in Nat /\ n < c.id /\ c.id <= m
    PROVE  Pipe(d, q, g, m)
<1> USE Zenon
<1>1. \A i \in 1 .. Len(g) : i \in 1 .. l \/ i = l + 1
  BY SMTT(30)
<1>2. FramesRise(g)
  <2> SUFFICES ASSUME NEW i \in 1 .. Len(g), NEW j \in 1 .. Len(g), i < j,
                      g[i].type = "data", g[j].type = "data"
               PROVE  g[i].id < g[j].id
    BY DEF FramesRise
  <2>1. i \in 1 .. l /\ g[i] = f[i] /\ f[i].id <= n /\ f[i].id \in Nat
    BY SMTT(30) DEF Pipe, AllWritten
  <2>2. CASE j = l + 1
    BY <2>1, <2>2, SMTT(30)
  <2>3. CASE j \in 1 .. l
    BY <2>1, <2>3 DEF Pipe, FramesRise
  <2>4. QED
    BY <1>1, <2>2, <2>3
<1>3. ReadThenFrames(d, g)
  <2> SUFFICES ASSUME NEW i \in 1 .. Len(d), NEW j \in 1 .. Len(g), g[j].type = "data"
               PROVE  d[i] < g[j].id
    BY DEF ReadThenFrames
  <2>1. d[i] \in Nat /\ d[i] <= n
    BY DEF Pipe, AllWritten
  <2>2. CASE j = l + 1
    BY <2>1, <2>2, SMTT(30)
  <2>3. CASE j \in 1 .. l
    BY <2>3 DEF Pipe, ReadThenFrames
  <2>4. QED
    BY <1>1, <2>2, <2>3
<1>4. QueueThenFrames(q, g)
  <2> SUFFICES ASSUME NEW i \in 1 .. Len(q), NEW j \in 1 .. Len(g), g[j].type = "data"
               PROVE  q[i].id < g[j].id
    BY DEF QueueThenFrames
  <2>1. q[i].id \in Nat /\ q[i].id <= n
    BY DEF Pipe, AllWritten
  <2>2. CASE j = l + 1
    BY <2>1, <2>2, SMTT(30)
  <2>3. CASE j \in 1 .. l
    BY <2>3 DEF Pipe, QueueThenFrames
  <2>4. QED
    BY <1>1, <2>2, <2>3
<1>5. AllWritten(d, q, g, m)
  <2>1. \A i \in 1 .. Len(d) : d[i] <= m
    BY SMTT(30) DEF Pipe, AllWritten
  <2>2. \A i \in 1 .. Len(q) : q[i].id <= m
    BY SMTT(30) DEF Pipe, AllWritten
  <2>3. \A i \in 1 .. l : f[i].type = "data" => f[i].id <= m
    BY SMTT(30) DEF Pipe, AllWritten
  <2>4. \A i \in 1 .. Len(g) : g[i].type = "data" => g[i].id <= m
    BY <1>1, <2>3
  <2>5. QED
    BY <2>1, <2>2, <2>4 DEF AllWritten
<1>6. QED
  BY <1>2, <1>3, <1>4, <1>5 DEF Pipe

\* A data frame that moves from the link to the read queue keeps the pipe in order.
LEMMA ShiftFrame ==
    ASSUME NEW d, NEW q, NEW f, NEW n, NEW p, NEW g, NEW k \in Nat, NEW l \in Nat,
           Pipe(d, q, f, n), Len(q) = k, Len(f) = l, l > 0, f[1].type = "data",
           Len(p) = k + 1, p[k + 1] = f[1], \A i \in 1 .. k : p[i] = q[i],
           Len(g) = l - 1, \A i \in 1 .. l - 1 : g[i] = f[i + 1]
    PROVE  Pipe(d, p, g, n)
<1>1. QueueRises(p)
  <2> SUFFICES ASSUME NEW i \in 1 .. Len(p), NEW j \in 1 .. Len(p), i < j
               PROVE  p[i].id < p[j].id
    BY Zenon DEF QueueRises
  <2>1. i \in 1 .. Len(q) /\ p[i] = q[i] /\ 1 \in 1 .. Len(f)
    OBVIOUS
  <2>2. CASE j = k + 1
    BY <2>1, <2>2, Zenon DEF Pipe, QueueThenFrames
  <2>3. CASE j # k + 1
    <3>1. j \in 1 .. Len(q) /\ p[j] = q[j]
      BY <2>3
    <3>2. QED
      BY <2>1, <3>1, Zenon DEF Pipe, QueueRises
  <2>4. QED
    BY <2>2, <2>3, Zenon
<1>2. FramesRise(g)
  BY DEF Pipe, FramesRise
<1>3. ReadThenQueue(d, p) /\ ReadThenFrames(d, g)
  <2>1. \A j \in 1 .. Len(p) : j \in 1 .. Len(q) \/ j = k + 1
    OBVIOUS
  <2>2. 1 \in 1 .. Len(f) /\ \A j \in 1 .. Len(g) : j + 1 \in 1 .. Len(f)
    OBVIOUS
  <2>3. ReadThenQueue(d, p)
    BY <2>1, <2>2, Zenon DEF Pipe, ReadThenQueue, ReadThenFrames
  <2>4. ReadThenFrames(d, g)
    BY <2>2, Zenon DEF Pipe, ReadThenFrames
  <2>5. QED
    BY <2>3, <2>4, Zenon
<1>4. QueueThenFrames(p, g)
  <2> SUFFICES ASSUME NEW i \in 1 .. k + 1, NEW j \in 1 .. l - 1, g[j].type = "data"
               PROVE  p[i].id < g[j].id
    BY Zenon DEF QueueThenFrames
  <2>1. g[j] = f[j + 1] /\ j + 1 \in 1 .. l
    OBVIOUS
  <2>2. CASE i = k + 1
    BY <2>1, <2>2 DEF Pipe, FramesRise
  <2>3. CASE i \in 1 .. k
    BY <2>1, <2>3, Zenon DEF Pipe, QueueThenFrames
  <2>4. QED
    BY <2>2, <2>3
<1>5. AllWritten(d, p, g, n)
  BY SMTT(30) DEF Pipe, AllWritten
<1>6. QED
  BY <1>1, <1>2, <1>3, <1>4, <1>5, Zenon DEF Pipe

\* A chunk that moves from the read queue to the reader keeps the pipe in order.
LEMMA ShiftChunk ==
    ASSUME NEW d, NEW q, NEW f, NEW n, NEW c, NEW p, NEW k \in Nat, NEW l \in Nat,
           Pipe(d, q, f, n), Len(d) = k, Len(q) = l, l > 0,
           Len(c) = k + 1, c[k + 1] = q[1].id, \A i \in 1 .. k : c[i] = d[i],
           Len(p) = l - 1, \A i \in 1 .. l - 1 : p[i] = q[i + 1]
    PROVE  Pipe(c, p, f, n)
<1>1. QueueRises(p)
  BY DEF Pipe, QueueRises
<1>2. ReadRises(c)
  <2> SUFFICES ASSUME NEW i \in 1 .. k + 1, NEW j \in 1 .. k + 1, i < j
               PROVE  c[i] < c[j]
    BY Zenon DEF ReadRises
  <2>1. i \in 1 .. k /\ c[i] = d[i]
    OBVIOUS
  <2>2. CASE j \in 1 .. k
    BY <2>1, <2>2, Zenon DEF Pipe, ReadRises
  <2>3. CASE j = k + 1
    BY <2>1, <2>3 DEF Pipe, ReadThenQueue
  <2>4. QED
    BY <2>2, <2>3
<1>3. ReadThenQueue(c, p)
  BY SMTT(30) DEF Pipe, QueueRises, ReadThenQueue
<1>4. ReadThenFrames(c, f) /\ QueueThenFrames(p, f)
  BY SMTT(30) DEF Pipe, ReadThenFrames, QueueThenFrames
<1>5. AllWritten(c, p, f, n)
  BY DEF Pipe, AllWritten
<1>6. QED
  BY <1>1, <1>2, <1>3, <1>4, <1>5, Zenon DEF Pipe

------------------------------------------------------------------------------
\* The same for the operations themselves.
LEMMA PipeEmpty ==
    ASSUME NEW d, NEW q, NEW f, NEW n, Pipe(d, q, f, n)
    PROVE  Pipe(d, q, <<>>, n)
BY DEF Pipe, FramesRise, ReadThenFrames, QueueThenFrames, AllWritten

\* Taking the first frame from the link keeps the pipe in order.
LEMMA PipeTail ==
    ASSUME NEW d, NEW q, NEW f \in Seq(Frames), NEW n, Pipe(d, q, f, n), f # <<>>
    PROVE  /\ Tail(f) \in Seq(Frames)
           /\ Pipe(d, q, Tail(f), n)
<1>1. /\ Tail(f) \in Seq(Frames) /\ Len(f) \in Nat /\ 1 \in 1 .. Len(f)
      /\ Len(Tail(f)) = Len(f) - 1
      /\ \A i \in 1 .. Len(f) - 1 : Tail(f)[i] = f[i + 1]
  OBVIOUS
<1>2. \A i \in 1 .. Len(f) - 1 : Tail(f)[i] = IF i < 1 THEN f[i] ELSE f[i + 1]
  BY <1>1
<1>3. QED
  BY <1>1, <1>2, OmitFrame, Zenon

\* The elements of a concatenation.
LEMMA Joined ==
    ASSUME NEW a \in Seq(Frames), NEW b \in Seq(Frames), NEW i \in 1 .. Len(a) + Len(b)
    PROVE  (a \o b)[i] = IF i <= Len(a) THEN a[i] ELSE b[i - Len(a)]
OBVIOUS

\* Which element of a sequence without its k-th is which.
LEMMA WithoutOne ==
    ASSUME NEW f \in Seq(Frames), NEW k \in DOMAIN f
    PROVE  /\ k \in 1 .. Len(f) /\ Without(f, k) \in Seq(Frames) /\ Len(Without(f, k)) = Len(f) - 1
           /\ \A i \in 1 .. Len(f) - 1 : Without(f, k)[i] = IF i < k THEN f[i] ELSE f[i + 1]
<1> DEFINE a == SubSeq(f, 1, k - 1)
           b == SubSeq(f, k + 1, Len(f))
           g == a \o b
<1>1. k \in 1 .. Len(f) /\ Len(f) \in Nat
  OBVIOUS
<1>2. a \in Seq(Frames) /\ Len(a) = k - 1 /\ \A i \in 1 .. k - 1 : a[i] = f[i]
  BY <1>1
<1>3. b \in Seq(Frames) /\ Len(b) = Len(f) - k /\ \A i \in 1 .. Len(f) - k : b[i] = f[k + i]
  BY <1>1
<1> HIDE DEF a, b
<1>4. g \in Seq(Frames) /\ Len(g) = Len(f) - 1
  BY <1>1, <1>2, <1>3
<1>5. ASSUME NEW i \in 1 .. Len(f) - 1
      PROVE  g[i] = IF i < k THEN f[i] ELSE f[i + 1]
  <2>1. i \in 1 .. Len(a) + Len(b)
    BY <1>1, <1>2, <1>3, SMTT(30)
  <2>2. g[i] = IF i <= Len(a) THEN a[i] ELSE b[i - Len(a)]
    BY <2>1, <1>2, <1>3, Joined, Zenon
  <2>3. CASE i < k
    BY <2>1, <2>2, <2>3, <1>1, <1>2
  <2>4. CASE ~ (i < k)
    <3>1. i - Len(a) \in 1 .. Len(f) - k /\ k + (i - Len(a)) = i + 1 /\ ~ (i <= Len(a))
      <4>1. PICK l \in Nat : l = Len(f)
        BY <1>1, Zenon
      <4>2. i \in 1 .. l - 1 /\ k \in 1 .. l
        BY <1>1, <4>1, Zenon
      <4> QED BY <2>4, <1>2, <4>1, <4>2
    <3>2. QED
      BY <3>1, <2>2, <2>4, <1>3, Zenon
  <2>5. QED
    BY <2>3, <2>4, Zenon
<1> HIDE DEF g
<1>6. QED
  BY <1>1, <1>4, <1>5, Zenon DEF Without, g, a, b

\* Losing any one frame keeps the pipe in order.
LEMMA PipeRemove ==
    ASSUME NEW d, NEW q, NEW f \in Seq(Frames), NEW n, Pipe(d, q, f, n), NEW k \in DOMAIN f
    PROVE  /\ Without(f, k) \in Seq(Frames)
           /\ Pipe(d, q, Without(f, k), n)
<1>1. Len(f) \in Nat
  OBVIOUS
<1>2. PICK g : g = Without(f, k)
  BY Zenon
<1>3. /\ k \in 1 .. Len(f) /\ g \in Seq(Frames) /\ Len(g) = Len(f) - 1
      /\ \A i \in 1 .. Len(f) - 1 : g[i] = IF i < k THEN f[i] ELSE f[i + 1]
  BY <1>2, WithoutOne, Zenon
<1>4. QED
  BY <1>1, <1>2, <1>3, OmitFrame, Zenon

\* A frame is sent: a control frame, or the data of the next write.
LEMMA PipeSend ==
    ASSUME NEW d \in Seq(Nat), NEW q \in Seq(Frames), NEW f \in Seq(Frames),
           NEW n \in Nat, NEW m \in Nat, Pipe(d, q, f, n), n <= m,
           NEW c \in Frames, c.type = "data" => n < c.id /\ c.id <= m
    PROVE  /\ Append(f, c) \in Seq(Frames)
           /\ Pipe(d, q, Append(f, c), m)
<1>1. /\ Append(f, c) \in Seq(Frames) /\ Len(f) \in Nat
      /\ Len(Append(f, c)) = Len(f) + 1 /\ Append(f, c)[Len(f) + 1] = c
      /\ \A i \in 1 .. Len(f) : Append(f, c)[i] = f[i]
  OBVIOUS
<1>2. \A i \in 1 .. Len(d) : d[i] \in Nat
  OBVIOUS
<1>3. \A i \in 1 .. Len(q) : q[i].id \in Nat
  BY FrameFields, Zenon
<1>4. \A i \in 1 .. Len(f) : f[i].id \in Nat
  BY FrameFields, Zenon
<1>5. c.id \in Nat
  BY Zenon DEF Frames
<1>6. QED
  BY <1>1, <1>2, <1>3, <1>4, <1>5, AddFrame, Zenon

\* The data of a write is lost: its number is used up all the same.
LEMMA PipeLose ==
    ASSUME NEW d \in Seq(Nat), NEW q \in Seq(Frames), NEW f \in Seq(Frames),
           NEW n \in Nat, Pipe(d, q, f, n)
    PROVE  Pipe(d, q, f, n + 1)
<1>1. \A i \in 1 .. Len(d) : d[i] \in Nat
  OBVIOUS
<1>2. \A i \in 1 .. Len(q) : q[i].id \in Nat
  BY FrameFields, Zenon
<1>3. \A i \in 1 .. Len(f) : f[i].id \in Nat
  BY FrameFields, Zenon
<1>4. AllWritten(d, q, f, n)
  BY Zenon DEF Pipe
<1>5. \A i \in 1 .. Len(d) : d[i] <= n + 1
  BY <1>1, <1>4 DEF AllWritten
<1>6. \A i \in 1 .. Len(q) : q[i].id <= n + 1
  BY <1>2, <1>4 DEF AllWritten
<1>7. \A i \in 1 .. Len(f) : f[i].type = "data" => f[i].id <= n + 1
  BY <1>3, <1>4 DEF AllWritten
<1>8. QED
  BY <1>5, <1>6, <1>7, Zenon DEF Pipe, AllWritten

\* Receive moves the first frame behind the queued chunks.
LEMMA PipeReceive ==
    ASSUME NEW d, NEW q \in Seq(Frames), NEW f \in Seq(Frames), NEW n,
           Pipe(d, q, f, n), f # <<>>, Head(f).type = "data"
    PROVE  /\ Append(q, Head(f)) \in Seq(Frames) /\ Tail(f) \in Seq(Frames)
           /\ Pipe(d, Append(q, Head(f)), Tail(f), n)
<1>1. /\ Tail(f) \in Seq(Frames) /\ Len(f) \in Nat /\ Len(f) > 0 /\ Head(f) = f[1]
      /\ Head(f) \in Frames /\ Len(Tail(f)) = Len(f) - 1
      /\ \A i \in 1 .. Len(f) - 1 : Tail(f)[i] = f[i + 1]
  OBVIOUS
<1>2. /\ Append(q, Head(f)) \in Seq(Frames) /\ Len(q) \in Nat
      /\ Len(Append(q, Head(f))) = Len(q) + 1 /\ Append(q, Head(f))[Len(q) + 1] = f[1]
      /\ \A i \in 1 .. Len(q) : Append(q, Head(f))[i] = q[i]
  BY <1>1
<1>3. QED
  BY <1>1, <1>2, ShiftFrame, Zenon

\* Read moves the first queued chunk behind the chunks already read.
LEMMA PipeRead ==
    ASSUME NEW d \in Seq(Nat), NEW q \in Seq(Frames), NEW f, NEW n,
           Pipe(d, q, f, n), q # <<>>
    PROVE  /\ Append(d, Head(q).id) \in Seq(Nat) /\ Tail(q) \in Seq(Frames)
           /\ Pipe(Append(d, Head(q).id), Tail(q), f, n)
<1> DEFINE c == Append(d, Head(q).id)
           p == Tail(q)
<1>1. /\ p \in Seq(Frames) /\ Len(q) \in Nat /\ Len(q) > 0 /\ Head(q) = q[1]
      /\ Len(p) = Len(q) - 1
      /\ \A i \in 1 .. Len(q) - 1 : p[i] = q[i + 1]
  OBVIOUS
<1>2. Head(q).id \in Nat
  BY <1>1, FrameFields
<1>3. /\ c \in Seq(Nat) /\ Len(d) \in Nat /\ Len(c) = Len(d) + 1
      /\ c[Len(d) + 1] = q[1].id
      /\ \A i \in 1 .. Len(d) : c[i] = d[i]
  BY <1>1, <1>2
<1> HIDE DEF c, p
<1>4. Pipe(c, p, f, n)
  BY <1>1, <1>3, ShiftChunk, Zenon
<1>5. QED
  BY <1>1, <1>3, <1>4, Zenon DEF c, p

------------------------------------------------------------------------------
IInv == TypeOK /\ Order

\* The two ends face each other.
LEMMA OtherEnd ==
    ASSUME NEW e \in Ends
    PROVE  Other(e) \in Ends /\ Other(e) # e /\ Other(Other(e)) = e
BY Zenon DEF Ends, Other

------------------------------------------------------------------------------
\* Control frames and acks are frames without data.
LEMMA ControlFrames ==
    /\ \A c \in Controls : Control(c) \in Frames /\ Control(c).type # "data"
    /\ \A n \in Nat : Ack(n) \in Frames /\ Ack(n).type # "data"
BY Zenon DEF Controls, Control, Ack, Frames

------------------------------------------------------------------------------
\* A new pair of streams has the types and nothing in the pipe.
LEMMA InitEstablishesIInv ==
    Init => IInv
<1> SUFFICES ASSUME Init PROVE IInv
  BY Zenon
<1>1. FlowTypes /\ ReadTypes /\ CloseTypes /\ LinkTypes /\ CallTypes /\ HistTypes
  BY DEF Init, FlowTypes, ReadTypes, CloseTypes, LinkTypes, CallTypes, HistTypes, Idle, Writers
<1>2. WriteMuHeld /\ FailedReads /\ PeerState
  BY Zenon DEF Init, WriteMuHeld, FailedReads, PeerState
<1>3. Order
  BY OtherEnd DEF Init, Order, Pipe, ReadRises, QueueRises, FramesRise, ReadThenQueue,
                  ReadThenFrames, QueueThenFrames, AllWritten
<1>4. QED
  BY <1>1, <1>2, <1>3, Zenon DEF IInv, TypeOK

\* Every step keeps the types and the order: first what the actions do, one by
\* one or in groups, then all of Next.
LEMMA Inductive ==
    IInv /\ [Next]_vars => IInv'
<1> USE Zenon
\* Steps that leave the pipe alone, and steps that lose whole channels.
<1>LosingStep. ASSUME Order, UNCHANGED <<delivered, readQueue, written>>,
                      \A e \in Ends : frames'[e] = frames[e] \/ frames'[e] = <<>>
               PROVE  Order'
  <2> USE <1>LosingStep
  <2> SUFFICES ASSUME NEW e \in Ends
               PROVE  Pipe(delivered[e], readQueue[e], frames'[e], written[Other(e)])
    BY DEF Order
  <2>1. Pipe(delivered[e], readQueue[e], frames[e], written[Other(e)])
    BY DEF Order
  <2>2. QED
    BY <2>1, PipeEmpty
\* Groups of variables an action leaves alone keep their part of TypeOK.
<1>Kept. ASSUME TypeOK
         PROVE  /\ UNCHANGED flowVars => FlowTypes'
                /\ UNCHANGED readVars => ReadTypes'
                /\ UNCHANGED <<writeClosed, closed>> => CloseTypes'
                /\ UNCHANGED linkVars => LinkTypes'
                /\ UNCHANGED callVars => CallTypes'
                /\ UNCHANGED histVars => HistTypes'
                /\ UNCHANGED <<op, wr, writeClosed>> => WriteMuHeld'
                /\ UNCHANGED <<closed, closedRead>> => FailedReads'
                /\ UNCHANGED <<peer, linkClosed, frames, rc>> => PeerState'
  <2> USE <1>Kept
  <2>1. UNCHANGED flowVars => FlowTypes'
    BY DEF TypeOK, FlowTypes, flowVars
  <2>2. UNCHANGED readVars => ReadTypes'
    BY DEF TypeOK, ReadTypes, readVars
  <2>3. UNCHANGED <<writeClosed, closed>> => CloseTypes'
    BY DEF TypeOK, CloseTypes
  <2>4. UNCHANGED linkVars => LinkTypes'
    BY DEF TypeOK, LinkTypes, linkVars
  <2>5. UNCHANGED callVars => CallTypes'
    BY DEF TypeOK, CallTypes, callVars
  <2>6. UNCHANGED histVars => HistTypes'
    BY DEF TypeOK, HistTypes, histVars
  <2>7. UNCHANGED <<op, wr, writeClosed>> => WriteMuHeld'
    BY DEF TypeOK, WriteMuHeld
  <2>8. UNCHANGED <<closed, closedRead>> => FailedReads'
    BY DEF TypeOK, FailedReads
  <2>9. UNCHANGED <<peer, linkClosed, frames, rc>> => PeerState'
    BY DEF TypeOK, PeerState
  <2>10. QED
    BY <2>1, <2>2, <2>3, <2>4, <2>5, <2>6, <2>7, <2>8, <2>9
\* Put, for anything but data: frames keeps its type, an end without a peer
\* gets nothing, and the order of the data is not disturbed.
<1>PutControl. ASSUME IInv, NEW e \in Ends, NEW c \in Frames, c.type # "data", Put(e, c),
                      UNCHANGED <<delivered, readQueue, written>>
               PROVE  /\ frames' \in [Ends -> Seq(Frames)]
                      /\ \A x \in Ends : peer[x] = "nil" => frames'[x] = frames[x]
                      /\ Order'
  <2> USE <1>PutControl
  <2>1. frames \in [Ends -> Seq(Frames)] /\ Other(e) \in Ends
    BY OtherEnd DEF IInv, TypeOK, LinkTypes, ReadTypes, HistTypes
  <2>2. CASE ~ Carries(e)
    BY <2>1, <2>2, <1>LosingStep DEF IInv, Put
  <2>3. CASE Carries(e)
    <3>1. frames' = [frames EXCEPT ![Other(e)] = Append(frames[Other(e)], c)]
      BY <2>3 DEF Put
    <3>2. frames' \in [Ends -> Seq(Frames)]
      BY <2>1, <3>1, SMTT(30)
    <3>3. \A x \in Ends : peer[x] = "nil" => frames'[x] = frames[x]
      BY <2>1, <2>3, <3>1 DEF Carries
    <3>4. ASSUME NEW x \in Ends
          PROVE  Pipe(delivered[x], readQueue[x], frames'[x], written[Other(x)])
      <4>1. /\ delivered[x] \in Seq(Nat) /\ readQueue[x] \in Seq(Frames)
            /\ frames[x] \in Seq(Frames) /\ written[Other(x)] \in Nat
        BY OtherEnd DEF IInv, TypeOK, LinkTypes, ReadTypes, HistTypes
      <4>2. Pipe(delivered[x], readQueue[x], frames[x], written[Other(x)])
        BY DEF IInv, Order
      <4>3. frames'[x] = frames[x] \/ frames'[x] = Append(frames[x], c)
        BY <2>1, <3>1
      <4>4. written[Other(x)] <= written[Other(x)]
        BY <4>1, SMTT(30)
      <4>5. QED
        BY <4>1, <4>2, <4>3, <4>4, PipeSend
    <3>5. QED
      BY <3>2, <3>3, <3>4 DEF Order
  <2>4. QED
    BY <2>2, <2>3
\* Actions that leave the pipe alone or empty the frames of an end.
<1>QuietStep. ASSUME IInv, NEW e \in Ends
              PROVE  /\ \A n \in Sizes : WriteBegin(e, n) => IInv'
                     /\ \A call \in {"CloseWrite", "Close"} : CloseWrite(e, call) => IInv'
                     /\ WriteAdmit(e) \/ WriteAbandon(e) \/ WriteFail(e) => IInv'
                     /\ FailFinish(e) \/ ReadPart(e) \/ PeerClose(e) => IInv'
                     /\ Attach(e) \/ ReconnectedReset(e) \/ CloseFail(e) \/ Reset(e) => IInv'
                     /\ Detach(e) \/ ReconnectedFail(e) \/ ClosePeer(e) \/ ReceiveOverflow(e) => IInv'
                     /\ GraceExpires(e) \/ GaveUp(e) => IInv'
  <2> USE <1>QuietStep
  <2>1. ASSUME NEW n \in Sizes, WriteBegin(e, n) PROVE IInv'
    <3>1. CallTypes'
      BY <2>1, SizesAssumption DEF IInv, TypeOK, CallTypes, WriteBegin, Writers
    <3>2. WriteMuHeld'
      BY <2>1 DEF IInv, TypeOK, WriteMuHeld, CallTypes, CloseTypes, WriteBegin, WriteMuFree, Writers
    <3>3. FlowTypes' /\ ReadTypes' /\ CloseTypes' /\ LinkTypes' /\ HistTypes'
      BY <2>1, <1>Kept DEF IInv, WriteBegin
    <3>4. FailedReads' /\ PeerState'
      BY <2>1, <1>Kept, ZenonT(30) DEF IInv, WriteBegin, readVars, linkVars, callVars
    <3>5. Order'
      <4>1. \A x \in Ends : frames'[x] = frames[x] \/ frames'[x] = <<>>
        BY <2>1 DEF IInv, TypeOK, LinkTypes, WriteBegin, linkVars
      <4>2. QED
        BY <2>1, <4>1, <1>LosingStep DEF IInv, WriteBegin, readVars, histVars
    <3>6. QED
      BY <3>1, <3>2, <3>3, <3>4, <3>5 DEF IInv, TypeOK
  <2>2. ASSUME NEW call \in {"CloseWrite", "Close"}, CloseWrite(e, call) PROVE IInv'
    <3>1. CloseTypes'
      BY <2>2 DEF IInv, TypeOK, CloseTypes, CloseWrite, WriteMuFree
    <3>2. CallTypes'
      BY <2>2 DEF IInv, TypeOK, CallTypes, CloseWrite, WriteMuFree
    <3>3. WriteMuHeld'
      <4>1. op'[e] \in {"eof", "closeEof"} => wr[e].pc = "idle" /\ writeClosed'[e]
        BY <2>2 DEF IInv, TypeOK, CallTypes, CloseTypes, CloseWrite, WriteMuFree
      <4>2. \A x \in Ends \ {e} : op'[x] = op[x] /\ writeClosed'[x] = writeClosed[x]
        BY <2>2 DEF IInv, TypeOK, CallTypes, CloseTypes, CloseWrite
      <4>3. QED
        BY <2>2, <4>1, <4>2 DEF IInv, TypeOK, WriteMuHeld, CloseWrite
    <3>4. FlowTypes' /\ ReadTypes' /\ LinkTypes' /\ HistTypes'
      BY <2>2, <1>Kept DEF IInv, CloseWrite
    <3>5. FailedReads' /\ PeerState'
      BY <2>2, <1>Kept, ZenonT(30) DEF IInv, CloseWrite, readVars, linkVars, callVars
    <3>6. Order'
      <4>1. \A x \in Ends : frames'[x] = frames[x] \/ frames'[x] = <<>>
        BY <2>2 DEF IInv, TypeOK, LinkTypes, CloseWrite, linkVars
      <4>2. QED
        BY <2>2, <4>1, <1>LosingStep DEF IInv, CloseWrite, readVars, histVars
    <3>7. QED
      BY <3>1, <3>2, <3>3, <3>4, <3>5, <3>6 DEF IInv, TypeOK
  <2>3. ASSUME WriteAdmit(e) PROVE IInv'
    <3>1. FlowTypes'
      BY <2>3, SMTT(30) DEF IInv, TypeOK, FlowTypes, CallTypes, Writers, WriteAdmit
    <3>2. CallTypes'
      BY <2>3 DEF IInv, TypeOK, FlowTypes, CallTypes, Writers, WriteAdmit
    <3>3. WriteMuHeld'
      BY <2>3 DEF IInv, TypeOK, WriteMuHeld, CallTypes, CloseTypes, WriteAdmit, Writers
    <3>4. ReadTypes' /\ CloseTypes' /\ LinkTypes' /\ HistTypes'
      BY <2>3, <1>Kept DEF IInv, WriteAdmit
    <3>5. FailedReads' /\ PeerState'
      BY <2>3, <1>Kept DEF IInv, WriteAdmit, readVars, linkVars, callVars
    <3>6. Order'
      <4>1. \A x \in Ends : frames'[x] = frames[x] \/ frames'[x] = <<>>
        BY <2>3 DEF IInv, TypeOK, LinkTypes, WriteAdmit, linkVars
      <4>2. QED
        BY <2>3, <4>1, <1>LosingStep DEF IInv, WriteAdmit, readVars, histVars
    <3>7. QED
      BY <3>1, <3>2, <3>3, <3>4, <3>5, <3>6 DEF IInv, TypeOK
  <2>4. ASSUME WriteAbandon(e) PROVE IInv'
    <3>1. CallTypes'
      BY <2>4 DEF IInv, TypeOK, CallTypes, WriteAbandon, Idle, Writers
    <3>2. WriteMuHeld'
      BY <2>4 DEF IInv, TypeOK, WriteMuHeld, CallTypes, CloseTypes, WriteAbandon, Idle, Writers
    <3>3. FlowTypes' /\ ReadTypes' /\ CloseTypes' /\ LinkTypes' /\ HistTypes'
      BY <2>4, <1>Kept DEF IInv, WriteAbandon
    <3>4. FailedReads' /\ PeerState'
      BY <2>4, <1>Kept DEF IInv, WriteAbandon, readVars, linkVars, callVars
    <3>5. Order'
      <4>1. \A x \in Ends : frames'[x] = frames[x] \/ frames'[x] = <<>>
        BY <2>4 DEF IInv, TypeOK, LinkTypes, WriteAbandon, linkVars
      <4>2. QED
        BY <2>4, <4>1, <1>LosingStep DEF IInv, WriteAbandon, readVars, histVars
    <3>6. QED
      BY <3>1, <3>2, <3>3, <3>4, <3>5 DEF IInv, TypeOK
  <2>5. ASSUME WriteFail(e) PROVE IInv'
    <3>1. FlowTypes'
      BY <2>5, SMTT(30) DEF IInv, TypeOK, FlowTypes, CallTypes, Writers, WriteFail, Less
    <3>2. CallTypes'
      BY <2>5 DEF IInv, TypeOK, CallTypes, WriteFail, Idle, Writers
    <3>3. WriteMuHeld'
      BY <2>5 DEF IInv, TypeOK, WriteMuHeld, CallTypes, CloseTypes, WriteFail, Idle, Writers
    <3>4. ReadTypes' /\ CloseTypes' /\ LinkTypes' /\ HistTypes'
      BY <2>5, <1>Kept DEF IInv, WriteFail
    <3>5. FailedReads' /\ PeerState'
      BY <2>5, <1>Kept, ZenonT(30) DEF IInv, WriteFail, readVars, linkVars, callVars
    <3>6. Order'
      <4>1. \A x \in Ends : frames'[x] = frames[x] \/ frames'[x] = <<>>
        BY <2>5 DEF IInv, TypeOK, LinkTypes, WriteFail, linkVars
      <4>2. QED
        BY <2>5, <4>1, <1>LosingStep DEF IInv, WriteFail, readVars, histVars
    <3>7. QED
      BY <3>1, <3>2, <3>3, <3>4, <3>5, <3>6 DEF IInv, TypeOK
  <2>6. ASSUME FailFinish(e) PROVE IInv'
    <3>1. CloseTypes'
      BY <2>6 DEF IInv, TypeOK, CloseTypes, FailFinish, callVars
    <3>2. WriteMuHeld'
      BY <2>6 DEF IInv, TypeOK, WriteMuHeld, CallTypes, CloseTypes, FailFinish, callVars
    <3>3. FlowTypes' /\ ReadTypes' /\ LinkTypes' /\ CallTypes' /\ HistTypes'
      BY <2>6, <1>Kept DEF IInv, FailFinish
    <3>4. FailedReads' /\ PeerState'
      BY <2>6, <1>Kept DEF IInv, FailFinish, readVars, linkVars, callVars
    <3>5. Order'
      <4>1. \A x \in Ends : frames'[x] = frames[x] \/ frames'[x] = <<>>
        BY <2>6 DEF IInv, TypeOK, LinkTypes, FailFinish, linkVars
      <4>2. QED
        BY <2>6, <4>1, <1>LosingStep DEF IInv, FailFinish, readVars, histVars
    <3>6. QED
      BY <3>1, <3>2, <3>3, <3>4, <3>5 DEF IInv, TypeOK
  <2>7. ASSUME ReadPart(e) PROVE IInv'
    <3>1. ReadTypes'
      BY <2>7, SMTT(30) DEF IInv, TypeOK, ReadTypes, ReadPart
    <3>2. FlowTypes' /\ CloseTypes' /\ LinkTypes' /\ CallTypes' /\ HistTypes'
      BY <2>7, <1>Kept DEF IInv, ReadPart
    <3>3. WriteMuHeld' /\ FailedReads' /\ PeerState'
      BY <2>7, <1>Kept DEF IInv, ReadPart, readVars, linkVars, callVars
    <3>4. Order'
      <4>1. \A x \in Ends : frames'[x] = frames[x] \/ frames'[x] = <<>>
        BY <2>7 DEF IInv, TypeOK, LinkTypes, ReadPart, linkVars
      <4>2. QED
        BY <2>7, <4>1, <1>LosingStep DEF IInv, ReadPart, readVars, histVars
    <3>5. QED
      BY <3>1, <3>2, <3>3, <3>4 DEF IInv, TypeOK
  <2>8. ASSUME PeerClose(e) PROVE IInv'
    <3>1. LinkTypes'
      BY <2>8 DEF IInv, TypeOK, LinkTypes, PeerClose, callVars
    <3>2. HistTypes'
      BY <2>8, SMTT(30) DEF IInv, TypeOK, HistTypes, PeerClose, callVars
    <3>3. PeerState'
      BY <2>8 DEF IInv, TypeOK, PeerState, LinkTypes, CallTypes, PeerClose, callVars
    <3>4. FlowTypes' /\ ReadTypes' /\ CloseTypes' /\ CallTypes'
      BY <2>8, <1>Kept DEF IInv, PeerClose
    <3>5. WriteMuHeld' /\ FailedReads'
      BY <2>8, <1>Kept DEF IInv, PeerClose, readVars, linkVars, callVars
    <3>6. Order'
      <4>1. \A x \in Ends : frames'[x] = frames[x] \/ frames'[x] = <<>>
        BY <2>8 DEF IInv, TypeOK, LinkTypes, PeerClose, linkVars
      <4>2. QED
        BY <2>8, <4>1, <1>LosingStep DEF IInv, PeerClose, readVars, histVars
    <3>7. QED
      BY <3>1, <3>2, <3>3, <3>4, <3>5, <3>6 DEF IInv, TypeOK
  <2>9. ASSUME Attach(e) PROVE IInv'
    <3>1. LinkTypes'
      BY <2>9 DEF IInv, TypeOK, LinkTypes, Attach
    <3>2. CallTypes'
      BY <2>9 DEF IInv, TypeOK, CallTypes, Attach
    <3>3. PeerState'
      BY <2>9 DEF IInv, TypeOK, PeerState, LinkTypes, CallTypes, Attach
    <3>4. FlowTypes' /\ ReadTypes' /\ CloseTypes' /\ HistTypes'
      BY <2>9, <1>Kept DEF IInv, Attach
    <3>5. WriteMuHeld' /\ FailedReads'
      BY <2>9, <1>Kept DEF IInv, Attach, readVars, linkVars, callVars
    <3>6. Order'
      <4>1. \A x \in Ends : frames'[x] = frames[x] \/ frames'[x] = <<>>
        BY <2>9 DEF IInv, TypeOK, LinkTypes, Attach, linkVars
      <4>2. QED
        BY <2>9, <4>1, <1>LosingStep DEF IInv, Attach, readVars, histVars
    <3>7. QED
      BY <3>1, <3>2, <3>3, <3>4, <3>5, <3>6 DEF IInv, TypeOK
  <2>10. ASSUME ReconnectedReset(e) PROVE IInv'
    <3>1. FlowTypes'
      BY <2>10 DEF IInv, TypeOK, FlowTypes, ReconnectedReset, linkVars
    <3>2. CallTypes'
      BY <2>10 DEF IInv, TypeOK, CallTypes, ReconnectedReset, linkVars
    <3>3. HistTypes'
      BY <2>10, SMTT(30) DEF IInv, TypeOK, FlowTypes, HistTypes, ReconnectedReset
    <3>4. PeerState'
      BY <2>10 DEF IInv, TypeOK, PeerState, LinkTypes, CallTypes, ReconnectedReset, linkVars
    <3>5. ReadTypes' /\ CloseTypes' /\ LinkTypes'
      BY <2>10, <1>Kept DEF IInv, ReconnectedReset
    <3>6. WriteMuHeld' /\ FailedReads'
      BY <2>10, <1>Kept DEF IInv, ReconnectedReset, readVars, linkVars, callVars
    <3>7. Order'
      <4>1. \A x \in Ends : frames'[x] = frames[x] \/ frames'[x] = <<>>
        BY <2>10 DEF IInv, TypeOK, LinkTypes, ReconnectedReset, linkVars
      <4>2. QED
        BY <2>10, <4>1, <1>LosingStep DEF IInv, ReconnectedReset, readVars, histVars
    <3>8. QED
      BY <3>1, <3>2, <3>3, <3>4, <3>5, <3>6, <3>7 DEF IInv, TypeOK
  <2>11. ASSUME CloseFail(e) PROVE IInv'
    <3>1. ReadTypes'
      BY <2>11 DEF IInv, TypeOK, ReadTypes, CloseFail, Fail
    <3>2. CloseTypes'
      BY <2>11 DEF IInv, TypeOK, CloseTypes, CloseFail, Fail
    <3>3. CallTypes'
      BY <2>11 DEF IInv, TypeOK, CallTypes, CloseFail, Fail
    <3>4. WriteMuHeld'
      BY <2>11 DEF IInv, TypeOK, WriteMuHeld, CallTypes, CloseTypes, CloseFail, Fail
    <3>5. FailedReads'
      BY <2>11 DEF IInv, TypeOK, FailedReads, ReadTypes, CloseTypes, CloseFail, Fail
    <3>6. FlowTypes' /\ LinkTypes' /\ HistTypes'
      BY <2>11, <1>Kept DEF IInv, CloseFail
    <3>7. PeerState'
      BY <2>11, <1>Kept DEF IInv, CloseFail, readVars, linkVars, callVars
    <3>8. Order'
      <4>1. \A x \in Ends : frames'[x] = frames[x] \/ frames'[x] = <<>>
        BY <2>11 DEF IInv, TypeOK, LinkTypes, CloseFail, linkVars
      <4>2. QED
        BY <2>11, <4>1, <1>LosingStep DEF IInv, CloseFail, readVars, histVars
    <3>9. QED
      BY <3>1, <3>2, <3>3, <3>4, <3>5, <3>6, <3>7, <3>8 DEF IInv, TypeOK
  <2>12. ASSUME Reset(e) PROVE IInv'
    <3>1. ReadTypes'
      BY <2>12 DEF IInv, TypeOK, ReadTypes, Reset, Fail
    <3>2. CloseTypes'
      BY <2>12 DEF IInv, TypeOK, CloseTypes, Reset, Fail
    <3>3. CallTypes'
      BY <2>12 DEF IInv, TypeOK, CallTypes, Reset, Fail
    <3>4. WriteMuHeld'
      BY <2>12 DEF IInv, TypeOK, WriteMuHeld, CallTypes, CloseTypes, Reset, Fail
    <3>5. FailedReads'
      BY <2>12 DEF IInv, TypeOK, FailedReads, ReadTypes, CloseTypes, Reset, Fail
    <3>6. FlowTypes' /\ LinkTypes' /\ HistTypes'
      BY <2>12, <1>Kept DEF IInv, Reset
    <3>7. PeerState'
      BY <2>12, <1>Kept, ZenonT(30) DEF IInv, Reset, readVars, linkVars, callVars
    <3>8. Order'
      <4>1. \A x \in Ends : frames'[x] = frames[x] \/ frames'[x] = <<>>
        BY <2>12 DEF IInv, TypeOK, LinkTypes, Reset, linkVars
      <4>2. QED
        BY <2>12, <4>1, <1>LosingStep DEF IInv, Reset, readVars, histVars
    <3>9. QED
      BY <3>1, <3>2, <3>3, <3>4, <3>5, <3>6, <3>7, <3>8 DEF IInv, TypeOK
  <2>13. ASSUME Detach(e) PROVE IInv'
    <3>1. LinkTypes'
      BY <2>13, SMTT(30) DEF IInv, TypeOK, LinkTypes, Detach, callVars
    <3>2. PeerState'
      BY <2>13 DEF IInv, TypeOK, PeerState, LinkTypes, CallTypes, Detach, callVars
    <3>3. FlowTypes' /\ ReadTypes' /\ CloseTypes' /\ CallTypes' /\ HistTypes'
      BY <2>13, <1>Kept DEF IInv, Detach
    <3>4. WriteMuHeld' /\ FailedReads'
      BY <2>13, <1>Kept DEF IInv, Detach, readVars, linkVars, callVars
    <3>5. Order'
      <4>1. \A x \in Ends : frames'[x] = frames[x] \/ frames'[x] = <<>>
        BY <2>13 DEF IInv, TypeOK, LinkTypes, Detach, linkVars
      <4>2. QED
        BY <2>13, <4>1, <1>LosingStep DEF IInv, Detach, readVars, histVars
    <3>6. QED
      BY <3>1, <3>2, <3>3, <3>4, <3>5 DEF IInv, TypeOK
  <2>14. ASSUME ReconnectedFail(e) PROVE IInv'
    <3>1. ReadTypes'
      BY <2>14 DEF IInv, TypeOK, ReadTypes, ReconnectedFail, Fail, LinkClose
    <3>2. CloseTypes'
      BY <2>14 DEF IInv, TypeOK, CloseTypes, ReconnectedFail, Fail, LinkClose
    <3>3. LinkTypes'
      BY <2>14, SMTT(30) DEF IInv, TypeOK, LinkTypes, ReconnectedFail, Fail, LinkClose
    <3>4. CallTypes'
      BY <2>14 DEF IInv, TypeOK, CallTypes, ReconnectedFail, Fail, LinkClose
    <3>5. FailedReads'
      BY <2>14 DEF IInv, TypeOK, FailedReads, ReadTypes, CloseTypes, ReconnectedFail, Fail, LinkClose
    <3>6. PeerState'
      BY <2>14, SMTT(30) DEF IInv, TypeOK, PeerState, LinkTypes, CallTypes, ReconnectedFail, Fail, LinkClose
    <3>7. FlowTypes' /\ HistTypes'
      BY <2>14, <1>Kept DEF IInv, ReconnectedFail
    <3>8. WriteMuHeld'
      BY <2>14, <1>Kept DEF IInv, ReconnectedFail, readVars, linkVars, callVars
    <3>9. Order'
      <4>1. \A x \in Ends : frames'[x] = frames[x] \/ frames'[x] = <<>>
        BY <2>14 DEF IInv, TypeOK, LinkTypes, ReconnectedFail, LinkClose, linkVars
      <4>2. QED
        BY <2>14, <4>1, <1>LosingStep DEF IInv, ReconnectedFail, readVars, histVars
    <3>10. QED
      BY <3>1, <3>2, <3>3, <3>4, <3>5, <3>6, <3>7, <3>8, <3>9 DEF IInv, TypeOK
  <2>15. ASSUME ClosePeer(e) PROVE IInv'
    <3>1. LinkTypes'
      BY <2>15, SMTT(30) DEF IInv, TypeOK, LinkTypes, ClosePeer, LinkClose
    <3>2. CallTypes'
      BY <2>15 DEF IInv, TypeOK, CallTypes, ClosePeer, LinkClose
    <3>3. WriteMuHeld'
      BY <2>15 DEF IInv, TypeOK, WriteMuHeld, CallTypes, CloseTypes, ClosePeer, LinkClose
    <3>4. PeerState'
      BY <2>15 DEF IInv, TypeOK, PeerState, LinkTypes, CallTypes, ClosePeer, LinkClose
    <3>5. FlowTypes' /\ ReadTypes' /\ CloseTypes' /\ HistTypes'
      BY <2>15, <1>Kept DEF IInv, ClosePeer
    <3>6. FailedReads'
      BY <2>15, <1>Kept DEF IInv, ClosePeer, readVars, linkVars, callVars
    <3>7. Order'
      <4>1. \A x \in Ends : frames'[x] = frames[x] \/ frames'[x] = <<>>
        BY <2>15 DEF IInv, TypeOK, LinkTypes, ClosePeer, LinkClose, linkVars
      <4>2. QED
        BY <2>15, <4>1, <1>LosingStep DEF IInv, ClosePeer, readVars, histVars
    <3>8. QED
      BY <3>1, <3>2, <3>3, <3>4, <3>5, <3>6, <3>7 DEF IInv, TypeOK
  <2>16. ASSUME ReceiveOverflow(e) PROVE IInv'
    <3>1. ReadTypes'
      BY <2>16 DEF IInv, TypeOK, ReadTypes, ReceiveOverflow, Ready, Fail, callVars
    <3>2. CloseTypes'
      BY <2>16 DEF IInv, TypeOK, CloseTypes, ReceiveOverflow, Ready, Fail, callVars
    <3>3. LinkTypes'
      BY <2>16, SMTT(30) DEF IInv, TypeOK, LinkTypes, ReceiveOverflow, Ready, Fail, callVars
    <3>4. HistTypes'
      BY <2>16, SMTT(30) DEF IInv, TypeOK, HistTypes, ReceiveOverflow, Ready, Fail, callVars
    <3>5. FailedReads'
      BY <2>16 DEF IInv, TypeOK, FailedReads, ReadTypes, CloseTypes, ReceiveOverflow, Ready, Fail, callVars
    <3>6. PeerState'
      BY <2>16, SMTT(30) DEF IInv, TypeOK, PeerState, LinkTypes, CallTypes, ReceiveOverflow, Ready, Fail, callVars
    <3>7. FlowTypes' /\ CallTypes'
      BY <2>16, <1>Kept DEF IInv, ReceiveOverflow
    <3>8. WriteMuHeld'
      BY <2>16, <1>Kept DEF IInv, ReceiveOverflow, readVars, linkVars, callVars
    <3>9. Order'
      <4>1. \A x \in Ends : frames'[x] = frames[x] \/ frames'[x] = <<>>
        BY <2>16 DEF IInv, TypeOK, LinkTypes, ReceiveOverflow, linkVars
      <4>2. QED
        BY <2>16, <4>1, <1>LosingStep, ZenonT(30) DEF IInv, ReceiveOverflow, readVars, histVars
    <3>10. QED
      BY <3>1, <3>2, <3>3, <3>4, <3>5, <3>6, <3>7, <3>8, <3>9 DEF IInv, TypeOK
  <2>17. ASSUME GraceExpires(e) PROVE IInv'
    <3>1. ReadTypes'
      BY <2>17 DEF IInv, TypeOK, ReadTypes, GraceExpires, Fail
    <3>2. CloseTypes'
      BY <2>17 DEF IInv, TypeOK, CloseTypes, GraceExpires, Fail
    <3>3. CallTypes'
      BY <2>17 DEF IInv, TypeOK, CallTypes, GraceExpires
    <3>4. FailedReads'
      BY <2>17 DEF IInv, TypeOK, FailedReads, ReadTypes, CloseTypes, GraceExpires, Fail
    <3>5. PeerState'
      BY <2>17 DEF IInv, TypeOK, PeerState, LinkTypes, CallTypes, GraceExpires, linkVars
    <3>6. FlowTypes' /\ LinkTypes' /\ HistTypes'
      BY <2>17, <1>Kept DEF IInv, GraceExpires
    <3>7. WriteMuHeld'
      BY <2>17, <1>Kept DEF IInv, GraceExpires
    <3>8. Order'
      <4>1. \A x \in Ends : frames'[x] = frames[x] \/ frames'[x] = <<>>
        BY <2>17 DEF GraceExpires, linkVars
      <4>2. QED
        BY <2>17, <4>1, <1>LosingStep DEF IInv, GraceExpires, histVars
    <3>9. QED
      BY <3>1, <3>2, <3>3, <3>4, <3>5, <3>6, <3>7, <3>8 DEF IInv, TypeOK
  <2>18. ASSUME GaveUp(e) PROVE IInv'
    <3>1. LinkTypes'
      BY <2>18, SMTT(30) DEF IInv, TypeOK, LinkTypes, GaveUp, LinkClose
    <3>2. CallTypes'
      BY <2>18 DEF IInv, TypeOK, CallTypes, GaveUp
    <3>3. PeerState'
      BY <2>18, SMTT(30) DEF IInv, TypeOK, PeerState, LinkTypes, CallTypes, GaveUp, LinkClose
    <3>4. FlowTypes' /\ ReadTypes' /\ CloseTypes' /\ HistTypes'
      BY <2>18, <1>Kept DEF IInv, GaveUp
    <3>5. WriteMuHeld' /\ FailedReads'
      BY <2>18, <1>Kept DEF IInv, GaveUp, readVars
    <3>6. Order'
      <4>1. \A x \in Ends : frames'[x] = frames[x] \/ frames'[x] = <<>>
        BY <2>18 DEF IInv, TypeOK, LinkTypes, GaveUp, LinkClose
      <4>2. QED
        BY <2>18, <4>1, <1>LosingStep DEF IInv, GaveUp, readVars, histVars
    <3>7. QED
      BY <3>1, <3>2, <3>3, <3>4, <3>5, <3>6 DEF IInv, TypeOK
  <2>19. QED
    BY <2>1, <2>2, <2>3, <2>4, <2>5, <2>6, <2>7, <2>8, <2>9, <2>10, <2>11, <2>12, <2>13, <2>14, <2>15,
       <2>16, <2>17, <2>18
\* Actions that send a control frame.
<1>SendingStep. ASSUME IInv, NEW e \in Ends
                PROVE  /\ \A n \in Sizes : SendAck(e, n) => IInv'
                       /\ SendFlow(e) \/ ReconnectedSend(e) \/ SendEof(e) \/ SendAbort(e) => IInv'
  <2> USE <1>SendingStep
  <2>1. ASSUME NEW n \in Sizes, SendAck(e, n) PROVE IInv'
    <3>1. Ack(n) \in Frames /\ Ack(n).type # "data"
      BY SizesAssumption, ControlFrames
    <3>2. /\ frames' \in [Ends -> Seq(Frames)] /\ Order'
          /\ \A x \in Ends : peer[x] = "nil" => frames'[x] = frames[x]
      BY <2>1, <3>1, <1>PutControl DEF SendAck, readVars, histVars
    <3>3. LinkTypes'
      BY <2>1, <3>2 DEF IInv, TypeOK, LinkTypes, SendAck
    <3>4. CallTypes'
      BY <2>1, SizesAssumption, SMTT(30) DEF IInv, TypeOK, CallTypes, SendAck
    <3>5. PeerState'
      BY <2>1, <3>2 DEF IInv, TypeOK, PeerState, SendAck
    <3>6. FlowTypes' /\ ReadTypes' /\ CloseTypes' /\ HistTypes'
      BY <2>1, <1>Kept DEF IInv, SendAck
    <3>7. WriteMuHeld' /\ FailedReads'
      BY <2>1, <1>Kept DEF IInv, SendAck, readVars, linkVars, callVars
    <3>8. Order'
      BY <3>2
    <3>9. QED
      BY <3>3, <3>4, <3>5, <3>6, <3>7, <3>8 DEF IInv, TypeOK
  <2>2. ASSUME SendFlow(e) PROVE IInv'
    <3>1. Control("flow") \in Frames /\ Control("flow").type # "data"
      BY ControlFrames DEF Controls
    <3>2. /\ frames' \in [Ends -> Seq(Frames)] /\ Order'
          /\ \A x \in Ends : peer[x] = "nil" => frames'[x] = frames[x]
      BY <2>2, <3>1, <1>PutControl DEF SendFlow, readVars, histVars
    <3>3. LinkTypes'
      BY <2>2, <3>2 DEF IInv, TypeOK, LinkTypes, SendFlow
    <3>4. CallTypes'
      BY <2>2 DEF IInv, TypeOK, CallTypes, SendFlow
    <3>5. PeerState'
      BY <2>2, <3>2 DEF IInv, TypeOK, PeerState, SendFlow
    <3>6. FlowTypes' /\ ReadTypes' /\ CloseTypes' /\ HistTypes'
      BY <2>2, <1>Kept DEF IInv, SendFlow
    <3>7. WriteMuHeld' /\ FailedReads'
      BY <2>2, <1>Kept DEF IInv, SendFlow, readVars, linkVars, callVars
    <3>8. Order'
      BY <3>2
    <3>9. QED
      BY <3>3, <3>4, <3>5, <3>6, <3>7, <3>8 DEF IInv, TypeOK
  <2>3. ASSUME ReconnectedSend(e) PROVE IInv'
    <3>1. Control(rc[e]) \in Frames /\ Control(rc[e]).type # "data"
      BY <2>3, ControlFrames DEF ReconnectedSend, Controls
    <3>2. /\ frames' \in [Ends -> Seq(Frames)] /\ Order'
          /\ \A x \in Ends : peer[x] = "nil" => frames'[x] = frames[x]
      BY <2>3, <3>1, <1>PutControl DEF ReconnectedSend, readVars, histVars
    <3>3. LinkTypes'
      BY <2>3, <3>2 DEF IInv, TypeOK, LinkTypes, ReconnectedSend
    <3>4. CallTypes'
      BY <2>3, SMTT(30) DEF IInv, TypeOK, CallTypes, ReconnectedSend
    <3>5. PeerState'
      <4>1. \A x \in Ends : rc'[x] # "none" => rc[x] # "none"
        BY <2>3 DEF IInv, TypeOK, CallTypes, ReconnectedSend
      <4>2. QED
        BY <2>3, <3>2, <4>1, SMTT(30) DEF IInv, TypeOK, PeerState, ReconnectedSend
    <3>6. FlowTypes' /\ ReadTypes' /\ CloseTypes' /\ HistTypes'
      BY <2>3, <1>Kept DEF IInv, ReconnectedSend
    <3>7. WriteMuHeld' /\ FailedReads'
      BY <2>3, <1>Kept DEF IInv, ReconnectedSend, readVars, linkVars, callVars
    <3>8. Order'
      BY <3>2
    <3>9. QED
      BY <3>3, <3>4, <3>5, <3>6, <3>7, <3>8 DEF IInv, TypeOK
  <2>4. ASSUME SendEof(e) PROVE IInv'
    <3>1. Control("eof") \in Frames /\ Control("eof").type # "data"
      BY ControlFrames DEF Controls
    <3>2. /\ frames' \in [Ends -> Seq(Frames)] /\ Order'
          /\ \A x \in Ends : peer[x] = "nil" => frames'[x] = frames[x]
      BY <2>4, <3>1, <1>PutControl DEF SendEof, readVars, histVars
    <3>3. LinkTypes'
      BY <2>4, <3>2 DEF IInv, TypeOK, LinkTypes, SendEof
    <3>4. CallTypes'
      BY <2>4 DEF IInv, TypeOK, CallTypes, SendEof
    <3>5. WriteMuHeld'
      BY <2>4 DEF IInv, TypeOK, WriteMuHeld, CallTypes, CloseTypes, SendEof
    <3>6. PeerState'
      BY <2>4, <3>2 DEF IInv, TypeOK, PeerState, SendEof
    <3>7. FlowTypes' /\ ReadTypes' /\ CloseTypes' /\ HistTypes'
      BY <2>4, <1>Kept DEF IInv, SendEof
    <3>8. FailedReads'
      BY <2>4, <1>Kept DEF IInv, SendEof, readVars, linkVars, callVars
    <3>9. Order'
      BY <3>2
    <3>10. QED
      BY <3>3, <3>4, <3>5, <3>6, <3>7, <3>8, <3>9 DEF IInv, TypeOK
  <2>5. ASSUME SendAbort(e) PROVE IInv'
    <3>1. Control("abort") \in Frames /\ Control("abort").type # "data"
      BY ControlFrames DEF Controls
    <3>2. /\ frames' \in [Ends -> Seq(Frames)] /\ Order'
          /\ \A x \in Ends : peer[x] = "nil" => frames'[x] = frames[x]
      BY <2>5, <3>1, <1>PutControl DEF SendAbort, readVars, histVars
    <3>3. LinkTypes'
      BY <2>5, <3>2 DEF IInv, TypeOK, LinkTypes, SendAbort
    <3>4. CallTypes'
      BY <2>5 DEF IInv, TypeOK, CallTypes, SendAbort
    <3>5. WriteMuHeld'
      <4>1. \A x \in Ends : op'[x] \in {"eof", "closeEof"} => op[x] \in {"eof", "closeEof"}
        BY <2>5 DEF IInv, TypeOK, CallTypes, SendAbort
      <4>2. QED
        BY <2>5, <4>1 DEF IInv, TypeOK, WriteMuHeld, SendAbort
    <3>6. PeerState'
      BY <2>5, <3>2 DEF IInv, TypeOK, PeerState, SendAbort
    <3>7. FlowTypes' /\ ReadTypes' /\ CloseTypes' /\ HistTypes'
      BY <2>5, <1>Kept DEF IInv, SendAbort
    <3>8. FailedReads'
      BY <2>5, <1>Kept DEF IInv, SendAbort, readVars, linkVars, callVars
    <3>9. Order'
      BY <3>2
    <3>10. QED
      BY <3>3, <3>4, <3>5, <3>6, <3>7, <3>8, <3>9 DEF IInv, TypeOK
  <2>6. QED
    BY <2>1, <2>2, <2>3, <2>4, <2>5
\* Taking the first frame away.
<1>TakeFrame. ASSUME IInv, NEW e \in Ends, frames[e] # <<>>,
                     frames' = [frames EXCEPT ![e] = Tail(@)],
                     UNCHANGED <<delivered, readQueue, written>>
              PROVE  /\ frames' \in [Ends -> Seq(Frames)] /\ Order'
                     /\ \A x \in Ends : frames[x] = <<>> => frames'[x] = <<>>
  <2> USE <1>TakeFrame
  <2>1. frames \in [Ends -> Seq(Frames)]
    BY DEF IInv, TypeOK, LinkTypes
  <2>2. \A x \in Ends : Pipe(delivered[x], readQueue[x], frames[x], written[Other(x)])
    BY DEF IInv, Order
  <2>3. /\ Tail(frames[e]) \in Seq(Frames)
        /\ Pipe(delivered[e], readQueue[e], Tail(frames[e]), written[Other(e)])
    BY <2>1, <2>2, PipeTail
  <2>4. frames' \in [Ends -> Seq(Frames)]
    BY <2>1, <2>3
  <2>5. \A x \in Ends : frames[x] = <<>> => frames'[x] = <<>>
    BY <2>1
  <2>6. \A x \in Ends : Pipe(delivered[x], readQueue[x], frames'[x], written[Other(x)])
    BY <2>1, <2>2, <2>3
  <2>7. QED
    BY <2>4, <2>5, <2>6 DEF Order
\* Receive of a control frame other than resume.
<1>ControlStep. ASSUME IInv, NEW e \in Ends
                PROVE  ReceiveEof(e) \/ ReceiveAbort(e) \/ ReceiveFlow(e) \/ ReceiveAck(e) => IInv'
  <2> USE <1>ControlStep
  <2>1. ASSUME ReceiveEof(e) PROVE IInv'
    <3>1. /\ frames' \in [Ends -> Seq(Frames)] /\ Order'
          /\ \A x \in Ends : frames[x] = <<>> => frames'[x] = <<>>
      BY <2>1, <1>TakeFrame DEF ReceiveEof, Receiving, Ready, readVars, histVars
    <3>2. ReadTypes'
      BY <2>1 DEF IInv, TypeOK, ReadTypes, ReceiveEof
    <3>3. LinkTypes'
      BY <2>1, <3>1 DEF IInv, TypeOK, LinkTypes, ReceiveEof
    <3>4. FailedReads'
      BY <2>1 DEF IInv, TypeOK, FailedReads, ReadTypes, CloseTypes, ReceiveEof
    <3>5. PeerState'
      BY <2>1, <3>1 DEF IInv, TypeOK, PeerState, ReceiveEof, callVars
    <3>6. FlowTypes' /\ CloseTypes' /\ CallTypes' /\ HistTypes'
      BY <2>1, <1>Kept DEF IInv, ReceiveEof
    <3>7. WriteMuHeld'
      BY <2>1, <1>Kept DEF IInv, ReceiveEof, readVars, linkVars, callVars
    <3>8. Order'
      BY <3>1
    <3>9. QED
      BY <3>2, <3>3, <3>4, <3>5, <3>6, <3>7, <3>8 DEF IInv, TypeOK
  <2>2. ASSUME ReceiveAbort(e) PROVE IInv'
    <3>1. /\ frames' \in [Ends -> Seq(Frames)] /\ Order'
          /\ \A x \in Ends : frames[x] = <<>> => frames'[x] = <<>>
      BY <2>2, <1>TakeFrame DEF ReceiveAbort, Receiving, Ready, readVars, histVars
    <3>2. ReadTypes'
      BY <2>2 DEF IInv, TypeOK, ReadTypes, ReceiveAbort, Fail
    <3>3. CloseTypes'
      BY <2>2 DEF IInv, TypeOK, CloseTypes, ReceiveAbort, Fail
    <3>4. LinkTypes'
      BY <2>2, <3>1 DEF IInv, TypeOK, LinkTypes, ReceiveAbort
    <3>5. FailedReads'
      BY <2>2 DEF IInv, TypeOK, FailedReads, ReadTypes, CloseTypes, ReceiveAbort, Fail
    <3>6. PeerState'
      BY <2>2, <3>1 DEF IInv, TypeOK, PeerState, ReceiveAbort, callVars
    <3>7. FlowTypes' /\ CallTypes' /\ HistTypes'
      BY <2>2, <1>Kept DEF IInv, ReceiveAbort
    <3>8. WriteMuHeld'
      BY <2>2, <1>Kept DEF IInv, ReceiveAbort, readVars, linkVars, callVars
    <3>9. Order'
      BY <3>1
    <3>10. QED
      BY <3>2, <3>3, <3>4, <3>5, <3>6, <3>7, <3>8, <3>9 DEF IInv, TypeOK
  <2>3. ASSUME ReceiveFlow(e) PROVE IInv'
    <3>1. /\ frames' \in [Ends -> Seq(Frames)] /\ Order'
          /\ \A x \in Ends : frames[x] = <<>> => frames'[x] = <<>>
      BY <2>3, <1>TakeFrame DEF ReceiveFlow, Receiving, Ready, readVars, histVars
    <3>2. FlowTypes'
      BY <2>3 DEF IInv, TypeOK, FlowTypes, ReceiveFlow
    <3>3. LinkTypes'
      BY <2>3, <3>1 DEF IInv, TypeOK, LinkTypes, ReceiveFlow
    <3>4. PeerState'
      BY <2>3, <3>1 DEF IInv, TypeOK, PeerState, ReceiveFlow, callVars
    <3>5. ReadTypes' /\ CloseTypes' /\ CallTypes' /\ HistTypes'
      BY <2>3, <1>Kept DEF IInv, ReceiveFlow
    <3>6. WriteMuHeld' /\ FailedReads'
      BY <2>3, <1>Kept DEF IInv, ReceiveFlow, readVars, linkVars, callVars
    <3>7. Order'
      BY <3>1
    <3>8. QED
      BY <3>2, <3>3, <3>4, <3>5, <3>6, <3>7 DEF IInv, TypeOK
  <2>4. ASSUME ReceiveAck(e) PROVE IInv'
    <3>1. /\ frames' \in [Ends -> Seq(Frames)] /\ Order'
          /\ \A x \in Ends : frames[x] = <<>> => frames'[x] = <<>>
      BY <2>4, <1>TakeFrame DEF ReceiveAck, Receiving, Ready, readVars, histVars
    <3>2. FlowTypes'
      <4>1. Head(frames[e]).len \in Nat
        BY <2>4, HeadFrame DEF IInv, TypeOK, LinkTypes, ReceiveAck, Receiving, Ready
      <4>2. inFlight \in [Ends -> Nat]
        BY DEF IInv, TypeOK, FlowTypes
      <4>3. Less(inFlight[e], Head(frames[e]).len) \in Nat
        BY <4>1, <4>2, SMTT(30) DEF Less
      <4>4. QED
        BY <2>4, <4>2, <4>3 DEF IInv, TypeOK, FlowTypes, ReceiveAck
    <3>3. LinkTypes'
      BY <2>4, <3>1 DEF IInv, TypeOK, LinkTypes, ReceiveAck
    <3>4. PeerState'
      BY <2>4, <3>1 DEF IInv, TypeOK, PeerState, ReceiveAck, callVars
    <3>5. ReadTypes' /\ CloseTypes' /\ CallTypes' /\ HistTypes'
      BY <2>4, <1>Kept DEF IInv, ReceiveAck
    <3>6. WriteMuHeld' /\ FailedReads'
      BY <2>4, <1>Kept DEF IInv, ReceiveAck, readVars, linkVars, callVars
    <3>7. Order'
      BY <3>1
    <3>8. QED
      BY <3>2, <3>3, <3>4, <3>5, <3>6, <3>7 DEF IInv, TypeOK
  <2>5. QED
    BY <2>1, <2>2, <2>3, <2>4
\* Receive of resume: the frame goes, and flow:1 is sent.
<1>ResumeStep. ASSUME IInv, NEW e \in Ends, ReceiveResume(e)
               PROVE  IInv'
  <2> USE <1>ResumeStep
  <2>1. /\ frames \in [Ends -> Seq(Frames)] /\ inFlight \in [Ends -> Nat]
        /\ writtenOff \in [Ends -> Nat] /\ frames[e] # <<>>
    BY SMTT(30) DEF IInv, TypeOK, LinkTypes, FlowTypes, HistTypes, ReceiveResume, Ready
  <2>2. ASSUME NEW x \in Ends
        PROVE  /\ frames'[x] \in Seq(Frames)
               /\ peer[x] = "nil" /\ frames[x] = <<>> => frames'[x] = <<>>
               /\ Pipe(delivered[x], readQueue[x], frames'[x], written[Other(x)])
    <3>1. Pipe(delivered[x], readQueue[x], frames[x], written[Other(x)])
      BY DEF IInv, Order
    <3>2. /\ delivered[x] \in Seq(Nat) /\ readQueue[x] \in Seq(Frames)
          /\ written[Other(x)] \in Nat /\ written[Other(x)] <= written[Other(x)]
      <4>1. delivered[x] \in Seq(Nat) /\ readQueue[x] \in Seq(Frames) /\ written[Other(x)] \in Nat
        BY OtherEnd DEF IInv, TypeOK, ReadTypes, HistTypes
      <4>2. QED
        BY <4>1, SMTT(30)
    <3>3. CASE x = e
      <4>1. frames'[x] = Tail(frames[x])
        BY <3>3 DEF ReceiveResume
      <4>2. QED
        BY <2>1, <3>1, <3>3, <4>1, PipeTail
    <3>4. CASE x # e /\ Carries(e)
      <4>1. frames'[x] = Append(frames[x], Control("flow")) /\ peer[x] # "nil"
        BY <3>4 DEF ReceiveResume, Carries, Ends, Other
      <4>2. Control("flow") \in Frames /\ Control("flow").type # "data"
        BY ControlFrames DEF Controls
      <4>3. QED
        BY <2>1, <3>1, <3>2, <4>1, <4>2, PipeSend
    <3>5. CASE x # e /\ ~ Carries(e)
      <4>1. frames'[x] = frames[x]
        BY <3>5 DEF ReceiveResume
      <4>2. QED
        BY <2>1, <3>1, <4>1
    <3>6. QED
      BY <3>3, <3>4, <3>5
  <2>3. frames' \in [Ends -> Seq(Frames)]
    BY <2>2 DEF ReceiveResume
  <2>4. inFlight' \in [Ends -> Nat] /\ writtenOff' \in [Ends -> Nat]
    BY <2>1, SMTT(30) DEF ReceiveResume
  <2>5. FlowTypes' /\ LinkTypes' /\ HistTypes'
    BY <2>3, <2>4, SMTT(30) DEF IInv, TypeOK, FlowTypes, LinkTypes, HistTypes, ReceiveResume
  <2>6. /\ ReadTypes' /\ CloseTypes' /\ CallTypes'
        /\ WriteMuHeld' /\ FailedReads'
    BY <1>Kept DEF IInv, ReceiveResume, readVars, callVars
  <2>7. PeerState'
    BY <2>2, SMTT(30) DEF IInv, TypeOK, PeerState, ReceiveResume, callVars
  <2>8. Order'
    BY <2>2, SMTT(30) DEF Order, ReceiveResume, readVars
  <2>9. QED
    BY <2>5, <2>6, <2>7, <2>8 DEF IInv, TypeOK
\* Receive of data: the chunk is queued, or dropped by a stream that has ended.
<1>DataStep. ASSUME IInv, NEW e \in Ends, ReceiveData(e)
             PROVE  IInv'
  <2> USE <1>DataStep
  <2>1. /\ frames \in [Ends -> Seq(Frames)] /\ readQueue \in [Ends -> Seq(Frames)]
        /\ readQueued \in [Ends -> Int] /\ frames[e] # <<>> /\ Head(frames[e]).type = "data"
        /\ frames' = [frames EXCEPT ![e] = Tail(@)]
    BY DEF IInv, TypeOK, LinkTypes, ReadTypes, ReceiveData, Receiving, Ready
  <2>5. /\ FlowTypes' /\ CloseTypes' /\ CallTypes' /\ HistTypes'
        /\ WriteMuHeld' /\ FailedReads'
    BY <1>Kept DEF IInv, ReceiveData, callVars
  <2>2. CASE UNCHANGED <<readQueue, readQueued>>
    <3>1. /\ frames' \in [Ends -> Seq(Frames)] /\ Order'
          /\ \A x \in Ends : frames[x] = <<>> => frames'[x] = <<>>
      BY <2>1, <2>2, <1>TakeFrame DEF ReceiveData, histVars
    <3>2. ReadTypes'
      BY <2>2 DEF IInv, TypeOK, ReadTypes, ReceiveData
    <3>3. LinkTypes' /\ PeerState'
      BY <3>1 DEF IInv, TypeOK, LinkTypes, PeerState, ReceiveData, callVars
    <3>4. QED
      BY <2>5, <3>1, <3>2, <3>3 DEF IInv, TypeOK
  <2>3. CASE /\ readQueue' = [readQueue EXCEPT ![e] = Append(@, Head(frames[e]))]
             /\ readQueued' = [readQueued EXCEPT ![e] = @ + Head(frames[e]).len]
    <3>1. Head(frames[e]) \in Frames /\ Head(frames[e]).len \in Nat
      BY <2>1, HeadFrame, SMTT(30)
    <3>2. ASSUME NEW x \in Ends
          PROVE  /\ frames'[x] \in Seq(Frames) /\ readQueue'[x] \in Seq(Frames)
                 /\ frames[x] = <<>> => frames'[x] = <<>>
                 /\ Pipe(delivered[x], readQueue'[x], frames'[x], written[Other(x)])
      <4>1. Pipe(delivered[x], readQueue[x], frames[x], written[Other(x)])
        BY DEF IInv, Order
      <4>2. CASE x = e
        <5>1. frames'[x] = Tail(frames[x]) /\ readQueue'[x] = Append(readQueue[x], Head(frames[x]))
          BY <2>1, <2>3, <4>2
        <5>2. QED
          BY <2>1, <4>1, <4>2, <5>1, PipeReceive, SMTT(30)
      <4>3. CASE x # e
        BY <2>1, <2>3, <4>1, <4>3
      <4>4. QED
        BY <4>2, <4>3
    <3>3. /\ frames' \in [Ends -> Seq(Frames)] /\ readQueue' \in [Ends -> Seq(Frames)]
          /\ readQueued' \in [Ends -> Int]
      BY <2>1, <2>3, <3>1, <3>2, SMTT(30)
    <3>4. ReadTypes'
      BY <3>3, SMTT(30) DEF IInv, TypeOK, ReadTypes, ReceiveData
    <3>5. LinkTypes' /\ PeerState'
      BY <3>2, <3>3, SMTT(30) DEF IInv, TypeOK, LinkTypes, PeerState, ReceiveData, callVars
    <3>6. Order'
      BY <3>2 DEF Order, ReceiveData, histVars
    <3>7. QED
      BY <2>5, <3>4, <3>5, <3>6 DEF IInv, TypeOK
  <2>6. QED
    BY <2>2, <2>3 DEF ReceiveData
\* Read consumes the first queued chunk.
<1>ReadStep. ASSUME IInv, NEW e \in Ends, Read(e)
             PROVE  IInv'
  <2> USE <1>ReadStep
  <2>1. /\ readQueue \in [Ends -> Seq(Frames)] /\ readQueue[e] # <<>>
        /\ readQueued \in [Ends -> Int] /\ readOffset \in [Ends -> Nat]
        /\ delivered \in [Ends -> Seq(Nat)] /\ pendAck \in [Ends -> [Sizes -> Nat]]
        /\ readQueue' = [readQueue EXCEPT ![e] = Tail(@)]
        /\ delivered' = [delivered EXCEPT ![e] = Append(@, Head(readQueue[e]).id)]
    BY SMTT(30) DEF IInv, TypeOK, ReadTypes, HistTypes, CallTypes, Read, Taken
  <2>2. Head(readQueue[e]).len \in Nat
    BY <2>1, HeadFrame
  <2>3. ASSUME NEW x \in Ends
        PROVE  /\ readQueue'[x] \in Seq(Frames) /\ delivered'[x] \in Seq(Nat)
               /\ Pipe(delivered'[x], readQueue'[x], frames[x], written[Other(x)])
    <3>1. Pipe(delivered[x], readQueue[x], frames[x], written[Other(x)])
      BY DEF IInv, Order
    <3>2. CASE x = e
      <4>1. /\ readQueue'[x] = Tail(readQueue[x])
            /\ delivered'[x] = Append(delivered[x], Head(readQueue[x]).id)
        BY <2>1, <3>2
      <4>2. QED
        BY <2>1, <3>1, <3>2, <4>1, PipeRead
    <3>3. CASE x # e
      BY <2>1, <3>1, <3>3
    <3>4. QED
      BY <3>2, <3>3
  <2>4. readQueue' \in [Ends -> Seq(Frames)] /\ delivered' \in [Ends -> Seq(Nat)]
    BY <2>1, <2>3
  <2>5. readQueued' \in [Ends -> Int] /\ readOffset' \in [Ends -> Nat]
    BY <2>1, <2>2, SMTT(30) DEF Read, Freed
  <2>6. pendAck' \in [Ends -> [Sizes -> Nat]]
    <3>1. pendAck[e] \in [Sizes -> Nat]
      BY <2>1
    <3>2. ASSUME NEW acks \in [Sizes -> Nat], NEW n
          PROVE  AckLater(acks, n) \in [Sizes -> Nat]
      <4>1. \A m \in Sizes : acks[m] + 1 \in Nat
        BY SMTT(30)
      <4>2. CASE n \in Sizes
        BY <4>1, <4>2 DEF AckLater
      <4>3. CASE n \notin Sizes
        BY <4>3 DEF AckLater
      <4>4. QED
        BY <4>2, <4>3
    <3>3. pendAck' = [pendAck EXCEPT ![e] = AckLater(pendAck[e], Head(readQueue[e]).len)]
      BY DEF Read
    <3>4. AckLater(pendAck[e], Head(readQueue[e]).len) \in [Sizes -> Nat]
      BY <3>1, <3>2
    <3>5. QED
      BY <2>1, <3>3, <3>4
  <2>7. ReadTypes' /\ HistTypes' /\ CallTypes'
    BY <2>4, <2>5, <2>6, SMTT(30) DEF IInv, TypeOK, ReadTypes, HistTypes, CallTypes, Read
  <2>8. /\ FlowTypes' /\ CloseTypes' /\ LinkTypes'
        /\ WriteMuHeld' /\ FailedReads' /\ PeerState'
    BY <1>Kept DEF IInv, Read, linkVars
  <2>9. Order'
    BY <2>3 DEF Order, Read, linkVars
  <2>10. QED
    BY <2>7, <2>8, <2>9 DEF IInv, TypeOK
\* link.Send takes the data of a write.
<1>WriteSendStep. ASSUME IInv, NEW e \in Ends, WriteSend(e)
                  PROVE  IInv'
  <2> USE <1>WriteSendStep
  <2> DEFINE c == Data(written[e] + 1, wr[e].len)
  <2>1. /\ frames \in [Ends -> Seq(Frames)] /\ written \in [Ends -> Nat]
        /\ early \in [Ends -> Nat] /\ wr[e].len \in Nat /\ Other(e) \in Ends
    BY OtherEnd DEF IInv, TypeOK, LinkTypes, HistTypes, CallTypes, Writers
  <2>2. c \in Frames /\ c.id = written[e] + 1
    <3>1. written[e] + 1 \in Nat
      BY <2>1, SMTT(30)
    <3>2. \A i, n \in Nat : Data(i, n) \in Frames /\ Data(i, n).id = i
      BY DEF Data, Frames
    <3>3. QED
      BY <2>1, <3>1, <3>2, SMTT(30)
  <2>3. written' = [written EXCEPT ![e] = @ + 1] /\ written' \in [Ends -> Nat]
    BY <2>1, SMTT(30) DEF WriteSend
  <2>4. early' \in [Ends -> Nat]
    BY <2>1, SMTT(30) DEF WriteSend
  <2>5. frames' = IF Carries(e) THEN [frames EXCEPT ![Other(e)] = Append(frames[Other(e)], c)]
                                ELSE frames
    BY DEF WriteSend, Put
  <2> HIDE DEF c
  <2>6. ASSUME NEW x \in Ends
        PROVE  /\ frames'[x] \in Seq(Frames)
               /\ peer[x] = "nil" => frames'[x] = frames[x]
               /\ Pipe(delivered[x], readQueue[x], frames'[x], written'[Other(x)])
    <3>1. Pipe(delivered[x], readQueue[x], frames[x], written[Other(x)])
      BY DEF IInv, Order
    <3>2. delivered[x] \in Seq(Nat) /\ readQueue[x] \in Seq(Frames)
      BY SMTT(30) DEF IInv, TypeOK, ReadTypes, HistTypes
    <3>3. CASE x = e
      <4>1. frames'[x] = frames[x] /\ written'[Other(x)] = written[Other(x)]
        BY <2>1, <2>3, <2>5, <3>3, OtherEnd, SMTT(30)
      <4>2. QED
        BY <2>1, <3>1, <4>1, SMTT(30)
    <3>4. CASE x # e
      <4>1. x = Other(e) /\ Other(x) = e
        BY <3>4, SMTT(30) DEF Ends, Other
      <4>2. written'[Other(x)] = written[Other(x)] + 1 /\ written[Other(x)] \in Nat
        BY <2>1, <2>3, <4>1
      <4>3. CASE ~ Carries(e)
        <5>1. frames'[x] = frames[x]
          BY <2>5, <4>3
        <5>2. QED
          BY <2>1, <3>1, <3>2, <4>2, <5>1, PipeLose
      <4>4. CASE Carries(e)
        <5>1. frames'[x] = Append(frames[x], c) /\ peer[x] # "nil"
          BY <2>1, <2>5, <4>1, <4>4 DEF Carries
        <5>2. /\ written[Other(x)] + 1 \in Nat /\ written[Other(x)] <= written[Other(x)] + 1
              /\ written[Other(x)] < c.id /\ c.id <= written[Other(x)] + 1
          BY <2>2, <4>1, <4>2, SMTT(30)
        <5>3. /\ Append(frames[x], c) \in Seq(Frames)
              /\ Pipe(delivered[x], readQueue[x], Append(frames[x], c), written[Other(x)] + 1)
          <6>1. frames[x] \in Seq(Frames)
            BY <2>1, SMTT(30)
          <6>2. QED
            BY <2>2, <3>1, <3>2, <4>2, <5>2, <6>1, PipeSend
        <5>4. QED
          BY <4>2, <5>1, <5>3
      <4>5. QED
        BY <4>3, <4>4
    <3>5. QED
      BY <3>3, <3>4
  <2>7. frames' \in [Ends -> Seq(Frames)]
    BY <2>1, <2>5, <2>6
  <2>8. LinkTypes' /\ HistTypes' /\ CallTypes'
    <3>1. wr' \in [Ends -> Writers]
      BY DEF IInv, TypeOK, CallTypes, WriteSend, Idle, Writers
    <3>2. QED
      BY <2>3, <2>4, <2>7, <3>1
         DEF IInv, TypeOK, LinkTypes, HistTypes, CallTypes, WriteSend
  <2>9. WriteMuHeld' /\ PeerState'
    <3>1. \A x \in Ends : wr[x].pc = "idle" => wr'[x].pc = "idle"
      BY DEF IInv, TypeOK, CallTypes, WriteSend, Idle
    <3>2. WriteMuHeld'
      BY <3>1 DEF IInv, TypeOK, WriteMuHeld, WriteSend
    <3>3. PeerState'
      BY <2>6 DEF IInv, TypeOK, PeerState, WriteSend
    <3>4. QED
      BY <3>2, <3>3
  <2>10. Order'
    BY <2>6 DEF Order, WriteSend, readVars
  <2>11. FlowTypes' /\ ReadTypes' /\ CloseTypes' /\ FailedReads'
    BY <1>Kept DEF IInv, WriteSend, readVars
  <2>12. QED
    BY <2>8, <2>9, <2>10, <2>11 DEF IInv, TypeOK
\* select drops a frame that arrives after the peer has closed.
<1>DropStep. ASSUME IInv, NEW e \in Ends, DropFrame(e)
             PROVE  IInv'
  <2> USE <1>DropStep
  <2>1. frames \in [Ends -> Seq(Frames)]
    BY DEF IInv, TypeOK, LinkTypes
  <2>2. PICK i \in DOMAIN frames[e] : frames' = [frames EXCEPT ![e] = Without(frames[e], i)]
    BY DEF DropFrame
  <2>3. frames[e] # <<>>
    BY <2>1, <2>2, SMTT(30)
  <2>4. ASSUME NEW x \in Ends
        PROVE  /\ frames'[x] \in Seq(Frames)
               /\ frames[x] = <<>> => frames'[x] = <<>>
               /\ Pipe(delivered[x], readQueue[x], frames'[x], written[Other(x)])
    <3>1. Pipe(delivered[x], readQueue[x], frames[x], written[Other(x)])
      BY DEF IInv, Order
    <3>2. CASE x = e
      <4>1. frames'[x] = Without(frames[x], i) /\ frames[x] \in Seq(Frames) /\ i \in DOMAIN frames[x]
        BY <2>1, <2>2, <3>2
      <4>2. QED
        BY <2>3, <3>1, <3>2, <4>1, PipeRemove, ZenonT(30)
    <3>3. CASE x # e
      BY <2>1, <2>2, <3>1, <3>3, SMTT(30)
    <3>4. QED
      BY <3>2, <3>3
  <2>5. frames' \in [Ends -> Seq(Frames)]
    <3> DEFINE r == Without(frames[e], i)
    <3>1. frames' = [frames EXCEPT ![e] = r]
      BY <2>2
    <3> HIDE DEF r
    <3>2. frames'[e] = r
      BY <2>1, <3>1
    <3>3. frames'[e] \in Seq(Frames)
      BY <2>4
    <3>4. QED
      BY <2>1, <3>1, <3>2, <3>3
  <2>6. LinkTypes' /\ PeerState'
    BY <2>4, <2>5 DEF IInv, TypeOK, LinkTypes, PeerState, DropFrame, callVars
  <2>7. /\ FlowTypes' /\ ReadTypes' /\ CloseTypes' /\ CallTypes' /\ HistTypes'
        /\ WriteMuHeld' /\ FailedReads'
    BY <1>Kept DEF IInv, DropFrame, readVars, callVars
  <2>8. Order'
    BY <2>4 DEF Order, DropFrame, readVars, histVars
  <2>9. QED
    BY <2>6, <2>7, <2>8 DEF IInv, TypeOK
<1>DialStep. ASSUME IInv, Dial
             PROVE  IInv'
  <2> USE <1>DialStep
  <2>1. LinkTypes' /\ PeerState'
    BY DEF IInv, TypeOK, LinkTypes, PeerState, Dial, callVars
  <2>2. /\ FlowTypes' /\ ReadTypes' /\ CloseTypes' /\ CallTypes' /\ HistTypes'
        /\ WriteMuHeld' /\ FailedReads'
    BY <1>Kept DEF IInv, Dial, readVars, callVars
  <2>3. \A x \in Ends : frames'[x] = frames[x] \/ frames'[x] = <<>>
    BY DEF Dial
  <2>4. Order'
    BY <2>3, <1>LosingStep DEF IInv, Dial, readVars, histVars
  <2>5. QED
    BY <2>1, <2>2, <2>4 DEF IInv, TypeOK
<1> SUFFICES ASSUME IInv, [Next]_vars PROVE IInv'
  OBVIOUS
<1>1. CASE UNCHANGED vars
  <2>1. UNCHANGED <<flowVars, readVars, writeClosed, closed, linkVars, callVars, histVars>>
    BY <1>1 DEF vars
  <2>2. TypeOK'
    BY <2>1, <1>Kept DEF IInv, TypeOK, readVars, linkVars, callVars
  <2>4. Order'
    BY <2>1, <1>LosingStep DEF IInv, readVars, linkVars, histVars
  <2>5. QED
    BY <2>2, <2>4 DEF IInv
<1>2. CASE Dial
  BY <1>2, <1>DialStep
<1>3. ASSUME NEW e \in Ends, Environment(e) PROVE IInv'
  BY <1>3, <1>QuietStep, SMTT(30) DEF Environment
<1>4. ASSUME NEW e \in Ends, Progress(e) PROVE IInv'
  BY <1>4, <1>QuietStep, <1>SendingStep, <1>ControlStep, <1>ResumeStep, <1>DataStep, <1>ReadStep,
     <1>WriteSendStep, <1>DropStep, SMTT(30) DEF Progress, Receive
<1>5. QED
  BY <1>1, <1>2, <1>3, <1>4 DEF Next

\* The types of the variables and the lock discipline of stream.go, for every
\* window, queue limit, workload and number of lost channels.
THEOREM TypeCorrect == Spec => []TypeOK
<1>1. IInv => TypeOK
  BY Zenon DEF IInv
<1>2. QED
  BY InitEstablishesIInv, Inductive, <1>1, PTL DEF Spec

\* Whatever channels are lost, redialled and attached, and whatever frames are
\* dropped with them, Read returns the chunks of the other end's successful
\* writes in the order of those writes and none of them twice.
THEOREM Ordered == Spec => []InOrder
<1>1. IInv => InOrder
  <2> SUFFICES ASSUME IInv, NEW e \in Ends, NEW i \in DOMAIN delivered[e],
                      NEW j \in DOMAIN delivered[e], i < j
               PROVE  delivered[e][i] < delivered[e][j]
    BY Zenon DEF InOrder
  <2>1. ReadRises(delivered[e])
    BY Zenon DEF IInv, Order, Pipe
  <2>2. delivered[e] \in Seq(Nat)
    BY Zenon DEF IInv, TypeOK, HistTypes
  <2>3. i \in 1 .. Len(delivered[e]) /\ j \in 1 .. Len(delivered[e])
    BY <2>2
  <2>4. QED
    BY <2>1, <2>3, Zenon DEF ReadRises
<1>2. QED
  BY InitEstablishesIInv, Inductive, <1>1, PTL DEF Spec

------------------------------------------------------------------------------
\* The bound on the counter: the writer waiting for credit has a value of one of
\* the sizes, and it is admitted when the pipe is empty or the window has room.
Admissible ==
    /\ FlowTypes /\ CallTypes
    /\ \A e \in Ends : wr[e].pc = "flow" => wr[e].len \in Sizes
    /\ CounterWithinWindow

\* Every step keeps Admissible: credit lowers the counter, and only an admitted
\* writer raises it.
LEMMA AdmissibleStep ==
    IInv /\ Admissible /\ IInv' /\ [Next]_vars => Admissible'
<1> USE Zenon
<1>LessLowers. ASSUME NEW a \in Nat, NEW b \in Nat
               PROVE  Less(a, b) \in Nat /\ Less(a, b) <= a
  BY <1>LessLowers, SMTT(30) DEF Less
<1>CounterFalls. ASSUME Admissible, inFlight' \in [Ends -> Nat],
                        \A x \in Ends : inFlight'[x] <= inFlight[x]
                 PROVE  CounterWithinWindow'
  <2> USE <1>CounterFalls
  <2> SUFFICES ASSUME NEW x \in Ends
               PROVE  inFlight'[x] <= Window \/ \E n \in Sizes : inFlight'[x] <= n
    BY DEF CounterWithinWindow
  <2>1. inFlight[x] \in Nat /\ inFlight'[x] \in Nat /\ inFlight'[x] <= inFlight[x]
    BY DEF Admissible, FlowTypes, CallTypes, Writers
  <2>2. CASE inFlight[x] <= Window
    BY <2>1, <2>2, LimitsAssumption, SMTT(30)
  <2>3. ASSUME NEW n \in Sizes, inFlight[x] <= n
        PROVE  inFlight'[x] <= n
    BY <2>1, <2>3, SizesAssumption, SMTT(30)
  <2>4. QED
    BY <2>2, <2>3 DEF Admissible, CounterWithinWindow
<1>AdmissibleKept. ASSUME Admissible, FlowTypes', CallTypes', CounterWithinWindow',
                          \A x \in Ends : wr'[x] = wr[x] \/ wr'[x].pc # "flow"
                   PROVE  Admissible'
  <2> USE <1>AdmissibleKept
  <2>1. \A x \in Ends : wr'[x].pc = "flow" => wr'[x].len \in Sizes
    BY DEF Admissible
  <2>2. QED
    BY <2>1 DEF Admissible
<1> SUFFICES ASSUME IInv, Admissible, IInv', [Next]_vars
             PROVE  Admissible'
  OBVIOUS
<1>0. inFlight \in [Ends -> Nat] /\ DOMAIN wr = Ends
  BY DEF Admissible, FlowTypes, CallTypes, Writers
<1>1. FlowTypes' /\ CallTypes' /\ inFlight' \in [Ends -> Nat]
  BY DEF IInv, TypeOK, FlowTypes
<1>2. ASSUME NEW e \in Ends, NEW n \in Sizes, WriteBegin(e, n) PROVE Admissible'
  <2>1. \A x \in Ends : wr'[x] = wr[x] \/ wr'[x].len \in Sizes
    BY <1>2 DEF Admissible, FlowTypes, CallTypes, Writers, WriteBegin
  <2>2. \A x \in Ends : wr'[x].pc = "flow" => wr'[x].len \in Sizes
    BY <2>1, SMTT(30) DEF Admissible
  <2>3. CounterWithinWindow'
    BY <1>2 DEF Admissible, CounterWithinWindow, WriteBegin, flowVars
  <2>4. QED
    BY <1>1, <2>2, <2>3, SMTT(30) DEF Admissible
<1>3. ASSUME NEW e \in Ends, WriteAdmit(e) PROVE Admissible'
  <2>1. \A x \in Ends : wr'[x] = wr[x] \/ wr'[x].pc # "flow"
    BY <1>3 DEF Admissible, FlowTypes, CallTypes, Writers, WriteAdmit
  <2>2. wr[e].len \in Sizes /\ wr[e].len \in Nat /\ inFlight[e] \in Nat
    BY <1>3, SizesAssumption DEF Admissible, FlowTypes, CallTypes, Writers, WriteAdmit
  <2>3. ASSUME NEW x \in Ends
        PROVE  inFlight'[x] <= Window \/ \E n \in Sizes : inFlight'[x] <= n
    <3>1. CASE x # e \/ ~flowEnabled[e]
      BY <1>3, <3>1, SMTT(30) DEF Admissible, FlowTypes, CallTypes, Writers, WriteAdmit, CounterWithinWindow
    <3>2. CASE x = e /\ flowEnabled[e]
      <4>1. inFlight'[x] = inFlight[e] + wr[e].len
        BY <1>3, <3>2 DEF Admissible, FlowTypes, CallTypes, Writers, WriteAdmit
      <4>2. ~ (inFlight[e] > 0) \/ ~ (inFlight[e] + wr[e].len > Window)
        BY <1>3, <3>2 DEF WriteAdmit, WindowFull
      <4>3. CASE inFlight[e] = 0
        BY <2>2, <4>1, <4>3, SMTT(30)
      <4>4. CASE ~ (inFlight[e] + wr[e].len > Window)
        BY <2>2, <4>1, <4>4, LimitsAssumption, SMTT(30)
      <4>5. QED
        BY <2>2, <4>2, <4>3, <4>4, SMTT(30)
    <3>3. QED
      BY <3>1, <3>2
  <2>4. CounterWithinWindow'
    BY <2>3 DEF CounterWithinWindow
  <2>5. QED
    BY <1>1, <2>1, <2>4, <1>AdmissibleKept
<1>4. ASSUME NEW e \in Ends, WriteAbandon(e) \/ WriteSend(e) PROVE Admissible'
  <2>1. \A x \in Ends : wr'[x] = wr[x] \/ wr'[x].pc # "flow"
    <3>1. wr' = [wr EXCEPT ![e] = Idle]
      BY <1>4 DEF WriteAbandon, WriteSend
    <3>2. QED
      BY <1>0, <3>1 DEF Idle
  <2>2. CounterWithinWindow'
    BY <1>4, SMTT(30) DEF Admissible, CounterWithinWindow, WriteAbandon, WriteSend, flowVars
  <2>3. QED
    BY <1>1, <2>1, <2>2, <1>AdmissibleKept
<1>5. ASSUME NEW e \in Ends, WriteFail(e) PROVE Admissible'
  <2>1. \A x \in Ends : wr'[x] = wr[x] \/ wr'[x].pc # "flow"
    BY <1>5 DEF Admissible, FlowTypes, CallTypes, Writers, WriteFail, Idle
  <2>2. \A x \in Ends : inFlight'[x] <= inFlight[x]
    <3>1. inFlight' = [inFlight EXCEPT ![e] = Less(inFlight[e], wr[e].len)] /\ wr[e].len \in Nat
      BY <1>5 DEF WriteFail, Admissible, FlowTypes, CallTypes, Writers
    <3>2. Less(inFlight[e], wr[e].len) <= inFlight[e]
      BY <1>0, <3>1, <1>LessLowers
    <3>3. QED
      BY <1>0, <3>1, <3>2, SMTT(30)
  <2>3. CounterWithinWindow'
    BY <1>1, <2>2, <1>CounterFalls
  <2>4. QED
    BY <1>1, <2>1, <2>3, <1>AdmissibleKept
<1>6. ASSUME NEW e \in Ends, ReceiveAck(e) PROVE Admissible'
  <2>1. Head(frames[e]).len \in Nat
    BY <1>6, HeadFrame DEF IInv, TypeOK, LinkTypes, ReceiveAck, Receiving, Ready
  <2>2. \A x \in Ends : inFlight'[x] <= inFlight[x]
    <3>1. inFlight' = [inFlight EXCEPT ![e] = Less(inFlight[e], Head(frames[e]).len)]
      BY <1>6 DEF ReceiveAck
    <3>2. Less(inFlight[e], Head(frames[e]).len) <= inFlight[e]
      BY <1>0, <2>1, <1>LessLowers
    <3>3. QED
      BY <1>0, <3>1, <3>2, SMTT(30)
  <2>3. wr' = wr
    BY <1>6 DEF ReceiveAck, callVars
  <2>4. CounterWithinWindow'
    BY <1>1, <2>2, <1>CounterFalls
  <2>5. QED
    BY <1>1, <2>3, <2>4, <1>AdmissibleKept
<1>7. ASSUME NEW e \in Ends, ReceiveResume(e) \/ ReconnectedReset(e) PROVE Admissible'
  <2>1. \A x \in Ends : inFlight'[x] <= inFlight[x]
    <3>1. inFlight' = [inFlight EXCEPT ![e] = 0]
      BY <1>7 DEF ReceiveResume, ReconnectedReset
    <3>2. QED
      BY <1>0, <3>1, SMTT(30)
  <2>2. wr' = wr
    BY <1>7 DEF ReceiveResume, ReconnectedReset, callVars
  <2>3. CounterWithinWindow'
    BY <1>1, <2>1, <1>CounterFalls
  <2>4. QED
    BY <1>1, <2>2, <2>3, <1>AdmissibleKept
<1>8. ASSUME wr' = wr, inFlight' = inFlight PROVE Admissible'
  BY <1>1, <1>8 DEF Admissible, CounterWithinWindow
<1>9. CASE UNCHANGED vars
  BY <1>8, <1>9 DEF vars, flowVars, callVars
<1>10. CASE Dial
  BY <1>8, <1>10 DEF Dial, flowVars, callVars
<1>11. ASSUME NEW e \in Ends, Environment(e) PROVE Admissible'
  BY <1>2, <1>8, <1>11
     DEF Environment, CloseWrite, Reset, ReadPart, PeerClose, flowVars, callVars
<1>12. ASSUME NEW e \in Ends, Progress(e) PROVE Admissible'
  <2>1. CASE Receive(e)
    BY <1>6, <1>7, <1>8, <2>1, ZenonT(30)
       DEF Receive, ReceiveData, ReceiveOverflow, ReceiveEof, ReceiveAbort, ReceiveFlow,
           flowVars, callVars
  <2>2. CASE \/ FailFinish(e) \/ Read(e) \/ SendFlow(e) \/ \E n \in Sizes : SendAck(e, n)
             \/ DropFrame(e) \/ Detach(e) \/ Attach(e)
    BY <1>8, <2>2 DEF FailFinish, Read, SendFlow, SendAck, DropFrame, Detach, Attach,
                      flowVars, callVars
  <2>3. CASE \/ ReconnectedSend(e) \/ ReconnectedFail(e) \/ GraceExpires(e) \/ GaveUp(e)
             \/ SendEof(e) \/ CloseFail(e) \/ ClosePeer(e) \/ SendAbort(e)
    BY <1>8, <2>3 DEF ReconnectedSend, ReconnectedFail, GraceExpires, GaveUp, SendEof,
                      CloseFail, ClosePeer, SendAbort, flowVars
  <2>4. QED
    BY <1>3, <1>4, <1>5, <1>7, <1>12, <2>1, <2>2, <2>3 DEF Progress
<1>13. QED
  BY <1>9, <1>10, <1>11, <1>12 DEF Next

\* The credit in use stays within the window, whatever is lost and however late
\* or often acks, resume and reconnections arrive; only a single value that is
\* larger than the window may exceed it (Write, acknowledge, Reconnected).
THEOREM WindowBound == Spec => []CounterWithinWindow
<1>1. Init => Admissible
  <2> SUFFICES ASSUME Init PROVE Admissible
    BY Zenon
  <2>1. FlowTypes /\ CallTypes
    BY InitEstablishesIInv, Zenon DEF IInv, TypeOK
  <2>2. QED
    BY <2>1, LimitsAssumption DEF Init, Idle, Admissible, CounterWithinWindow
<1>2. IInv /\ Admissible /\ [Next]_vars => IInv' /\ Admissible'
  BY Inductive, AdmissibleStep, Zenon
<1>3. Admissible => CounterWithinWindow
  BY Zenon DEF Admissible
<1>4. QED
  BY InitEstablishesIInv, <1>1, <1>2, <1>3, PTL DEF Spec

------------------------------------------------------------------------------
\* Sums, by induction over the number of addends.

\* A set of numbers has a least one, so that a claim about all numbers can be
\* refuted at its least counterexample.
LEMMA LeastNat ==
    ASSUME NEW T \in SUBSET Nat, T # {}
    PROVE  \E x \in T : \A y \in T : x <= y
<1> USE Zenon
<1> DEFINE R == OpToRel(<, Nat)
<1>1. IsWellFoundedOn(R, Nat)
  BY NatLessThanWellFounded
<1>2. \A x, y \in Nat : x < y => <<x, y>> \in R
  BY DEF OpToRel
<1> HIDE DEF R
<1>3. PICK x \in T : \A y \in T : ~(<<y, x>> \in R)
  BY <1>1, WFMin
<1>4. \A y \in T : ~(y < x)
  BY <1>2, <1>3
<1> QED BY <1>4, SMTT(30)

\* Induction in the form the proofs below use.
LEMMA Climb ==
    ASSUME NEW T \in SUBSET Nat, 0 \in T, \A k \in Nat : k \in T => k + 1 \in T
    PROVE  T = Nat
<1> DEFINE U == Nat \ T
<1>1. CASE U # {}
  <2>1. PICK x \in U : \A y \in U : x <= y
    BY <1>1, LeastNat, Zenon
  <2>2. x - 1 \in Nat /\ x - 1 \notin U
    BY <2>1
  <2> QED BY <2>1, <2>2
<1> QED BY <1>1, Zenon

\* s has the partial sums of f up to k.
IsSum(s, f, k) == s = [i \in 0..k |-> IF i = 0 THEN 0 ELSE s[i - 1] + f[i]]

\* The partial sums of f exist, and are determined by the addends.
LEMMA SumExists ==
    ASSUME NEW f, NEW k \in Nat
    PROVE  \E s : IsSum(s, f, k)
<1> DEFINE T == {n \in Nat : \E s : IsSum(s, f, n)}
<1>1. 0 \in T
  <2>1. IsSum([i \in 0..0 |-> 0], f, 0)
    BY DEF IsSum
  <2> QED BY <2>1, Zenon
<1>2. ASSUME NEW n \in Nat, n \in T PROVE n + 1 \in T
  <2>1. PICK s : IsSum(s, f, n)
    BY <1>2, Zenon
  <2> DEFINE t == [i \in 0..n+1 |-> IF i = n + 1 THEN s[n] + f[n + 1] ELSE s[i]]
  <2>2. \A i \in 0..n : t[i] = IF i = 0 THEN 0 ELSE t[i - 1] + f[i]
    BY <2>1 DEF IsSum
  <2>3. t[n + 1] = t[n] + f[n + 1]
    OBVIOUS
  <2>4. \A i \in 0..n+1 : t[i] = IF i = 0 THEN 0 ELSE t[i - 1] + f[i]
    <3>1. \A i \in 0..n+1 : i \in 0..n \/ (i = n + 1 /\ i # 0 /\ i - 1 = n)
      OBVIOUS
    <3> HIDE DEF t
    <3> QED BY <2>2, <2>3, <3>1, Zenon
  <2>5. t = [i \in 0..n+1 |-> t[i]]
    BY Zenon
  <2>6. IsSum(t, f, n + 1)
    <3> HIDE DEF t
    <3> QED BY <2>4, <2>5, Zenon DEF IsSum
  <2> QED BY <2>6
<1> HIDE DEF T
<1>3. T = Nat
  BY <1>1, <1>2, Climb, Zenon DEF T
<1> QED BY <1>3, Zenon DEF T

\* Two functions that agree on the first k places have the same partial sum there.
LEMMA SumUnique ==
    ASSUME NEW f, NEW g, NEW s, NEW t, NEW k \in Nat, NEW m \in Nat, k <= m,
           IsSum(s, f, k), IsSum(t, g, m), \A i \in 1..k : f[i] = g[i]
    PROVE  s[k] = t[k]
<1> DEFINE T == {n \in Nat : n <= k => s[n] = t[n]}
<1>1. 0 \in T
  BY DEF IsSum
<1>2. ASSUME NEW n \in Nat, n \in T PROVE n + 1 \in T
  BY <1>2 DEF IsSum
<1> HIDE DEF T
<1>3. T = Nat
  BY <1>1, <1>2, Climb, Zenon DEF T
<1> QED BY <1>3 DEF T

\* Sum(f, k) is the last of them.
LEMMA SumIs ==
    ASSUME NEW f, NEW k \in Nat
    PROVE  \E s : IsSum(s, f, k) /\ Sum(f, k) = s[k]
<1> USE Zenon
<1> DEFINE c == CHOOSE s : s = [i \in 0..k |-> IF i = 0 THEN 0 ELSE s[i - 1] + f[i]]
<1>1. c = [i \in 0..k |-> IF i = 0 THEN 0 ELSE c[i - 1] + f[i]]
  <2>1. \E s : s = [i \in 0..k |-> IF i = 0 THEN 0 ELSE s[i - 1] + f[i]]
    BY SumExists DEF IsSum
  <2> QED BY <2>1
<1>2. Sum(f, k) = c[k]
  BY DEF Sum
<1> QED BY <1>1, <1>2 DEF IsSum

\* The two equations of Sum, and that it depends on the addends only.
LEMMA SumZero == ASSUME NEW f PROVE Sum(f, 0) = 0
BY SumIs DEF IsSum

\* The sum depends on its addends alone.
LEMMA SumSame ==
    ASSUME NEW f, NEW g, NEW k \in Nat, \A i \in 1..k : f[i] = g[i]
    PROVE  Sum(f, k) = Sum(g, k)
<1>1. PICK s : IsSum(s, f, k) /\ Sum(f, k) = s[k]
  BY SumIs, Zenon
<1>2. PICK t : IsSum(t, g, k) /\ Sum(g, k) = t[k]
  BY SumIs, Zenon
<1> QED BY <1>1, <1>2, SumUnique

\* The sum grows by its last addend.
LEMMA SumNext ==
    ASSUME NEW f, NEW k \in Nat
    PROVE  Sum(f, k + 1) = Sum(f, k) + f[k + 1]
<1>1. PICK s : IsSum(s, f, k) /\ Sum(f, k) = s[k]
  BY SumIs, Zenon
<1>2. PICK t : IsSum(t, f, k + 1) /\ Sum(f, k + 1) = t[k + 1]
  BY SumIs
<1>3. s[k] = t[k]
  BY <1>1, <1>2, SumUnique
<1>4. t[k + 1] = t[k] + f[k + 1]
  BY <1>2 DEF IsSum
<1> QED BY <1>1, <1>2, <1>3, <1>4, Zenon

\* A sum of natural numbers is one.
LEMMA SumNat ==
    ASSUME NEW f, NEW k \in Nat, \A i \in 1..k : f[i] \in Nat
    PROVE  Sum(f, k) \in Nat
<1> DEFINE T == {n \in Nat : n <= k => Sum(f, n) \in Nat}
<1>1. 0 \in T
  BY SumZero
<1>2. ASSUME NEW n \in Nat, n \in T PROVE n + 1 \in T
  BY <1>2, SumNext
<1> HIDE DEF T
<1>3. T = Nat
  BY <1>1, <1>2, Climb, Zenon DEF T
<1> QED BY <1>3 DEF T

\* g is f without its j-th addend.
LEMMA SumOmit ==
    ASSUME NEW f, NEW g, NEW k \in Nat, NEW j \in 1..k + 1,
           \A i \in 1..k + 1 : f[i] \in Nat,
           \A i \in 1..k : g[i] = IF i < j THEN f[i] ELSE f[i + 1]
    PROVE  Sum(g, k) + f[j] = Sum(f, k + 1)
<1> DEFINE T == {n \in Nat : n <= k /\ n + 1 >= j => Sum(g, n) + f[j] = Sum(f, n + 1)}
<1>1. ASSUME NEW n \in Nat, n <= k, n + 1 = j PROVE Sum(g, n) + f[j] = Sum(f, n + 1)
  <2>1. Sum(g, n) = Sum(f, n)
    BY <1>1, SumSame
  <2> QED BY <1>1, <2>1, SumNext, Zenon
<1>2. 0 \in T
  BY <1>1
<1>3. ASSUME NEW n \in Nat, n \in T PROVE n + 1 \in T
  <2>1. SUFFICES ASSUME n + 1 <= k, n + 1 >= j PROVE Sum(g, n + 1) + f[j] = Sum(f, n + 1 + 1)
    BY <1>1
  <2>2. Sum(g, n) + f[j] = Sum(f, n + 1)
    BY <1>3, <2>1
  <2>3. Sum(g, n + 1) = Sum(g, n) + g[n + 1] /\ Sum(f, n + 1 + 1) = Sum(f, n + 1) + f[n + 1 + 1]
    BY SumNext
  <2>4. Sum(g, n) \in Nat
    BY <2>1, SumNat
  <2> QED BY <2>1, <2>2, <2>3, <2>4
<1> HIDE DEF T
<1>4. T = Nat
  BY <1>2, <1>3, Climb, Zenon DEF T
<1> QED BY <1>4 DEF T

\* Nothing adds up to nothing.
LEMMA SumNone ==
    ASSUME NEW f, NEW l \in Nat, \A i \in 1..l : f[i] = 0
    PROVE  Sum(f, l) = 0
<1> DEFINE T == {k \in Nat : k <= l => Sum(f, k) = 0}
<1>1. 0 \in T
  BY SumZero, Zenon
<1>2. ASSUME NEW k \in Nat, k \in T PROVE k + 1 \in T
  BY <1>2, SumNext
<1> HIDE DEF T
<1>3. T = Nat
  BY <1>1, <1>2, Climb, Zenon DEF T
<1> QED BY <1>3 DEF T

------------------------------------------------------------------------------
\* Tallies of frames.

\* The tally of no frames, of one more frame, and of one frame less.
LEMMA TallyEmpty == ASSUME NEW w PROVE Tally(<<>>, w) = 0
BY SumZero, Zenon DEF Tally

\* A tally is a natural number.
LEMMA TallyNat ==
    ASSUME NEW w \in [Frames -> Nat], NEW s \in Seq(Frames)
    PROVE  Tally(s, w) \in Nat
<1> DEFINE f == [i \in 1..Len(s) |-> w[s[i]]]
<1>1. \A i \in 1..Len(s) : f[i] \in Nat
  OBVIOUS
<1> HIDE DEF f
<1>2. Sum(f, Len(s)) \in Nat
  BY <1>1, SumNat
<1> QED BY <1>2, Zenon DEF Tally, f

\* A frame appended adds its weight.
LEMMA TallyAppend ==
    ASSUME NEW w \in [Frames -> Nat], NEW s \in Seq(Frames), NEW c \in Frames
    PROVE  Tally(Append(s, c), w) = Tally(s, w) + w[c]
<1> DEFINE t == Append(s, c)
           f == [i \in 1..Len(s) |-> w[s[i]]]
           g == [i \in 1..Len(t) |-> w[t[i]]]
<1>1. Len(t) = Len(s) + 1 /\ Len(s) \in Nat
  OBVIOUS
<1>2. \A i \in 1..Len(s) : f[i] = g[i]
  OBVIOUS
<1>3. g[Len(s) + 1] = w[c]
  OBVIOUS
<1>4. Tally(s, w) = Sum(f, Len(s)) /\ Tally(t, w) = Sum(g, Len(s) + 1)
  BY <1>1, Zenon DEF Tally
<1> HIDE DEF f, g, t
<1>5. Sum(f, Len(s)) = Sum(g, Len(s))
  BY <1>1, <1>2, SumSame, Zenon
<1>6. Sum(g, Len(s) + 1) = Sum(g, Len(s)) + g[Len(s) + 1]
  BY <1>1, SumNext, Zenon
<1> QED BY <1>3, <1>4, <1>5, <1>6, Zenon DEF t

\* t is s without its j-th frame.
LEMMA TallyOmit ==
    ASSUME NEW w \in [Frames -> Nat], NEW s \in Seq(Frames), NEW t, NEW j \in 1..Len(s),
           Len(t) = Len(s) - 1, \A i \in 1..Len(s) - 1 : t[i] = IF i < j THEN s[i] ELSE s[i + 1]
    PROVE  Tally(t, w) + w[s[j]] = Tally(s, w)
<1> DEFINE f == [i \in 1..Len(s) |-> w[s[i]]]
           g == [i \in 1..Len(t) |-> w[t[i]]]
<1>1. PICK k \in Nat : Len(s) = k + 1 /\ Len(t) = k
  <2>1. Len(s) - 1 \in Nat
    OBVIOUS
  <2> QED BY <2>1
<1>2. \A i \in 1..k + 1 : f[i] \in Nat
  BY <1>1
<1>3. \A i \in 1..k : g[i] = IF i < j THEN f[i] ELSE f[i + 1]
  BY <1>1
<1>4. f[j] = w[s[j]] /\ j \in 1..k + 1
  BY <1>1, Zenon
<1>5. Tally(s, w) = Sum(f, k + 1) /\ Tally(t, w) = Sum(g, k)
  BY <1>1, Zenon DEF Tally
<1> HIDE DEF f, g
<1>6. Sum(g, k) + f[j] = Sum(f, k + 1)
  BY <1>2, <1>3, <1>4, SumOmit, Zenon
<1> QED BY <1>4, <1>5, <1>6, Zenon

\* The first frame taken subtracts its weight.
LEMMA TallyTail ==
    ASSUME NEW w \in [Frames -> Nat], NEW s \in Seq(Frames), s # <<>>
    PROVE  Tally(Tail(s), w) + w[Head(s)] = Tally(s, w)
<1>1. Len(s) \in Nat \ {0} /\ 1 \in 1..Len(s) /\ Head(s) = s[1]
  OBVIOUS
<1>2. Len(Tail(s)) = Len(s) - 1 /\ \A i \in 1..Len(s) - 1 : Tail(s)[i] = IF i < 1 THEN s[i] ELSE s[i + 1]
  BY <1>1
<1>3. Tally(Tail(s), w) + w[s[1]] = Tally(s, w)
  BY <1>1, <1>2, TallyOmit, Zenon
<1> QED BY <1>1, <1>3, Zenon

\* Frames that count for nothing add up to nothing.
LEMMA TallyNone ==
    ASSUME NEW w \in [Frames -> Nat], NEW s \in Seq(Frames), \A i \in 1..Len(s) : w[s[i]] = 0
    PROVE  Tally(s, w) = 0
<1> DEFINE f == [i \in 1..Len(s) |-> w[s[i]]]
<1>1. \A i \in 1..Len(s) : f[i] = 0
  BY Zenon
<1>2. Len(s) \in Nat
  OBVIOUS
<1> HIDE DEF f
<1>3. Sum(f, Len(s)) = 0
  BY <1>1, <1>2, SumNone, Zenon
<1> QED BY <1>3, Zenon DEF Tally, f

------------------------------------------------------------------------------
\* The steps that neither write nor read.

\* The call in progress holds writeMu and is about to send eof.
Ending(x) == op[x] \in {"eof", "closeEof"}

\* What a step that neither writes nor reads does to the frames for x.
Gets(x) ==
    \E c \in Controls : /\ frames'[x] = Append(frames[x], Control(c))
                        /\ c = "eof" => Ending(Other(x)) /\ op'[Other(x)] \in {"none", "fail"}
Takes(x) ==
    /\ frames[x] # <<>> /\ Head(frames[x]).type \in {"eof", "abort", "flow"}
    /\ frames'[x] = Tail(frames[x])
Loses(x) ==
    /\ frames'[x] = <<>> \/ \E i \in DOMAIN frames[x] : frames'[x] = Without(frames[x], i)
    /\ faults' # 0 \/ peer[x] # "open" \/ rc[x] # "none" \/ op[x] = "closePeer"

\* What such a step does to the accounts.
Untouched ==
    UNCHANGED <<wr, readQueue, readQueued, readOffset, pendAck, inFlight, early, writtenOff,
                delivered, written>>

\* A step that neither writes nor reads.
Calm ==
    /\ Untouched
    /\ \A x \in Ends :
          /\ frames'[x] = frames[x] \/ Gets(x) \/ Takes(x) \/ Loses(x)
          /\ flowEnabled[x] => flowEnabled'[x]
          /\ writeClosed[x] => writeClosed'[x] /\ (op'[x] \in {"eof", "closeEof"} => Ending(x))
          /\ closedRead'[x] => \/ closedRead[x] \/ closed'[x]
                               \/ Takes(x) /\ Head(frames[x]).type = "eof"

\* Where a frame sent by e goes.
LEMMA PutFrames ==
    ASSUME IInv, NEW e \in Ends, NEW c \in Frames, Put(e, c)
    PROVE  /\ frames'[e] = frames[e]
           /\ IF Carries(e) THEN frames'[Other(e)] = Append(frames[Other(e)], c)
              ELSE frames'[Other(e)] = frames[Other(e)]
<1>1. frames \in [Ends -> Seq(Frames)] /\ Other(e) \in Ends /\ Other(e) # e
  BY OtherEnd, Zenon DEF IInv, TypeOK, LinkTypes
<1> QED BY <1>1, Zenon DEF Put

\* The steps that are not calm.
Busy(e) ==
    \/ \E n \in Sizes : WriteBegin(e, n)
    \/ WriteAdmit(e) \/ WriteAbandon(e) \/ WriteSend(e) \/ WriteFail(e)
    \/ ReadPart(e) \/ Read(e) \/ (\E n \in Sizes : SendAck(e, n))
    \/ ReceiveData(e) \/ ReceiveResume(e) \/ ReceiveAck(e) \/ ReconnectedReset(e)

\* Every step is calm or busy.
LEMMA CalmOrBusy ==
    IInv /\ [Next]_vars => (Calm \/ \E e \in Ends : Busy(e))
<1> USE Zenon
\* A control frame that is sent reaches the frames of one end.
<1>PutGets. ASSUME IInv, NEW e \in Ends, NEW c \in Controls, Put(e, Control(c)),
                   c = "eof" => Ending(e) /\ op'[e] \in {"none", "fail"}
            PROVE  \A x \in Ends : frames'[x] = frames[x] \/ Gets(x)
  <2> USE <1>PutGets
  <2>1. frames \in [Ends -> Seq(Frames)] /\ Other(e) \in Ends /\ Other(Other(e)) = e
    BY OtherEnd DEF IInv, TypeOK, LinkTypes
  <2>2. CASE Carries(e)
    <3>1. frames' = [frames EXCEPT ![Other(e)] = Append(frames[Other(e)], Control(c))]
      BY <2>2 DEF Put
    <3>2. \A x \in Ends : IF x = Other(e) THEN frames'[x] = Append(frames[x], Control(c)) ELSE frames'[x] = frames[x]
      BY <2>1, <3>1
    <3> QED BY <2>1, <3>2 DEF Gets
  <2>3. CASE ~Carries(e)
    BY <2>3 DEF Put
  <2> QED BY <2>2, <2>3
\* The steps that send nothing and lose nothing.
<1>CalmWaits. ASSUME IInv, NEW e \in Ends,
                     \/ FailFinish(e) \/ PeerClose(e) \/ Attach(e) \/ GraceExpires(e)
                     \/ (\E call \in {"CloseWrite", "Close"} : CloseWrite(e, call)) \/ CloseFail(e) \/ Reset(e)
              PROVE  Calm
  <2> USE <1>CalmWaits
  <2> USE DEF Untouched, Ending, flowVars, readVars, linkVars, callVars, histVars
  <2>1. closedRead \in [Ends -> BOOLEAN] /\ writeClosed \in [Ends -> BOOLEAN] /\ closed \in [Ends -> BOOLEAN]
        /\ op = [x \in Ends |-> op[x]]
    BY DEF IInv, TypeOK, ReadTypes, CloseTypes, CallTypes
  <2>2. CASE FailFinish(e)
    BY <2>1, <2>2 DEF FailFinish, Calm
  <2>3. CASE PeerClose(e)
    BY <2>3 DEF PeerClose, Calm
  <2>4. CASE Attach(e)
    BY <2>4 DEF Attach, Calm
  <2>5. CASE GraceExpires(e)
    BY <2>1, <2>5 DEF GraceExpires, Calm, Fail
  <2>6. CASE \E call \in {"CloseWrite", "Close"} : CloseWrite(e, call)
    BY <2>1, <2>6 DEF CloseWrite, Calm
  <2>7. CASE CloseFail(e)
    BY <2>1, <2>7 DEF CloseFail, Calm, Fail
  <2>8. CASE Reset(e)
    BY <2>1, <2>8 DEF Reset, Calm, Fail
  <2> QED BY <2>2, <2>3, <2>4, <2>5, <2>6, <2>7, <2>8
\* The steps that send a control frame.
<1>CalmSends. ASSUME IInv, NEW e \in Ends, SendFlow(e) \/ ReconnectedSend(e) \/ SendEof(e) \/ SendAbort(e)
              PROVE  Calm
  <2> USE <1>CalmSends
  <2> USE DEF Untouched, Ending, flowVars, readVars, linkVars, callVars, histVars
  <2>1. op = [x \in Ends |-> op[x]]
    BY DEF IInv, TypeOK, CallTypes
  <2>2. CASE SendFlow(e)
    <3>1. \A x \in Ends : frames'[x] = frames[x] \/ Gets(x)
      BY <2>2, <1>PutGets DEF SendFlow, Controls
    <3> QED BY <2>2, <3>1 DEF SendFlow, Calm
  <2>3. CASE ReconnectedSend(e)
    <3>1. \A x \in Ends : frames'[x] = frames[x] \/ Gets(x)
      <4>1. PICK c : c = rc[e]
        OBVIOUS
      <4>2. c \in Controls /\ c # "eof" /\ Put(e, Control(c))
        BY <2>3, <4>1 DEF ReconnectedSend, Controls
      <4> QED BY <4>2, <1>PutGets
    <3> QED BY <2>3, <3>1 DEF ReconnectedSend, Calm
  <2>4. CASE SendEof(e)
    <3>1. op'[e] \in {"none", "fail"} /\ Ending(e)
      BY <2>1, <2>4 DEF SendEof
    <3>2. \A x \in Ends : frames'[x] = frames[x] \/ Gets(x)
      BY <2>4, <3>1, <1>PutGets DEF SendEof, Controls
    <3>3. \A x \in Ends : op'[x] \in {"eof", "closeEof"} => op[x] \in {"eof", "closeEof"}
      BY <2>1, <2>4, <3>1 DEF SendEof
    <3> QED BY <2>4, <3>2, <3>3 DEF SendEof, Calm
  <2>5. CASE SendAbort(e)
    <3>1. \A x \in Ends : frames'[x] = frames[x] \/ Gets(x)
      BY <2>5, <1>PutGets DEF SendAbort, Controls
    <3>2. \A x \in Ends : op'[x] \in {"eof", "closeEof"} => op[x] \in {"eof", "closeEof"}
      BY <2>1, <2>5 DEF SendAbort
    <3> QED BY <2>5, <3>1, <3>2 DEF SendAbort, Calm
  <2> QED BY <2>2, <2>3, <2>4, <2>5
\* The steps that take a control frame.
<1>CalmTakes. ASSUME IInv, NEW e \in Ends, ReceiveEof(e) \/ ReceiveAbort(e) \/ ReceiveFlow(e)
              PROVE  Calm
  <2> USE <1>CalmTakes
  <2> USE DEF Untouched, Ending, flowVars, readVars, linkVars, callVars, histVars
  <2>1. /\ closedRead = [x \in Ends |-> closedRead[x]] /\ closed = [x \in Ends |-> closed[x]]
        /\ flowEnabled = [x \in Ends |-> flowEnabled[x]] /\ frames = [x \in Ends |-> frames[x]]
    BY DEF IInv, TypeOK, FlowTypes, ReadTypes, CloseTypes, LinkTypes
  <2>2. \E t \in {"eof", "abort", "flow"} : Receiving(e, t)
    BY DEF ReceiveEof, ReceiveAbort, ReceiveFlow
  <2>3. \A x \in Ends : IF x = e THEN Takes(x) ELSE frames'[x] = frames[x]
    BY <2>1, <2>2 DEF Receiving, Ready, Takes
  <2>4. CASE ReceiveEof(e)
    <3>1. \A x \in Ends : closedRead'[x] => closedRead[x] \/ (Takes(x) /\ Head(frames[x]).type = "eof")
      BY <2>1, <2>3, <2>4 DEF ReceiveEof, Receiving, Ready
    <3> QED BY <2>3, <2>4, <3>1 DEF ReceiveEof, Calm
  <2>5. CASE ReceiveAbort(e)
    <3>1. \A x \in Ends : closedRead'[x] => closedRead[x] \/ closed'[x]
      BY <2>1, <2>5 DEF ReceiveAbort, Fail
    <3> QED BY <2>3, <2>5, <3>1 DEF ReceiveAbort, Calm
  <2>6. CASE ReceiveFlow(e)
    <3>1. \A x \in Ends : flowEnabled[x] => flowEnabled'[x]
      BY <2>1, <2>6 DEF ReceiveFlow
    <3> QED BY <2>3, <2>6, <3>1 DEF ReceiveFlow, Calm
  <2> QED BY <2>4, <2>5, <2>6
\* The steps that can lose frames.
<1>CalmLoses. ASSUME IInv, NEW e \in Ends,
                     \/ ReceiveOverflow(e) \/ DropFrame(e) \/ Detach(e) \/ Dial
                     \/ ReconnectedFail(e) \/ GaveUp(e) \/ ClosePeer(e)
              PROVE  Calm
  <2> USE <1>CalmLoses
  <2> USE DEF Untouched, Ending, flowVars, readVars, linkVars, callVars, histVars
  <2>1. /\ closedRead = [x \in Ends |-> closedRead[x]] /\ closed = [x \in Ends |-> closed[x]]
        /\ op = [x \in Ends |-> op[x]] /\ frames = [x \in Ends |-> frames[x]]
    BY DEF IInv, TypeOK, ReadTypes, CloseTypes, LinkTypes, CallTypes
  <2>2. CASE ReceiveOverflow(e)
    <3>0. faults \in Nat /\ faults' = faults + 1
      BY <2>2 DEF ReceiveOverflow, IInv, TypeOK, HistTypes
    <3>1. faults' # 0
      BY <3>0, SMTT(30)
    <3>2. \A x \in Ends : frames'[x] = frames[x] \/ Loses(x)
      BY <2>1, <2>2, <3>1 DEF ReceiveOverflow, Loses
    <3>3. \A x \in Ends : closedRead'[x] => closedRead[x] \/ closed'[x]
      BY <2>1, <2>2 DEF ReceiveOverflow, Fail
    <3> QED BY <2>2, <3>2, <3>3 DEF ReceiveOverflow, Calm
  <2>3. CASE DropFrame(e)
    <3>1. peer[e] # "open"
      BY <2>3 DEF DropFrame
    <3>2. PICK i \in DOMAIN frames[e] : frames' = [frames EXCEPT ![e] = Without(frames[e], i)]
      BY <2>3 DEF DropFrame
    <3>3. frames'[e] = Without(frames[e], i) /\ \A x \in Ends : x # e => frames'[x] = frames[x]
      BY <2>1, <3>2
    <3>4. Loses(e)
      BY <3>1, <3>3 DEF Loses
    <3>5. \A x \in Ends : frames'[x] = frames[x] \/ Loses(x)
      BY <3>3, <3>4
    <3> QED BY <2>3, <3>5 DEF DropFrame, Calm
  <2>4. CASE Detach(e)
    <3>1. peer[e] # "open"
      BY <2>4 DEF Detach
    <3>2. \A x \in Ends : frames'[x] = frames[x] \/ Loses(x)
      BY <2>1, <2>4, <3>1 DEF Detach, Loses
    <3> QED BY <2>4, <3>2 DEF Detach, Calm
  <2>5. CASE Dial
    <3>1. \A x \in Ends : peer[x] # "open"
      BY <2>5 DEF Dial
    <3>2. \A x \in Ends : Loses(x)
      BY <2>5, <3>1 DEF Dial, Loses
    <3> QED BY <2>5, <3>2 DEF Dial, Calm
  <2>6. CASE ReconnectedFail(e)
    <3>1. rc[e] # "none"
      BY <2>6 DEF ReconnectedFail
    <3>2. \A x \in Ends : frames'[x] = frames[x] \/ Loses(x)
      BY <2>1, <2>6, <3>1 DEF ReconnectedFail, LinkClose, Loses
    <3>3. \A x \in Ends : closedRead'[x] => closedRead[x] \/ closed'[x]
      BY <2>1, <2>6 DEF ReconnectedFail, Fail
    <3> QED BY <2>6, <3>2, <3>3 DEF ReconnectedFail, Calm
  <2>7. CASE GaveUp(e)
    <3>1. rc[e] # "none"
      BY <2>7 DEF GaveUp
    <3>2. \A x \in Ends : frames'[x] = frames[x] \/ Loses(x)
      BY <2>1, <2>7, <3>1 DEF GaveUp, LinkClose, Loses
    <3> QED BY <2>7, <3>2 DEF GaveUp, Calm
  <2>8. CASE ClosePeer(e)
    <3>1. \A x \in Ends : frames'[x] = frames[x] \/ Loses(x)
      BY <2>1, <2>8 DEF ClosePeer, LinkClose, Loses
    <3>2. \A x \in Ends : op'[x] \in {"eof", "closeEof"} => op[x] \in {"eof", "closeEof"}
      BY <2>1, <2>8 DEF ClosePeer
    <3> QED BY <2>8, <3>1, <3>2 DEF ClosePeer, Calm
  <2> QED BY <2>2, <2>3, <2>4, <2>5, <2>6, <2>7, <2>8
<1> SUFFICES ASSUME IInv, [Next]_vars
             PROVE  Calm \/ \E e \in Ends : Busy(e)
  OBVIOUS
<1>1. CASE UNCHANGED vars
  BY <1>1 DEF vars, Calm, Untouched, Ending, flowVars, readVars, linkVars, callVars, histVars
<1>2. CASE Dial
  <2>1. "client" \in Ends
    BY DEF Ends
  <2> QED BY <1>2, <2>1, <1>CalmLoses
<1>3. ASSUME NEW e \in Ends, Environment(e) \/ Progress(e) PROVE Calm \/ Busy(e)
  BY <1>3, <1>CalmWaits, <1>CalmSends, <1>CalmTakes, <1>CalmLoses DEF Environment, Progress, Receive, Busy
<1> QED BY <1>1, <1>2, <1>3 DEF Next

\* What a calm step does to a tally in which control frames count for nothing.
Light(w) ==
    /\ w \in [Frames -> Nat]
    /\ \A c \in Controls : w[Control(c)] = 0
    /\ \A f \in Frames : f.type \in {"eof", "abort", "flow"} => w[f] = 0

\* A calm step loses what a lossy channel loses and changes no tally otherwise.
LEMMA CalmTally ==
    ASSUME IInv, Calm, NEW x \in Ends, NEW w, Light(w)
    PROVE  /\ Tally(frames'[x], w) \in Nat /\ Tally(frames'[x], w) <= Tally(frames[x], w)
           /\ ~Loses(x) => Tally(frames'[x], w) = Tally(frames[x], w)
<1> USE Zenon
<1>1. frames[x] \in Seq(Frames) /\ w \in [Frames -> Nat]
  BY DEF IInv, TypeOK, LinkTypes, Light
<1>2. Tally(frames[x], w) \in Nat
  BY <1>1, TallyNat
<1>3. CASE Gets(x)
  <2>1. PICK c \in Controls : frames'[x] = Append(frames[x], Control(c))
    BY <1>3 DEF Gets
  <2>2. Tally(frames'[x], w) = Tally(frames[x], w) + w[Control(c)] /\ w[Control(c)] = 0
    BY <1>1, <2>1, TallyAppend, ControlFrames DEF Light
  <2>3. Tally(frames'[x], w) = Tally(frames[x], w)
    BY <1>2, <2>2, PlusZero
  <2> QED BY <1>2, <2>3, SMTT(30)
<1>4. CASE Takes(x)
  <2>1. Head(frames[x]) \in Frames
    BY <1>1, <1>4, HeadFrame DEF Takes
  <2>2. Tally(Tail(frames[x]), w) + w[Head(frames[x])] = Tally(frames[x], w)
    BY <1>1, <1>4, TallyTail DEF Takes
  <2>3. w[Head(frames[x])] = 0 /\ frames'[x] = Tail(frames[x])
    BY <1>4, <2>1 DEF Takes, Light
  <2>4. Tail(frames[x]) \in Seq(Frames)
    BY <1>1, <1>4, TailFrames DEF Takes
  <2>5. Tally(Tail(frames[x]), w) \in Nat
    BY <1>1, <2>4, TallyNat
  <2> QED BY <1>2, <2>2, <2>3, <2>5, SMTT(30)
<1>5. CASE Loses(x)
  <2>1. CASE frames'[x] = <<>>
    <3>1. Tally(frames'[x], w) = 0
      BY <2>1, TallyEmpty
    <3> QED BY <1>2, <1>5, <3>1, SMTT(30)
  <2>2. CASE \E i \in DOMAIN frames[x] : frames'[x] = Without(frames[x], i)
    <3>1. PICK i \in DOMAIN frames[x] : frames'[x] = Without(frames[x], i)
      BY <2>2
    <3>2. /\ i \in 1 .. Len(frames[x]) /\ frames'[x] \in Seq(Frames) /\ Len(frames'[x]) = Len(frames[x]) - 1
          /\ \A j \in 1 .. Len(frames[x]) - 1 : frames'[x][j] = IF j < i THEN frames[x][j] ELSE frames[x][j + 1]
      BY <1>1, <3>1, WithoutOne
    <3>3. Tally(frames'[x], w) + w[frames[x][i]] = Tally(frames[x], w)
      BY <1>1, <3>2, TallyOmit
    <3>4. Tally(frames'[x], w) \in Nat /\ w[frames[x][i]] \in Nat
      <4>1. frames[x][i] \in Frames
        BY <1>1, <3>2, FrameFields
      <4> QED BY <1>1, <3>2, <4>1, TallyNat
    <3> QED BY <1>2, <1>5, <3>3, <3>4, SMTT(30)
  <2> QED BY <1>5, <2>1, <2>2 DEF Loses
<1>6. CASE frames'[x] = frames[x]
  BY <1>2, <1>6, SMTT(30)
<1> QED BY <1>3, <1>4, <1>5, <1>6 DEF Calm

------------------------------------------------------------------------------
\* Links: who has closed what.

\* e has failed in no way that its stream could have noticed, and nothing was lost.
Open(e) == faults = 0 /\ peer[e] = "open" /\ ~closed[e]

\* Who closes a link has failed the stream first.  While no channel was lost, a
\* peer is given up only when one of the links is closed, and the other end of an
\* open one is open or closed by its own side.
Whole ==
    /\ \A e \in Ends :
          op[e] \in {"closePeer", "done", "abort", "resetWait"} \/ rc[e] = "giveUp" \/ linkClosed[e]
              => closed[e]
    /\ faults = 0 => \A e \in Ends :
          /\ peer[e] # "ready" /\ rc[e] \in {"none", "giveUp"}
          /\ peer[e] # "open" => linkClosed[e] \/ linkClosed[Other(e)]
          /\ peer[e] = "closed" => peer[Other(e)] # "open"

\* A peer that is given up opens again only after a loss; failures and losses
\* stay.
Opened == \A e \in Ends : peer'[e] = "open" => peer[e] = "open" \/ faults # 0
Lasting == (\A e \in Ends : closed[e] => closed'[e]) /\ (faults' = 0 => faults = 0)

\* The shapes of what the steps change.
LinkState ==
    /\ peer = [x \in Ends |-> peer[x]] /\ linkClosed = [x \in Ends |-> linkClosed[x]]
    /\ rc = [x \in Ends |-> rc[x]] /\ op = [x \in Ends |-> op[x]] /\ closed = [x \in Ends |-> closed[x]]
    /\ faults \in Nat

\* Whole is kept.
LEMMA WholeStep ==
    IInv /\ Whole /\ [Next]_vars => (Whole' /\ Opened /\ Lasting)
<1> USE Zenon
\* What the steps of the calls and of the links do to Whole.
<1>WholeUntouched. ASSUME Whole, UNCHANGED <<peer, linkClosed, rc, op, closed, faults>>
                   PROVE  Whole' /\ Opened /\ Lasting
  BY <1>WholeUntouched DEF Whole, Opened, Lasting
<1>WholeCalls. ASSUME LinkState, Whole, NEW e \in Ends,
                      \/ ReceiveAbort(e) \/ GraceExpires(e) \/ SendEof(e) \/ CloseFail(e) \/ Reset(e)
                      \/ SendAbort(e) \/ (\E call \in {"CloseWrite", "Close"} : CloseWrite(e, call))
               PROVE  Whole' /\ Opened /\ Lasting
  <2> USE <1>WholeCalls
  <2> USE DEF linkVars, histVars, callVars
  <2>1. \A x \in Ends : closed[x] => closed'[x]
    BY DEF ReceiveAbort, GraceExpires, SendEof, CloseFail, Reset, SendAbort, CloseWrite, Fail, LinkState
  <2>2. \A x \in Ends :
           op'[x] \in {"closePeer", "done", "abort", "resetWait"} \/ rc'[x] = "giveUp" \/ linkClosed'[x]
               => closed'[x]
    <3>1. CASE ReceiveAbort(e)
      BY <2>1, <3>1 DEF ReceiveAbort, Whole
    <3>2. CASE GraceExpires(e)
      BY <2>1, <3>2 DEF GraceExpires, Fail, LinkState, Whole
    <3>3. CASE SendEof(e)
      BY <2>1, <3>3 DEF SendEof, LinkState, Whole
    <3>4. CASE CloseFail(e)
      BY <2>1, <3>4 DEF CloseFail, Fail, LinkState, Whole
    <3>5. CASE Reset(e)
      BY <2>1, <3>5 DEF Reset, Fail, LinkState, Whole
    <3>6. CASE SendAbort(e)
      BY <2>1, <3>6 DEF SendAbort, LinkState, Whole
    <3>7. CASE \E call \in {"CloseWrite", "Close"} : CloseWrite(e, call)
      BY <2>1, <3>7, SMTT(30) DEF CloseWrite, LinkState, Whole
    <3> QED BY <3>1, <3>2, <3>3, <3>4, <3>5, <3>6, <3>7
  <2>3. peer' = peer /\ linkClosed' = linkClosed /\ faults' = faults
    BY DEF ReceiveAbort, GraceExpires, SendEof, CloseFail, Reset, SendAbort, CloseWrite
  <2>4. \A x \in Ends : rc'[x] = rc[x] \/ rc'[x] = "giveUp"
    BY DEF ReceiveAbort, GraceExpires, SendEof, CloseFail, Reset, SendAbort, CloseWrite, LinkState
  <2> QED BY <2>1, <2>2, <2>3, <2>4 DEF Whole, Opened, Lasting
<1>WholeLinks. ASSUME LinkState, Whole, NEW e \in Ends,
                      \/ ReceiveOverflow(e) \/ PeerClose(e) \/ Detach(e) \/ Dial \/ Attach(e)
                      \/ ReconnectedReset(e) \/ ReconnectedSend(e) \/ ReconnectedFail(e) \/ GaveUp(e) \/ ClosePeer(e)
               PROVE  Whole' /\ Opened /\ Lasting
  <2> USE <1>WholeLinks
  <2> USE DEF linkVars, histVars, callVars
  <2>0. Other(e) \in Ends /\ Other(e) # e /\ Other(Other(e)) = e /\ \A x \in Ends : x = e \/ x = Other(e)
    BY DEF Ends, Other
  <2>1. CASE ReceiveOverflow(e)
    <3>1. faults' # 0 /\ peer'[e] = "nil" /\ peer'[Other(e)] = peer[Other(e)]
      BY <2>0, <2>1, SMTT(30) DEF ReceiveOverflow, LinkState
    <3>2. \A x \in Ends : closed[x] => closed'[x]
      BY <2>1 DEF ReceiveOverflow, Fail, LinkState
    <3>3. linkClosed' = linkClosed /\ rc' = rc /\ op' = op
      BY <2>1 DEF ReceiveOverflow
    <3> QED BY <2>0, <3>1, <3>2, <3>3 DEF Whole, Opened, Lasting
  <2>2. CASE PeerClose(e)
    <3>1. peer'[e] = "closed" /\ peer'[Other(e)] = peer[Other(e)]
      BY <2>0, <2>2 DEF PeerClose, LinkState
    <3>2. closed' = closed /\ linkClosed' = linkClosed /\ rc' = rc /\ op' = op
      BY <2>2 DEF PeerClose
    <3>3. faults' = 0 => faults = 0 /\ peer[Other(e)] \in {"closed", "nil"}
      BY <2>2, SMTT(30) DEF PeerClose, Deserted, LinkState
    <3> QED BY <2>0, <3>1, <3>2, <3>3 DEF Whole, Opened, Lasting
  <2>3. CASE Detach(e)
    <3>1. peer[e] = "closed" /\ peer'[e] = "nil" /\ peer'[Other(e)] = peer[Other(e)]
      BY <2>0, <2>3 DEF Detach, LinkState
    <3>2. closed' = closed /\ linkClosed' = linkClosed /\ rc' = rc /\ op' = op /\ faults' = faults
      BY <2>3 DEF Detach
    <3> QED BY <2>0, <3>1, <3>2 DEF Whole, Opened, Lasting
  <2>4. CASE Dial
    <3>1. faults # 0
      BY <2>0, <2>4 DEF Dial, Whole
    <3>2. \A x \in Ends : peer'[x] # "open"
      BY <2>4 DEF Dial
    <3>3. closed' = closed /\ linkClosed' = linkClosed /\ rc' = rc /\ op' = op /\ faults' = faults
      BY <2>4 DEF Dial
    <3> QED BY <3>1, <3>2, <3>3 DEF Whole, Opened, Lasting
  <2>5. CASE Attach(e)
    <3>1. faults # 0
      BY <2>5 DEF Attach, Whole
    <3>2. \A x \in Ends : rc'[x] = "giveUp" => rc[x] = "giveUp"
      BY <2>5 DEF Attach, LinkState
    <3>3. closed' = closed /\ linkClosed' = linkClosed /\ op' = op /\ faults' = faults
      BY <2>5 DEF Attach
    <3> QED BY <3>1, <3>2, <3>3 DEF Whole, Opened, Lasting
  <2>6. CASE ReconnectedReset(e) \/ ReconnectedSend(e) \/ ReconnectedFail(e)
    <3>1. faults # 0
      BY <2>6 DEF ReconnectedReset, ReconnectedSend, ReconnectedFail, Whole
    <3>2. \A x \in Ends : rc'[x] = "giveUp" => rc[x] = "giveUp"
      BY <2>6 DEF ReconnectedReset, ReconnectedSend, ReconnectedFail, LinkState
    <3>3. \A x \in Ends : closed[x] => closed'[x]
      BY <2>6 DEF ReconnectedReset, ReconnectedSend, ReconnectedFail, Fail, LinkState
    <3>4. \A x \in Ends : linkClosed'[x] => linkClosed[x] \/ closed'[x]
      BY <2>6 DEF ReconnectedReset, ReconnectedSend, ReconnectedFail, Fail, LinkClose, LinkState
    <3>5. op' = op /\ faults' = faults
      BY <2>6 DEF ReconnectedReset, ReconnectedSend, ReconnectedFail
    <3> QED BY <3>1, <3>2, <3>3, <3>4, <3>5 DEF Whole, Opened, Lasting
  <2>7. CASE GaveUp(e) \/ ClosePeer(e)
    <3>1. peer'[e] = "nil" /\ peer'[Other(e)] = peer[Other(e)]
      BY <2>0, <2>7 DEF GaveUp, ClosePeer, LinkClose, LinkState
    <3>2. closed[e] /\ linkClosed'[e] /\ linkClosed'[Other(e)] = linkClosed[Other(e)]
      BY <2>0, <2>7 DEF GaveUp, ClosePeer, LinkClose, LinkState, Whole
    <3>3. closed' = closed /\ faults' = faults
      BY <2>7 DEF GaveUp, ClosePeer
    <3>4. (rc'[e] = rc[e] \/ rc'[e] = "none") /\ rc'[Other(e)] = rc[Other(e)] /\ op'[Other(e)] = op[Other(e)]
      BY <2>0, <2>7 DEF GaveUp, ClosePeer, LinkState
    <3> QED BY <2>0, <3>1, <3>2, <3>3, <3>4, ZenonT(30) DEF Whole, Opened, Lasting
  <2> QED BY <2>1, <2>2, <2>3, <2>4, <2>5, <2>6, <2>7
<1> SUFFICES ASSUME IInv, Whole, [Next]_vars
             PROVE  Whole' /\ Opened /\ Lasting
  OBVIOUS
<1>1. LinkState
  BY DEF IInv, TypeOK, LinkTypes, CallTypes, CloseTypes, HistTypes, LinkState
<1>2. CASE UNCHANGED vars
  <2>1. UNCHANGED <<peer, linkClosed, rc, op, closed, faults>>
    BY <1>2 DEF vars, linkVars, callVars, histVars
  <2> QED BY <2>1, <1>WholeUntouched
<1>3. CASE Dial
  <2>1. "client" \in Ends
    BY DEF Ends
  <2> QED BY <1>1, <1>3, <2>1, <1>WholeLinks
<1>4. ASSUME NEW e \in Ends, Environment(e) \/ Progress(e) PROVE Whole' /\ Opened /\ Lasting
  <2>1. ASSUME \/ \E n \in Sizes : WriteBegin(e, n)
               \/ WriteAdmit(e) \/ WriteAbandon(e) \/ WriteSend(e) \/ WriteFail(e)
               \/ ReadPart(e) \/ Read(e) \/ SendFlow(e) \/ (\E n \in Sizes : SendAck(e, n))
               \/ ReceiveData(e) \/ ReceiveEof(e) \/ ReceiveFlow(e) \/ ReceiveResume(e)
               \/ ReceiveAck(e) \/ DropFrame(e) \/ FailFinish(e)
        PROVE  UNCHANGED <<peer, linkClosed, rc, op, closed, faults>>
    BY <2>1 DEF WriteBegin, WriteAdmit, WriteAbandon, WriteSend, WriteFail, ReadPart, Read, SendFlow,
             SendAck, ReceiveData, ReceiveEof, ReceiveFlow, ReceiveResume, ReceiveAck, DropFrame,
             FailFinish, linkVars, callVars, histVars
  <2> QED BY <1>1, <1>4, <2>1, <1>WholeUntouched, <1>WholeCalls, <1>WholeLinks
             DEF Environment, Progress, Receive
<1> QED BY <1>2, <1>3, <1>4 DEF Next

\* While nothing was lost and nobody has failed, both ends are open.
LEMMA BothOpen ==
    ASSUME Whole, faults = 0, \A e \in Ends : ~closed[e]
    PROVE  \A e \in Ends : Open(e) /\ rc[e] = "none" /\ ~linkClosed[e]
<1>1. \A e \in Ends : Other(e) \in Ends
  BY OtherEnd, Zenon
<1> QED BY <1>1, Zenon DEF Whole, Open

\* An open end has been open all along, and the other one is open or closed its link.
LEMMA OpenBefore ==
    ASSUME Whole, Opened, Lasting, NEW e \in Ends, Open(e)'
    PROVE  Open(e) /\ rc[e] = "none" /\ op[e] # "closePeer" /\ peer[Other(e)] # "closed"
<1> USE Zenon
<1>1. Open(e)
  BY DEF Open, Opened, Lasting
<1>2. Other(e) \in Ends /\ Other(Other(e)) = e
  BY OtherEnd
<1> QED BY <1>1, <1>2 DEF Open, Whole

------------------------------------------------------------------------------
\* The end of the stream.

\* Chunks on their way to x.
Chunks == [f \in Frames |-> IF f.type = "data" THEN 1 ELSE 0]
Coming(x) == Tally(frames[x], Chunks)
HasEof(s) == \E i \in 1 .. Len(s) : s[i].type = "eof"
EofLast(s) == \A i, j \in 1 .. Len(s) : i < j /\ s[i].type = "eof" => s[j].type # "data"
NoData(s) == \A i \in 1 .. Len(s) : s[i].type # "data"

\* No more writes at e, and its eof is not waiting to be sent.
Ended(e) == writeClosed[e] /\ wr[e].pc = "idle" /\ ~Ending(e)

\* As long as x is open, it has or will have everything that was written, and eof
\* is the last of it.
EofState(x) ==
    /\ closedRead[x] \/ HasEof(frames[x]) => Ended(Other(x))
    /\ EofLast(frames[x])
    /\ closedRead[x] => NoData(frames[x])
    /\ Len(delivered[x]) + Len(readQueue[x]) + Coming(x) = written[Other(x)]

\* Each data frame is one chunk, any other none.
LEMMA ChunkWeights ==
    /\ Chunks \in [Frames -> Nat]
    /\ \A f \in Frames : Chunks[f] = IF f.type = "data" THEN 1 ELSE 0
    /\ Light(Chunks)
<1> USE Zenon
<1>1. Chunks \in [Frames -> Nat] /\ \A f \in Frames : Chunks[f] = IF f.type = "data" THEN 1 ELSE 0
  BY DEF Chunks
<1>2. \A c \in Controls : Control(c) \in Frames /\ Control(c).type # "data"
  BY ControlFrames
<1>3. \A c \in Controls : Chunks[Control(c)] = 0
  BY <1>1, <1>2
<1>4. \A f \in Frames : f.type \in {"eof", "abort", "flow"} => Chunks[f] = 0
  BY <1>1
<1> QED BY <1>1, <1>3, <1>4 DEF Light

\* What appending and taking a frame do to the order of data and eof.
LEMMA EofAppend ==
    ASSUME NEW s \in Seq(Frames), NEW c \in Frames
    PROVE  /\ HasEof(Append(s, c)) => HasEof(s) \/ c.type = "eof"
           /\ EofLast(s) /\ (c.type = "data" => ~HasEof(s)) => EofLast(Append(s, c))
           /\ NoData(s) /\ c.type # "data" => NoData(Append(s, c))
<1>1. Len(Append(s, c)) = Len(s) + 1 /\ \A i \in 1 .. Len(s) + 1 : Append(s, c)[i] = IF i <= Len(s) THEN s[i] ELSE c
  OBVIOUS
<1>2. PICK l \in Nat : l = Len(s)
  OBVIOUS
<1>3. PICK t : t = Append(s, c)
  BY Zenon
<1>4. Len(t) = l + 1 /\ \A i \in 1 .. l + 1 : t[i] = IF i <= l THEN s[i] ELSE c
  BY <1>1, <1>2, <1>3, Zenon
<1>5. HasEof(t) => HasEof(s) \/ c.type = "eof"
  BY <1>2, <1>4 DEF HasEof
<1>6. ASSUME EofLast(s), c.type = "data" => ~HasEof(s) PROVE EofLast(t)
  <2>1. SUFFICES ASSUME NEW i \in 1 .. l + 1, NEW j \in 1 .. l + 1, i < j, t[i].type = "eof" PROVE t[j].type # "data"
    BY <1>4, Zenon DEF EofLast
  <2>2. i \in 1 .. l /\ t[i] = s[i]
    BY <1>4, <2>1
  <2>3. CASE j \in 1 .. l
    <3>1. t[j] = s[j]
      BY <1>4, <2>3
    <3> QED BY <1>2, <1>6, <2>1, <2>2, <2>3, <3>1, Zenon DEF EofLast
  <2>4. CASE j = l + 1
    <3>1. t[j] = c
      BY <1>4, <2>4
    <3> QED BY <1>2, <1>6, <2>1, <2>2, <3>1, Zenon DEF HasEof
  <2> QED BY <2>1, <2>3, <2>4
<1>7. NoData(s) /\ c.type # "data" => NoData(t)
  BY <1>2, <1>4 DEF NoData
<1> QED BY <1>3, <1>5, <1>6, <1>7, Zenon

\* What taking the first frame does to the position of eof.
LEMMA EofTail ==
    ASSUME NEW s \in Seq(Frames), s # <<>>
    PROVE  /\ HasEof(Tail(s)) => HasEof(s)
           /\ EofLast(s) => EofLast(Tail(s))
           /\ NoData(s) => NoData(Tail(s)) /\ Head(s).type # "data"
           /\ Head(s).type = "eof" => HasEof(s) /\ (EofLast(s) => NoData(Tail(s)))
<1>1. PICK l \in Nat : l = Len(s) /\ l > 0
  OBVIOUS
<1>2. PICK t : t = Tail(s)
  BY Zenon
<1>3. Len(t) = l - 1 /\ (\A i \in 1 .. l - 1 : t[i] = s[i + 1]) /\ Head(s) = s[1]
  BY <1>1, <1>2
<1>4. HasEof(t) => HasEof(s)
  BY <1>1, <1>3 DEF HasEof
<1>5. EofLast(s) => EofLast(t)
  BY <1>1, <1>3 DEF EofLast
<1>6. NoData(s) => NoData(t) /\ Head(s).type # "data"
  BY <1>1, <1>3 DEF NoData
<1>7. Head(s).type = "eof" => HasEof(s) /\ (EofLast(s) => NoData(t))
  BY <1>1, <1>3 DEF HasEof, EofLast, NoData
<1> QED BY <1>2, <1>4, <1>5, <1>6, <1>7, Zenon

\* Frames that are neither data nor eof come and go.
Aside(x) ==
    \/ frames'[x] = frames[x]
    \/ \E c \in Frames : c.type \notin {"data", "eof"} /\ frames'[x] = Append(frames[x], c)
    \/ frames[x] # <<>> /\ Head(frames[x]).type # "data" /\ frames'[x] = Tail(frames[x])

------------------------------------------------------------------------------
\* The invariant and the theorem.

\* The inductive invariant.
EofInv == IInv /\ Whole /\ \A e \in Ends : Open(e) => EofState(e)

\* It holds initially.
LEMMA InitEof == Init => EofInv
<1> USE Zenon
<1> SUFFICES ASSUME Init PROVE EofInv
  OBVIOUS
<1>1. IInv
  BY InitEstablishesIInv
<1>2. Whole
  BY DEF Init, Whole
<1>3. ASSUME NEW e \in Ends PROVE EofState(e)
  <2>1. frames[e] = <<>> /\ readQueue[e] = <<>> /\ delivered[e] = <<>> /\ closedRead[e] = FALSE
    BY DEF Init
  <2>2. Other(e) \in Ends /\ written[Other(e)] = 0
    BY OtherEnd DEF Init
  <2>3. Coming(e) = 0
    BY <2>1, TallyEmpty DEF Coming
  <2>4. ~HasEof(<<>>) /\ EofLast(<<>>)
    BY SMTT(30) DEF HasEof, EofLast
  <2>5. Len(<<>>) + Len(<<>>) + 0 = 0
    BY SMTT(30)
  <2> QED BY <2>1, <2>2, <2>3, <2>4, <2>5 DEF EofState
<1> QED BY <1>1, <1>2, <1>3 DEF EofInv

\* Every step keeps it.
LEMMA EofStep == EofInv /\ [Next]_vars => EofInv'
<1> USE Zenon
\* Such frames do not matter to the end of the stream.
<1>EofAside. ASSUME IInv, NEW x \in Ends, EofState(x), Aside(x),
                    UNCHANGED <<delivered[x], readQueue[x], written[Other(x)]>>,
                    closedRead'[x] => closedRead[x], Ended(Other(x)) => Ended(Other(x))'
             PROVE  EofState(x)'
  <2> USE <1>EofAside
  <2>1. frames[x] \in Seq(Frames)
    BY DEF IInv, TypeOK, LinkTypes
  <2>2. Coming(x) \in Nat
    BY <2>1, ChunkWeights, TallyNat DEF Coming
  <2>3. Coming(x)' = Coming(x) /\ (HasEof(frames'[x]) => HasEof(frames[x]))
        /\ EofLast(frames'[x]) /\ (NoData(frames[x]) => NoData(frames'[x]))
    <3>1. CASE frames'[x] = frames[x]
      BY <3>1 DEF EofState, Coming
    <3>2. CASE \E c \in Frames : c.type \notin {"data", "eof"} /\ frames'[x] = Append(frames[x], c)
      <4>0. PICK c \in Frames : c.type # "data" /\ c.type # "eof" /\ frames'[x] = Append(frames[x], c)
        BY <3>2
      <4>1. Tally(Append(frames[x], c), Chunks) = Tally(frames[x], Chunks) + Chunks[c]
        BY <2>1, ChunkWeights, TallyAppend
      <4>2. Chunks[c] = 0
        BY <4>0, ChunkWeights
      <4>3. Tally(Append(frames[x], c), Chunks) = Tally(frames[x], Chunks)
        <5>1. PICK k \in Nat : k = Tally(frames[x], Chunks)
          BY <2>2 DEF Coming
        <5>2. k + 0 = k
          BY SMTT(30)
        <5> QED BY <4>1, <4>2, <5>1, <5>2
      <4> QED BY <2>1, <4>0, <4>3, EofAppend DEF Coming, EofState
    <3>3. CASE frames[x] # <<>> /\ Head(frames[x]).type # "data" /\ frames'[x] = Tail(frames[x])
      <4>1. Tally(Tail(frames[x]), Chunks) + Chunks[Head(frames[x])] = Tally(frames[x], Chunks)
        BY <2>1, <3>3, ChunkWeights, TallyTail
      <4>2. Head(frames[x]) \in Frames /\ Tail(frames[x]) \in Seq(Frames)
        BY <2>1, <3>3, HeadFrame, SMTT(30)
      <4>3. Chunks[Head(frames[x])] = 0 /\ Tally(Tail(frames[x]), Chunks) \in Nat
        BY <3>3, <4>2, ChunkWeights, TallyNat
      <4>4. Tally(Tail(frames[x]), Chunks) = Tally(frames[x], Chunks)
        BY <4>1, <4>3, SMTT(30)
      <4> QED BY <2>1, <3>3, <4>4, EofTail DEF Coming, EofState
    <3> QED BY <3>1, <3>2, <3>3 DEF Aside
  <2>4. delivered'[x] = delivered[x] /\ readQueue'[x] = readQueue[x] /\ written'[Other(x)] = written[Other(x)]
    OBVIOUS
  <2> QED BY <2>3, <2>4 DEF EofState
\* Once ended, an end stays so.
<1>EndedStays. ASSUME IInv, [Next]_vars, NEW x \in Ends, Ended(x)
               PROVE  Ended(x)'
  <2> USE <1>EndedStays
  <2> USE DEF callVars
  <2>1. wr = [y \in Ends |-> wr[y]]
    BY DEF IInv, TypeOK, CallTypes
  <2>2. CASE Calm
    BY <2>2 DEF Calm, Untouched, Ended, Ending
  <2>3. ASSUME NEW e \in Ends, Busy(e) PROVE Ended(x)'
    <3>1. UNCHANGED <<writeClosed, op>>
      BY <2>3 DEF Busy, WriteBegin, WriteAdmit, WriteAbandon, WriteSend, WriteFail, ReadPart, Read, SendAck,
               ReceiveData, ReceiveResume, ReceiveAck, ReconnectedReset
    <3>2. CASE x = e /\ (\E n \in Sizes : WriteBegin(e, n))
      BY <3>2 DEF WriteBegin, Ended
    <3>3. CASE x = e /\ (WriteAdmit(e) \/ WriteAbandon(e) \/ WriteSend(e) \/ WriteFail(e))
      BY <3>3 DEF WriteAdmit, WriteAbandon, WriteSend, WriteFail, Ended
    <3>4. CASE x # e \/ ReadPart(e) \/ Read(e) \/ (\E n \in Sizes : SendAck(e, n))
               \/ ReceiveData(e) \/ ReceiveResume(e) \/ ReceiveAck(e) \/ ReconnectedReset(e)
      <4>1. wr'[x] = wr[x]
        BY <2>1, <2>3, <3>4 DEF Busy, WriteBegin, WriteAdmit, WriteAbandon, WriteSend, WriteFail, ReadPart, Read,
                 SendAck, ReceiveData, ReceiveResume, ReceiveAck, ReconnectedReset
      <4> QED BY <3>1, <4>1 DEF Ended, Ending
    <3> QED BY <2>3, <3>2, <3>3, <3>4 DEF Busy
  <2> QED BY <2>2, <2>3, CalmOrBusy
\* The steps that neither write nor read: eof is sent after the last write and
\* received after the data.
<1>EofCalm. ASSUME IInv, Whole, Opened, Lasting, [Next]_vars, Calm, NEW x \in Ends, Open(x)', EofState(x)
            PROVE  EofState(x)'
  <2> USE <1>EofCalm
  <2>1. frames[x] \in Seq(Frames) /\ Other(x) \in Ends
    BY OtherEnd DEF IInv, TypeOK, LinkTypes
  <2>2. peer[x] = "open" /\ rc[x] = "none" /\ op[x] # "closePeer" /\ faults' = 0 /\ ~closed'[x]
    BY OpenBefore DEF Open
  <2>3. ~Loses(x)
    BY <2>2 DEF Loses
  <2>4. UNCHANGED <<wr, readQueue, delivered, written>>
    BY DEF Calm, Untouched
  <2>5. UNCHANGED <<delivered[x], readQueue[x], written[Other(x)]>>
    BY <2>4
  <2>6. Ended(Other(x)) => Ended(Other(x))'
    BY <2>1, <1>EndedStays
  <2>7. closedRead'[x] => closedRead[x] \/ (Takes(x) /\ Head(frames[x]).type = "eof")
    BY <2>2 DEF Calm
  <2>8. CASE Gets(x)
    <3>1. PICK c \in Controls : /\ frames'[x] = Append(frames[x], Control(c))
                                /\ c = "eof" => Ending(Other(x)) /\ op'[Other(x)] \in {"none", "fail"}
      BY <2>8 DEF Gets
    <3>2. Control(c) \in Frames /\ Control(c).type = c /\ c # "data"
      BY <3>1 DEF Control, Controls, Frames
    <3>3. closedRead'[x] => closedRead[x]
      <4>1. frames'[x] # Tail(frames[x]) \/ frames[x] = <<>>
        BY <2>1, <3>1, <3>2, SMTT(30)
      <4> QED BY <2>7, <4>1 DEF Takes
    <3>4. CASE c # "eof"
      <4>1. Aside(x)
        BY <3>1, <3>2, <3>4 DEF Aside
      <4> QED BY <2>5, <2>6, <3>3, <4>1, <1>EofAside
    <3>5. CASE c = "eof"
      <4>1. Ended(Other(x))'
        <5>1. wr[Other(x)].pc = "idle" /\ writeClosed[Other(x)]
          BY <2>1, <3>1, <3>5 DEF IInv, TypeOK, WriteMuHeld, Ending
        <5>2. writeClosed'[Other(x)] /\ wr'[Other(x)].pc = "idle"
          BY <2>1, <2>4, <5>1 DEF Calm
        <5>3. ~Ending(Other(x))'
          BY <3>1, <3>5 DEF Ending
        <5> QED BY <5>2, <5>3 DEF Ended
      <4>2. EofLast(frames'[x]) /\ (NoData(frames[x]) => NoData(frames'[x]))
        BY <2>1, <3>1, <3>2, EofAppend DEF EofState
      <4>3. Coming(x)' = Coming(x)
        BY <2>3, CalmTally, ChunkWeights DEF Coming
      <4> QED BY <2>5, <3>3, <4>1, <4>2, <4>3 DEF EofState
    <3> QED BY <3>4, <3>5
  <2>9. CASE Takes(x) /\ Head(frames[x]).type = "eof"
    <3>1. frames[x] # <<>> /\ frames'[x] = Tail(frames[x])
      BY <2>9 DEF Takes
    <3>2. HasEof(frames[x]) /\ NoData(frames'[x]) /\ EofLast(frames'[x])
      BY <2>1, <2>9, <3>1, EofTail DEF EofState
    <3>3. Ended(Other(x))'
      BY <2>6, <3>2 DEF EofState
    <3>4. Coming(x)' = Coming(x)
      BY <2>3, CalmTally, ChunkWeights DEF Coming
    <3> QED BY <2>5, <3>2, <3>3, <3>4 DEF EofState
  <2>10. CASE frames'[x] = frames[x] \/ (Takes(x) /\ Head(frames[x]).type # "eof")
    <3>1. Aside(x)
      BY <2>10 DEF Aside, Takes
    <3>2. closedRead'[x] => closedRead[x] \/ (Takes(x) /\ Head(frames[x]).type = "eof")
      BY <2>7
    <3> QED BY <2>5, <2>6, <2>9, <2>10, <3>1, <3>2, <1>EofAside
  <2> QED BY <2>3, <2>8, <2>9, <2>10 DEF Calm
\* The writer: no write follows eof, since CloseWrite holds writeMu
\* (stream.go:66-127).
<1>EofWrite. ASSUME IInv, Whole, Opened, Lasting, [Next]_vars, NEW e \in Ends, WriteSend(e),
                    NEW x \in Ends, Open(x)', EofState(x)
             PROVE  EofState(x)'
  <2> USE <1>EofWrite
  <2> USE DEF readVars
  <2>1. frames[x] \in Seq(Frames) /\ Other(x) \in Ends /\ (x = e \/ x = Other(e)) /\ Other(Other(e)) = e /\ Other(e) # e
    BY DEF Ends, Other, IInv, TypeOK, LinkTypes
  <2>2. UNCHANGED <<readQueue, delivered, closedRead>>
    BY DEF WriteSend
  <2>3. written \in [Ends -> Nat] /\ wr[e].len \in Nat /\ written' = [written EXCEPT ![e] = @ + 1]
    BY DEF IInv, TypeOK, HistTypes, CallTypes, Writers, WriteSend
  <2>4. PICK c : c = Data(written[e] + 1, wr[e].len)
    OBVIOUS
  <2>5. c \in Frames /\ c.type = "data"
    BY <2>3, <2>4, SMTT(30) DEF Data, Frames
  <2>6. Put(e, c)
    BY <2>4 DEF WriteSend
  <2>7. frames'[e] = frames[e] /\ (Carries(e) => frames'[Other(e)] = Append(frames[Other(e)], c))
    BY <2>5, <2>6, PutFrames
  <2>8. CASE x = e
    <3>1. Aside(x) /\ written'[Other(x)] = written[Other(x)]
      BY <2>1, <2>3, <2>7, <2>8 DEF Aside
    <3>2. Ended(Other(x)) => Ended(Other(x))'
      BY <2>1, <1>EndedStays
    <3> QED BY <2>2, <3>1, <3>2, <1>EofAside
  <2>9. CASE x = Other(e)
    <3>1. Carries(e)
      <4>1. peer[x] = "open" /\ peer[e] # "closed"
        BY <2>1, <2>9, OpenBefore DEF Open
      <4> QED BY <2>9, <4>1 DEF Carries, WriteSend
    <3>2. ~Ended(e) /\ Other(x) = e
      BY <2>1, <2>9 DEF Ended, WriteSend
    <3>3. ~closedRead[x] /\ ~HasEof(frames[x])
      BY <3>2 DEF EofState
    <3>4. frames'[x] = Append(frames[x], c)
      BY <2>7, <2>9, <3>1
    <3>5. ~HasEof(frames'[x]) /\ EofLast(frames'[x])
      BY <2>1, <2>5, <3>3, <3>4, EofAppend DEF EofState
    <3>6. Coming(x)' = Coming(x) + 1 /\ Coming(x) \in Nat
      <4>1. Tally(Append(frames[x], c), Chunks) = Tally(frames[x], Chunks) + Chunks[c] /\ Chunks[c] = 1
        BY <2>1, <2>5, ChunkWeights, TallyAppend
      <4>2. Tally(frames[x], Chunks) \in Nat
        BY <2>1, ChunkWeights, TallyNat
      <4> QED BY <3>4, <4>1, <4>2 DEF Coming
    <3>7. written'[Other(x)] = written[Other(x)] + 1
      BY <2>3, <3>2
    <3>8. Len(delivered[x]) \in Nat /\ Len(readQueue[x]) \in Nat
      BY SMTT(30) DEF IInv, TypeOK, ReadTypes, HistTypes
    <3>9. Len(delivered'[x]) + Len(readQueue'[x]) + Coming(x)' = written'[Other(x)]
      <4>1. Len(delivered[x]) + Len(readQueue[x]) + Coming(x) = written[Other(x)]
        BY DEF EofState
      <4>2. Len(delivered[x]) + Len(readQueue[x]) + Coming(x)' = written'[Other(x)]
        <5>1. PICK a \in Nat, b \in Nat, k \in Nat : a = Len(delivered[x]) /\ b = Len(readQueue[x]) /\ k = Coming(x)
          BY <3>6, <3>8
        <5>2. a + b + k = written[Other(x)]
          BY <4>1, <5>1
        <5>3. a + b + (k + 1) = written[Other(x)] + 1
          BY <5>2, SMTT(30)
        <5>4. a + b + Coming(x)' = written'[Other(x)]
          BY <3>6, <3>7, <5>1, <5>3
        <5> QED BY <5>1, <5>4
      <4> QED BY <2>2, <4>2
    <3> QED BY <2>2, <3>3, <3>5, <3>9 DEF EofState
  <2> QED BY <2>1, <2>8, <2>9
\* The reader, the receiver of data and the remaining steps.
<1>EofRead. ASSUME IInv, [Next]_vars, NEW e \in Ends, Read(e), NEW x \in Ends, EofState(x)
            PROVE  EofState(x)'
  <2> USE <1>EofRead
  <2>1. /\ readQueue \in [Ends -> Seq(Frames)] /\ delivered \in [Ends -> Seq(Nat)] /\ Other(x) \in Ends
        /\ UNCHANGED <<closedRead, frames, written>>
    BY OtherEnd DEF IInv, TypeOK, ReadTypes, HistTypes, Read, linkVars
  <2>2. Ended(Other(x)) => Ended(Other(x))'
    BY <2>1, <1>EndedStays
  <2>3. CASE x # e
    <3>1. readQueue'[x] = readQueue[x] /\ delivered'[x] = delivered[x]
      BY <2>1, <2>3 DEF Read
    <3>2. Aside(x)
      BY <2>1 DEF Aside
    <3> QED BY <2>1, <2>2, <3>1, <3>2, <1>EofAside
  <2>4. CASE x = e
    <3>1. /\ readQueue[x] # <<>> /\ readQueue'[x] = Tail(readQueue[x])
          /\ delivered'[x] = Append(delivered[x], Head(readQueue[x]).id)
      BY <2>1, <2>4 DEF Read, Taken
    <3>2. Len(readQueue'[x]) = Len(readQueue[x]) - 1 /\ Len(readQueue[x]) \in Nat
      <4>1. PICK q \in Seq(Frames) : q = readQueue[x]
        BY <2>1
      <4>2. q # <<>> => Len(Tail(q)) = Len(q) - 1 /\ Len(q) \in Nat
        BY SMTT(30)
      <4> QED BY <3>1, <4>1, <4>2
    <3>3. Len(delivered'[x]) = Len(delivered[x]) + 1 /\ Len(delivered[x]) \in Nat
      <4>1. Head(readQueue[x]).id \in Nat
        BY <2>1, <3>1, HeadFrame
      <4> QED BY <2>1, <3>1, <4>1, SMTT(30)
    <3>4. Coming(x) \in Nat /\ Coming(x)' = Coming(x)
      <4>1. frames[x] \in Seq(Frames)
        BY DEF IInv, TypeOK, LinkTypes
      <4> QED BY <2>1, <4>1, ChunkWeights, TallyNat DEF Coming
    <3>5. Len(delivered'[x]) + Len(readQueue'[x]) + Coming(x)' = Len(delivered[x]) + Len(readQueue[x]) + Coming(x)
      <4>1. PICK a \in Nat, b \in Nat, k \in Nat : a = Len(delivered[x]) /\ b = Len(readQueue[x]) /\ k = Coming(x)
        BY <3>2, <3>3, <3>4
      <4>2. PICK m, n : m = Len(delivered'[x]) /\ n = Len(readQueue'[x])
        OBVIOUS
      <4>3. m = a + 1 /\ n = b - 1
        BY <3>2, <3>3, <4>1, <4>2
      <4>4. m + n + k = a + b + k
        BY <4>3, SMTT(30)
      <4> QED BY <3>4, <4>1, <4>2, <4>4
    <3> QED BY <2>1, <2>2, <3>5 DEF EofState
  <2> QED BY <2>3, <2>4
<1>EofData. ASSUME IInv, [Next]_vars, Opened, Lasting, Whole, NEW e \in Ends, ReceiveData(e), NEW x \in Ends, Open(x)', EofState(x)
            PROVE  EofState(x)'
  <2> USE <1>EofData
  <2> USE DEF callVars, histVars
  <2>1. /\ readQueue \in [Ends -> Seq(Frames)] /\ frames \in [Ends -> Seq(Frames)] /\ Other(x) \in Ends
        /\ UNCHANGED <<closedRead, delivered, written>>
    BY OtherEnd DEF IInv, TypeOK, ReadTypes, LinkTypes, ReceiveData
  <2>2. Ended(Other(x)) => Ended(Other(x))'
    BY <2>1, <1>EndedStays
  <2>3. frames[e] # <<>> /\ Head(frames[e]).type = "data" /\ frames' = [frames EXCEPT ![e] = Tail(@)]
    BY DEF ReceiveData, Receiving, Ready
  <2>4. CASE x # e
    <3>1. readQueue'[x] = readQueue[x] /\ frames'[x] = frames[x]
      BY <2>1, <2>3, <2>4 DEF ReceiveData
    <3>2. Aside(x)
      BY <3>1 DEF Aside
    <3> QED BY <2>1, <2>2, <3>1, <3>2, <1>EofAside
  <2>5. CASE x = e
    <3>1. ~closedRead[x] /\ ~closed[x]
      <4>1. ~NoData(frames[x])
        BY <2>1, <2>3, <2>5, EofTail
      <4>2. Open(x)
        BY OpenBefore
      <4> QED BY <4>1, <4>2 DEF EofState, Open
    <3>2. frames'[x] = Tail(frames[x]) /\ readQueue'[x] = Append(readQueue[x], Head(frames[x]))
      BY <2>1, <2>3, <2>5, <3>1 DEF ReceiveData
    <3>3. Head(frames[x]) \in Frames /\ Tail(frames[x]) \in Seq(Frames)
      BY <2>1, <2>3, <2>5, HeadFrame, SMTT(30)
    <3>4. Coming(x)' + 1 = Coming(x) /\ Coming(x)' \in Nat
      <4>1. Tally(Tail(frames[x]), Chunks) + Chunks[Head(frames[x])] = Tally(frames[x], Chunks)
        BY <2>1, <2>3, <2>5, ChunkWeights, TallyTail
      <4>2. Chunks[Head(frames[x])] = 1 /\ Tally(Tail(frames[x]), Chunks) \in Nat
        BY <2>3, <2>5, <3>3, ChunkWeights, TallyNat
      <4> QED BY <3>2, <4>1, <4>2 DEF Coming
    <3>5. Len(readQueue'[x]) = Len(readQueue[x]) + 1 /\ Len(readQueue[x]) \in Nat
      BY <2>1, <3>2, <3>3, SMTT(30)
    <3>6. Len(delivered[x]) \in Nat
      BY SMTT(30) DEF IInv, TypeOK, HistTypes
    <3>7. Len(delivered[x]) + Len(readQueue'[x]) + Coming(x)' = Len(delivered[x]) + Len(readQueue[x]) + Coming(x)
      <4>1. PICK a \in Nat, b \in Nat, k \in Nat : a = Len(delivered[x]) /\ b = Len(readQueue[x]) /\ k = Coming(x)'
        BY <3>4, <3>5, <3>6
      <4>2. PICK n : n = Len(readQueue'[x])
        OBVIOUS
      <4>3. n = b + 1 /\ Coming(x) = k + 1
        BY <3>4, <3>5, <4>1, <4>2
      <4>4. a + n + k = a + b + (k + 1)
        BY <4>3, SMTT(30)
      <4> QED BY <4>1, <4>2, <4>3, <4>4
    <3>8. (HasEof(frames'[x]) => HasEof(frames[x])) /\ EofLast(frames'[x])
      BY <2>1, <2>3, <2>5, <3>2, EofTail DEF EofState
    <3> QED BY <2>1, <2>2, <3>1, <3>7, <3>8 DEF EofState
  <2> QED BY <2>4, <2>5
<1>EofBusy. ASSUME IInv, [Next]_vars, Opened, Lasting, Whole, NEW e \in Ends, Busy(e), NEW x \in Ends, Open(x)', EofState(x)
            PROVE  EofState(x)'
  <2> USE <1>EofBusy
  <2> USE DEF callVars, histVars, readVars, linkVars
  <2>1. Other(x) \in Ends /\ Other(e) \in Ends /\ Other(e) # e /\ (x = e \/ x = Other(e))
    BY DEF Ends, Other
  <2>2. Ended(Other(x)) => Ended(Other(x))'
    BY <2>1, <1>EndedStays
  <2>3. CASE \/ \E n \in Sizes : WriteBegin(e, n)
             \/ WriteAdmit(e) \/ WriteAbandon(e) \/ WriteFail(e) \/ ReadPart(e) \/ ReconnectedReset(e)
    <3>1. UNCHANGED <<frames, closedRead, delivered, written, readQueue>>
      BY <2>3 DEF WriteBegin, WriteAdmit, WriteAbandon, WriteFail, ReadPart, ReconnectedReset
    <3>2. Aside(x)
      BY <3>1 DEF Aside
    <3> QED BY <2>2, <3>1, <3>2, <1>EofAside
  <2>4. CASE (\E n \in Sizes : SendAck(e, n)) \/ ReceiveAck(e) \/ ReceiveResume(e)
    <3>1. UNCHANGED <<closedRead, delivered, written, readQueue>>
      BY <2>4 DEF SendAck, ReceiveAck, ReceiveResume
    <3>2. Aside(x)
      <4>1. ASSUME NEW n \in Sizes, SendAck(e, n) PROVE Aside(x)
        <5>1. Ack(n) \in Frames /\ Ack(n).type \notin {"data", "eof"}
          BY SizesAssumption DEF Ack, Frames, Controls
        <5>2. frames'[e] = frames[e] /\ (frames'[Other(e)] = frames[Other(e)] \/ frames'[Other(e)] = Append(frames[Other(e)], Ack(n)))
          BY <4>1, <5>1, PutFrames DEF SendAck
        <5> QED BY <2>1, <5>1, <5>2 DEF Aside
      <4>2. CASE ReceiveAck(e)
        <5>1. frames[e] # <<>> /\ Head(frames[e]).type # "data" /\ frames' = [frames EXCEPT ![e] = Tail(@)]
          BY <4>2 DEF ReceiveAck, Receiving, Ready
        <5>2. frames'[e] = Tail(frames[e]) /\ frames'[Other(e)] = frames[Other(e)]
          BY <2>1, <5>1 DEF IInv, TypeOK, LinkTypes
        <5> QED BY <2>1, <5>1, <5>2 DEF Aside
      <4>3. CASE ReceiveResume(e)
        <5>1. Control("flow") \in Frames /\ Control("flow").type \notin {"data", "eof"}
          BY DEF Control, Controls, Frames
        <5>2. frames[e] # <<>> /\ Head(frames[e]).type # "data" /\ frames'[e] = Tail(frames[e])
          BY <4>3 DEF ReceiveResume, Ready
        <5>3. frames'[Other(e)] = frames[Other(e)] \/ frames'[Other(e)] = Append(frames[Other(e)], Control("flow"))
          BY <2>1, <4>3 DEF ReceiveResume
        <5> QED BY <2>1, <5>1, <5>2, <5>3 DEF Aside
      <4> QED BY <2>4, <4>1, <4>2, <4>3
    <3> QED BY <2>2, <3>1, <3>2, <1>EofAside
  <2> QED BY <2>3, <2>4, <1>EofWrite, <1>EofRead, <1>EofData DEF Busy
<1> SUFFICES ASSUME EofInv, [Next]_vars PROVE EofInv'
  OBVIOUS
<1>1. IInv /\ Whole
  BY DEF EofInv
<1>2. IInv'
  BY <1>1, Inductive
<1>3. Whole' /\ Opened /\ Lasting
  BY <1>1, WholeStep
<1>4. ASSUME NEW e \in Ends, Open(e)' PROVE EofState(e)'
  <2>1. EofState(e)
    BY <1>1, <1>3, <1>4, OpenBefore DEF EofInv
  <2> QED BY <1>1, <1>3, <1>4, <2>1, CalmOrBusy, <1>EofCalm, <1>EofBusy
<1> QED BY <1>2, <1>3, <1>4 DEF EofInv

\* In every reachable state of every instance: a reader that has received eof on
\* a connection that was never lost, and has not failed, has every byte whose
\* Write reported success, because CloseWrite sends eof under writeMu after the
\* last data frame and the channel keeps the order (stream.go:66-127, 218-223).
THEOREM EofLastHolds == Spec => []EofAfterData
<1>1. Spec => Init /\ [][Next]_vars
  BY Zenon DEF Spec
<1>2. EofInv => EofAfterData
  <2> SUFFICES ASSUME EofInv, faults = 0, NEW e \in Ends, peer[e] = "open", closedRead[e], ~closed[e]
               PROVE  Complete(e)
    BY Zenon DEF EofAfterData
  <2>1. EofState(e) /\ frames[e] \in Seq(Frames)
    BY Zenon DEF EofInv, Open, IInv, TypeOK, LinkTypes
  <2>2. \A i \in 1 .. Len(frames[e]) : Chunks[frames[e][i]] = 0
    <3>1. \A i \in 1 .. Len(frames[e]) : frames[e][i] \in Frames /\ frames[e][i].type # "data"
      BY <2>1, FrameFields, Zenon DEF EofState, NoData
    <3> QED BY <3>1, ChunkWeights, Zenon
  <2>3. Coming(e) = 0
    BY <2>1, <2>2, ChunkWeights, TallyNone, Zenon DEF Coming
  <2>4. Len(delivered[e]) + Len(readQueue[e]) + 0 = written[Other(e)]
    BY <2>1, <2>3, Zenon DEF EofState
  <2>5. Len(delivered[e]) \in Nat /\ Len(readQueue[e]) \in Nat
    BY DEF EofInv, IInv, TypeOK, ReadTypes, HistTypes
  <2>6. PICK a \in Nat, b \in Nat : a = Len(delivered[e]) /\ b = Len(readQueue[e])
    BY <2>5, Zenon
  <2>7. a + b + 0 = a + b
    OBVIOUS
  <2> QED BY <2>4, <2>6, <2>7, Zenon DEF Complete
<1> QED BY <1>1, <1>2, InitEof, EofStep, PTL

------------------------------------------------------------------------------
\* The bytes of frames, and the acks a reader owes.

\* One addend changes.
LEMMA SumChange ==
    ASSUME NEW f, NEW g, NEW k \in Nat, NEW j \in 1..k,
           \A i \in 1..k : f[i] \in Nat /\ g[i] \in Nat /\ (i # j => g[i] = f[i])
    PROVE  Sum(g, k) + f[j] = Sum(f, k) + g[j]
<1> DEFINE T == {n \in Nat : n <= k /\ n >= j => Sum(g, n) + f[j] = Sum(f, n) + g[j]}
<1>1. ASSUME NEW n \in Nat, n + 1 <= k, n + 1 = j PROVE Sum(g, n + 1) + f[j] = Sum(f, n + 1) + g[j]
  <2>1. Sum(g, n) = Sum(f, n) /\ Sum(f, n) \in Nat
    BY <1>1, SumSame, SumNat
  <2> QED BY <1>1, <2>1, SumNext
<1>2. 0 \in T
  OBVIOUS
<1>3. ASSUME NEW n \in Nat, n \in T PROVE n + 1 \in T
  <2>1. SUFFICES ASSUME n + 1 <= k, n >= j PROVE Sum(g, n + 1) + f[j] = Sum(f, n + 1) + g[j]
    BY <1>1
  <2>2. Sum(g, n) + f[j] = Sum(f, n) + g[j] /\ Sum(g, n) \in Nat /\ Sum(f, n) \in Nat
    BY <1>3, <2>1, SumNat
  <2> QED BY <2>1, <2>2, SumNext
<1> HIDE DEF T
<1>4. T = Nat
  BY <1>2, <1>3, Climb, Zenon DEF T
<1> QED BY <1>4 DEF T

\* What a frame counts for in the accounts of bytes.
LEMMA Weights ==
    /\ Bytes \in [Frames -> Nat]
    /\ \A t : BytesOf(t) \in [Frames -> Nat]
    /\ \A f \in Frames : /\ Bytes[f] = f.len
                         /\ \A t : BytesOf(t)[f] = IF f.type = t THEN f.len ELSE 0
BY Zenon DEF Bytes, BytesOf, Frames

\* The largest length bounds them all.
LEMMA LargestIs == Largest \in Nat /\ \A n \in Sizes : n <= Largest
BY LargestAssumption, SizesAssumption, Zenon DEF Largest

\* What a reader owes is a natural number, and 0 when it owes no ack.
LEMMA PromisedNat ==
    ASSUME NEW a \in [Sizes -> Nat]
    PROVE  Promised(a) \in Nat
<1> USE Zenon
<1> DEFINE f == [n \in 1..Largest |-> IF n \in Sizes THEN n * a[n] ELSE 0]
<1>1. \A n \in 1..Largest : f[n] \in Nat
  <2>1. \A n \in Sizes : n \in Nat /\ a[n] \in Nat
    BY SizesAssumption
  <2>2. \A n, m \in Nat : n * m \in Nat
    BY SMTT(30)
  <2> QED BY <2>1, <2>2
<1> HIDE DEF f
<1>2. Sum(f, Largest) \in Nat
  BY <1>1, LargestIs, SumNat
<1> QED BY <1>2 DEF Promised, f

\* No ack is owed when no chunk is pending.
LEMMA PromisedNone == Promised([n \in Sizes |-> 0]) = 0
<1> DEFINE a == [n \in Sizes |-> 0]
           f == [n \in 1..Largest |-> IF n \in Sizes THEN n * a[n] ELSE 0]
<1>1. \A n \in 1..Largest : f[n] = 0
  BY SizesAssumption
<1>2. Promised(a) = Sum(f, Largest)
  BY Zenon DEF Promised
<1> HIDE DEF f
<1> QED BY <1>1, <1>2, SumNone, LargestIs, Zenon

\* One more ack of n bytes, and one less.
LEMMA PromisedMore ==
    ASSUME NEW a \in [Sizes -> Nat], NEW b \in [Sizes -> Nat], NEW n \in Sizes,
           b = [a EXCEPT ![n] = @ + 1]
    PROVE  Promised(b) = Promised(a) + n
<1> DEFINE f == [m \in 1..Largest |-> IF m \in Sizes THEN m * a[m] ELSE 0]
           g == [m \in 1..Largest |-> IF m \in Sizes THEN m * b[m] ELSE 0]
<1>1. n \in Nat /\ n <= Largest /\ Largest \in Nat
  BY LargestIs, SizesAssumption, Zenon
<1>2. \A i \in 1..Largest : f[i] \in Nat /\ g[i] \in Nat /\ (i # n => g[i] = f[i])
  BY <1>1
<1>3. n # 0 => n \in 1..Largest /\ g[n] = n * (a[n] + 1) /\ f[n] = n * a[n]
  BY <1>1
<1>4. Promised(a) = Sum(f, Largest) /\ Promised(b) = Sum(g, Largest)
  BY Zenon DEF Promised
<1> HIDE DEF f, g
<1>5. CASE n = 0
  <2>1. \A i \in 1..Largest : g[i] = f[i]
    BY <1>1, <1>2, <1>5
  <2>2. Sum(g, Largest) = Sum(f, Largest)
    BY <1>1, <2>1, SumSame, Zenon
  <2> QED BY <1>4, <1>5, <2>2, PromisedNat
<1>6. CASE n # 0
  <2>1. Sum(g, Largest) + f[n] = Sum(f, Largest) + g[n]
    BY <1>1, <1>2, <1>3, <1>6, SumChange
  <2>2. g[n] = f[n] + n /\ f[n] \in Nat
    BY <1>1, <1>3, <1>6
  <2>3. Sum(f, Largest) \in Nat /\ Sum(g, Largest) \in Nat
    BY <1>4, PromisedNat, Zenon
  <2> QED BY <1>1, <1>4, <2>1, <2>2, <2>3
<1> QED BY <1>5, <1>6, Zenon

------------------------------------------------------------------------------
\* The meters of an end.

\* Bytes and acks on their way to x, bytes in its queue, acks it owes, and the
\* bytes of its writer that are counted and not sent.
Heading(x) == Tally(frames[x], BytesOf("data"))
Returning(x) == Tally(frames[x], BytesOf("ack"))
Held(x) == Tally(readQueue[x], Bytes)
Owed(x) == Promised(pendAck[x])
Counted(x) == IF wr[x].counted THEN wr[x].len ELSE 0

\* The counters that cover them.
Charged(x) == inFlight[x]
Uncounted(x) == early[x]
Forgiven(x) == writtenOff[x]

\* Outstanding is the sum of five meters.
LEMMA OutstandingIs ==
    ASSUME NEW e \in Ends
    PROVE  /\ Outstanding(e) = Counted(e) + Heading(Other(e)) + Held(Other(e)) + Owed(Other(e)) + Returning(e)
           /\ Outstanding(e)' = Counted(e)' + Heading(Other(e))' + Held(Other(e))' + Owed(Other(e))' + Returning(e)'
BY Zenon DEF Outstanding, Counted, Heading, Held, Owed, Returning

\* The meters and the counters are natural numbers.
LEMMA MeterTypes ==
    ASSUME IInv, NEW x \in Ends
    PROVE  /\ Heading(x) \in Nat /\ Returning(x) \in Nat /\ Held(x) \in Nat /\ Owed(x) \in Nat /\ Counted(x) \in Nat
           /\ Charged(x) \in Nat /\ Uncounted(x) \in Nat /\ Forgiven(x) \in Nat
<1> USE Zenon
<1>1. frames[x] \in Seq(Frames) /\ readQueue[x] \in Seq(Frames) /\ pendAck[x] \in [Sizes -> Nat]
  BY DEF IInv, TypeOK, LinkTypes, ReadTypes, CallTypes
<1>2. Heading(x) \in Nat /\ Returning(x) \in Nat /\ Held(x) \in Nat
  BY <1>1, Weights, TallyNat DEF Heading, Returning, Held
<1>3. Owed(x) \in Nat
  BY <1>1, PromisedNat DEF Owed
<1>4. Counted(x) \in Nat
  BY DEF IInv, TypeOK, CallTypes, Writers, Counted
<1>5. Charged(x) \in Nat /\ Uncounted(x) \in Nat /\ Forgiven(x) \in Nat
  BY DEF IInv, TypeOK, FlowTypes, HistTypes, Charged, Uncounted, Forgiven
<1> QED BY <1>2, <1>3, <1>4, <1>5

\* A meter moves only with what it measures.
LEMMA Still ==
    ASSUME NEW x \in Ends
    PROVE  /\ frames'[x] = frames[x] => Heading(x)' = Heading(x) /\ Returning(x)' = Returning(x)
           /\ readQueue'[x] = readQueue[x] => Held(x)' = Held(x)
           /\ pendAck'[x] = pendAck[x] => Owed(x)' = Owed(x)
           /\ wr'[x] = wr[x] => Counted(x)' = Counted(x)
           /\ inFlight'[x] = inFlight[x] => Charged(x)' = Charged(x)
           /\ early'[x] = early[x] => Uncounted(x)' = Uncounted(x)
           /\ writtenOff'[x] = writtenOff[x] => Forgiven(x)' = Forgiven(x)
BY Zenon DEF Heading, Returning, Held, Owed, Counted, Charged, Uncounted, Forgiven

\* A frame sent by e.
LEMMA Sent ==
    ASSUME IInv, NEW e \in Ends, NEW c \in Frames, Put(e, c)
    PROVE  /\ frames'[e] = frames[e]
           /\ Heading(e)' = Heading(e) /\ Returning(e)' = Returning(e)
           /\ IF Carries(e)
              THEN /\ frames'[Other(e)] = Append(frames[Other(e)], c)
                   /\ Heading(Other(e))' = Heading(Other(e)) + BytesOf("data")[c]
                   /\ Returning(Other(e))' = Returning(Other(e)) + BytesOf("ack")[c]
              ELSE /\ frames'[Other(e)] = frames[Other(e)]
                   /\ Heading(Other(e))' = Heading(Other(e)) /\ Returning(Other(e))' = Returning(Other(e))
<1> USE Zenon
<1>1. frames \in [Ends -> Seq(Frames)] /\ Other(e) \in Ends /\ Other(e) # e
  BY OtherEnd DEF IInv, TypeOK, LinkTypes
<1>2. frames'[e] = frames[e]
  BY PutFrames
<1>3. IF Carries(e) THEN frames'[Other(e)] = Append(frames[Other(e)], c)
      ELSE frames'[Other(e)] = frames[Other(e)]
  BY PutFrames
<1>4. ASSUME Carries(e)
      PROVE  /\ Heading(Other(e))' = Heading(Other(e)) + BytesOf("data")[c]
             /\ Returning(Other(e))' = Returning(Other(e)) + BytesOf("ack")[c]
  <2>1. \A t : Tally(Append(frames[Other(e)], c), BytesOf(t)) = Tally(frames[Other(e)], BytesOf(t)) + BytesOf(t)[c]
    BY <1>1, Weights, TallyAppend
  <2> QED BY <1>3, <1>4, <2>1 DEF Heading, Returning
<1> QED BY <1>1, <1>2, <1>3, <1>4, Still

\* The first frame of e received.
LEMMA Received ==
    ASSUME IInv, NEW e \in Ends, frames[e] # <<>>, frames' = [frames EXCEPT ![e] = Tail(@)]
    PROVE  /\ frames'[e] = Tail(frames[e]) /\ frames'[Other(e)] = frames[Other(e)]
           /\ Head(frames[e]) \in Frames
           /\ Heading(e)' + BytesOf("data")[Head(frames[e])] = Heading(e)
           /\ Returning(e)' + BytesOf("ack")[Head(frames[e])] = Returning(e)
           /\ Heading(Other(e))' = Heading(Other(e)) /\ Returning(Other(e))' = Returning(Other(e))
<1> USE Zenon
<1>1. frames \in [Ends -> Seq(Frames)] /\ Other(e) \in Ends /\ Other(e) # e
  BY OtherEnd DEF IInv, TypeOK, LinkTypes
<1>2. frames'[e] = Tail(frames[e]) /\ frames'[Other(e)] = frames[Other(e)]
  BY <1>1
<1>3. \A t : Tally(Tail(frames[e]), BytesOf(t)) + BytesOf(t)[Head(frames[e])] = Tally(frames[e], BytesOf(t))
  BY <1>1, Weights, TallyTail
<1>4. Head(frames[e]) \in Frames
  BY <1>1, HeadFrame
<1> QED BY <1>1, <1>2, <1>3, <1>4, Still DEF Heading, Returning

\* Control frames carry no bytes.
LEMMA LightBytes == Light(BytesOf("data")) /\ Light(BytesOf("ack"))
<1>1. \A c \in Controls : Control(c) \in Frames /\ Control(c).len = 0
  BY Zenon DEF Control, Controls, Frames
<1> QED BY <1>1, Weights, Zenon DEF Light

------------------------------------------------------------------------------
\* What a step does to the frames for an end, and to their lengths.

\* What any step does to the frames for x.
GetsControl(x) ==
    \E c \in Frames : /\ c.type # "data" /\ frames'[x] = Append(frames[x], c)
                      /\ c.type = "eof" => Gets(x)
GetsData(x) ==
    /\ WriteSend(Other(x))
    /\ frames'[x] = Append(frames[x], Data(written[Other(x)] + 1, wr[Other(x)].len))
Shortens(x) == frames[x] # <<>> /\ frames'[x] = Tail(frames[x])
FrameStep(x) == frames'[x] = frames[x] \/ GetsControl(x) \/ GetsData(x) \/ Shortens(x) \/ Loses(x)

\* Lengths are those of the values written.
Sized(s) == \A i \in 1 .. Len(s) : s[i].type = "data" => s[i].len \in Sizes
AllSized(q) == \A i \in 1 .. Len(q) : q[i].len \in Sizes
Lengths == \A e \in Ends : /\ wr[e].pc # "idle" => wr[e].len \in Sizes
                           /\ Sized(frames[e]) /\ AllSized(readQueue[e])

\* Appending a frame of one of the sizes, and taking one, keep the lengths.
LEMMA AllSizedSteps ==
    ASSUME NEW s \in Seq(Frames), AllSized(s)
    PROVE  /\ \A c \in Frames : c.len \in Sizes => AllSized(Append(s, c))
           /\ s # <<>> => AllSized(Tail(s)) /\ Head(s).len \in Sizes
<1>1. ASSUME NEW c \in Frames, c.len \in Sizes PROVE AllSized(Append(s, c))
  <2>1. Len(Append(s, c)) = Len(s) + 1 /\ \A i \in 1 .. Len(s) + 1 : Append(s, c)[i] = IF i <= Len(s) THEN s[i] ELSE c
    OBVIOUS
  <2> QED BY <1>1, <2>1 DEF AllSized
<1>2. ASSUME s # <<>> PROVE AllSized(Tail(s)) /\ Head(s).len \in Sizes
  <2>1. Len(s) \in Nat /\ Len(s) > 0 /\ Head(s) = s[1]
    BY <1>2
  <2>2. Len(Tail(s)) = Len(s) - 1 /\ \A i \in 1 .. Len(s) - 1 : Tail(s)[i] = s[i + 1]
    BY <1>2
  <2> QED BY <2>1, <2>2 DEF AllSized
<1> QED BY <1>1, <1>2, Zenon

------------------------------------------------------------------------------
\* The writer and the queue.

\* A writer counts its bytes only while it sends; one that does not count them was
\* admitted while inFlight was 0, which it is until flow:1 has arrived.
Credits == \A e \in Ends : /\ wr[e].pc # "send" => ~wr[e].counted
                           /\ wr[e].pc = "send" /\ ~wr[e].counted => inFlight[e] = 0
                           /\ ~flowEnabled[e] => inFlight[e] = 0
WriterSizes == \A e \in Ends : wr[e].pc # "idle" => wr[e].len \in Sizes
QueueSizes == \A e \in Ends : AllSized(readQueue[e])

\* Lengths and credits are kept.
LEMMA CreditStep ==
    IInv /\ Lengths /\ Credits /\ [Next]_vars => (Lengths' /\ Credits')
<1> USE Zenon
\* Each step does one of these.
<1>CalmFrames. ASSUME IInv, Calm, NEW x \in Ends PROVE FrameStep(x)
  <2> USE <1>CalmFrames
  <2>1. Gets(x) => GetsControl(x)
    BY ControlFrames DEF Gets, GetsControl
  <2>2. Takes(x) => Shortens(x)
    BY DEF Takes, Shortens
  <2> QED BY <2>1, <2>2 DEF Calm, FrameStep
<1>SendFrames. ASSUME IInv, NEW e \in Ends, WriteSend(e), NEW x \in Ends PROVE FrameStep(x)
  <2> USE <1>SendFrames
  <2>1. Data(written[e] + 1, wr[e].len) \in Frames
    BY SMTT(30) DEF IInv, TypeOK, HistTypes, CallTypes, Writers, Data, Frames
  <2>2. frames'[e] = frames[e] /\ (frames'[Other(e)] = frames[Other(e)]
            \/ frames'[Other(e)] = Append(frames[Other(e)], Data(written[e] + 1, wr[e].len)))
    BY <2>1, Sent DEF WriteSend
  <2>3. (x = e \/ x = Other(e)) /\ Other(Other(e)) = e
    BY DEF Ends, Other
  <2> QED BY <2>2, <2>3 DEF FrameStep, GetsData
<1>AckFrames. ASSUME IInv, NEW e \in Ends, NEW n \in Sizes, SendAck(e, n), NEW x \in Ends PROVE FrameStep(x)
  <2> USE <1>AckFrames
  <2>1. Ack(n) \in Frames /\ Ack(n).type = "ack"
    BY SizesAssumption DEF Ack, Frames, Controls
  <2>2. frames'[e] = frames[e] /\ (frames'[Other(e)] = frames[Other(e)]
            \/ frames'[Other(e)] = Append(frames[Other(e)], Ack(n)))
    BY <2>1, Sent DEF SendAck
  <2>3. x = e \/ x = Other(e)
    BY SMTT(30) DEF Ends, Other
  <2> QED BY <2>1, <2>2, <2>3 DEF FrameStep, GetsControl
<1>ReceiveFrames. ASSUME IInv, NEW e \in Ends, ReceiveData(e) \/ ReceiveAck(e) \/ ReceiveResume(e), NEW x \in Ends
                  PROVE  FrameStep(x)
  <2> USE <1>ReceiveFrames
  <2>1. x = e \/ x = Other(e)
    BY SMTT(30) DEF Ends, Other
  <2>2. Other(e) \in Ends /\ Other(e) # e
    BY OtherEnd
  <2>3. CASE ReceiveData(e) \/ ReceiveAck(e)
    <3>1. frames[e] # <<>> /\ frames' = [frames EXCEPT ![e] = Tail(@)]
      BY <2>3 DEF ReceiveData, ReceiveAck, Receiving, Ready
    <3>2. frames'[e] = Tail(frames[e]) /\ frames'[Other(e)] = frames[Other(e)]
      BY <3>1, Received
    <3> QED BY <2>1, <3>1, <3>2 DEF FrameStep, Shortens
  <2>4. CASE ReceiveResume(e)
    <3>1. Control("flow") \in Frames /\ Control("flow").type = "flow"
      BY DEF Control, Controls, Frames
    <3>2. frames[e] # <<>> /\ frames'[e] = Tail(frames[e])
      BY <2>4 DEF ReceiveResume, Ready
    <3>3. frames'[Other(e)] = frames[Other(e)] \/ frames'[Other(e)] = Append(frames[Other(e)], Control("flow"))
      BY <2>2, <2>4 DEF ReceiveResume
    <3>4. frames'[Other(e)] = frames[Other(e)] \/ GetsControl(Other(e))
      BY <3>1, <3>3 DEF GetsControl
    <3> QED BY <2>1, <3>2, <3>4 DEF FrameStep, Shortens
  <2> QED BY <2>3, <2>4
<1>FrameSteps. ASSUME IInv, [Next]_vars, NEW x \in Ends PROVE FrameStep(x)
  <2> USE <1>FrameSteps
  <2>1. CASE Calm
    BY <2>1, <1>CalmFrames
  <2>2. ASSUME NEW e \in Ends, Busy(e) PROVE FrameStep(x)
    <3>1. CASE \/ \E n \in Sizes : WriteBegin(e, n)
               \/ WriteAdmit(e) \/ WriteAbandon(e) \/ WriteFail(e) \/ ReadPart(e) \/ Read(e) \/ ReconnectedReset(e)
      <4>1. frames' = frames
        BY <3>1 DEF WriteBegin, WriteAdmit, WriteAbandon, WriteFail, ReadPart, Read, ReconnectedReset, linkVars
      <4> QED BY <4>1 DEF FrameStep
    <3> QED BY <2>2, <3>1, <1>SendFrames, <1>AckFrames, <1>ReceiveFrames DEF Busy
  <2> QED BY <2>1, <2>2, CalmOrBusy
\* What appending, taking and losing a frame do to the lengths.
<1>SizedSteps. ASSUME NEW s \in Seq(Frames)
               PROVE  /\ Sized(<<>>)
                      /\ Sized(s) => \A c \in Frames : (c.type = "data" => c.len \in Sizes) => Sized(Append(s, c))
                      /\ Sized(s) /\ s # <<>> => Sized(Tail(s)) /\ (Head(s).type = "data" => Head(s).len \in Sizes)
                      /\ Sized(s) => \A i \in DOMAIN s : Sized(Without(s, i))
  <2> USE <1>SizedSteps
  <2>1. Sized(<<>>)
    BY SMTT(30) DEF Sized
  <2>2. ASSUME Sized(s), NEW c \in Frames, c.type = "data" => c.len \in Sizes PROVE Sized(Append(s, c))
    <3>1. Len(Append(s, c)) = Len(s) + 1 /\ \A i \in 1 .. Len(s) + 1 : Append(s, c)[i] = IF i <= Len(s) THEN s[i] ELSE c
      BY SMTT(30)
    <3> QED BY <2>2, <3>1, SMTT(30) DEF Sized
  <2>3. ASSUME Sized(s), s # <<>> PROVE Sized(Tail(s)) /\ (Head(s).type = "data" => Head(s).len \in Sizes)
    <3>1. Len(s) \in Nat /\ Len(s) > 0 /\ Head(s) = s[1]
      BY <2>3, SMTT(30)
    <3>2. Len(Tail(s)) = Len(s) - 1 /\ \A i \in 1 .. Len(s) - 1 : Tail(s)[i] = s[i + 1]
      BY <2>3, SMTT(30)
    <3> QED BY <2>3, <3>1, <3>2, SMTT(30) DEF Sized
  <2>4. ASSUME Sized(s), NEW k \in DOMAIN s PROVE Sized(Without(s, k))
    <3>1. /\ k \in 1 .. Len(s) /\ Len(Without(s, k)) = Len(s) - 1
          /\ \A i \in 1 .. Len(s) - 1 : Without(s, k)[i] = IF i < k THEN s[i] ELSE s[i + 1]
      BY WithoutOne
    <3>2. Len(s) \in Nat
      BY SMTT(30)
    <3> QED BY <2>4, <3>1, <3>2, SMTT(30) DEF Sized
  <2> QED BY <2>1, <2>2, <2>3, <2>4
\* The lengths of the frames on their way are kept.
<1>SizedStep. ASSUME IInv, Lengths, NEW x \in Ends, FrameStep(x)
              PROVE  Sized(frames'[x])
  <2> USE <1>SizedStep
  <2>1. frames[x] \in Seq(Frames) /\ Sized(frames[x])
    BY DEF IInv, TypeOK, LinkTypes, Lengths
  <2>2. CASE GetsControl(x)
    BY <2>1, <2>2, <1>SizedSteps DEF GetsControl
  <2>3. CASE GetsData(x)
    <3>1. PICK o \in Ends : o = Other(x)
      BY OtherEnd
    <3>2. wr[o].len \in Sizes /\ written[o] \in Nat
      BY <2>3, <3>1 DEF GetsData, WriteSend, Lengths, IInv, TypeOK, HistTypes
    <3>3. PICK c : c = Data(written[o] + 1, wr[o].len)
      OBVIOUS
    <3>4. c \in Frames /\ c.len \in Sizes
      <4>1. written[o] + 1 \in Nat
        BY <3>2, SMTT(30)
      <4>2. wr[o].len \in Nat
        BY <3>2, SizesAssumption
      <4>3. c \in Frames /\ c.len = wr[o].len
        BY <3>3, <4>1, <4>2 DEF Data, Frames
      <4> QED BY <3>2, <4>3
    <3> QED BY <2>1, <2>3, <3>1, <3>3, <3>4, <1>SizedSteps DEF GetsData
  <2>4. CASE Shortens(x) \/ Loses(x)
    BY <2>1, <2>4, <1>SizedSteps DEF Shortens, Loses
  <2> QED BY <2>1, <2>2, <2>3, <2>4 DEF FrameStep
\* The steps of the writer.
<1>WriterStep. ASSUME IInv, Lengths, Credits, NEW e \in Ends,
                      \/ \E n \in Sizes : WriteBegin(e, n)
                      \/ WriteAdmit(e) \/ WriteAbandon(e) \/ WriteSend(e) \/ WriteFail(e)
               PROVE  WriterSizes' /\ Credits' /\ QueueSizes'
  <2> USE <1>WriterStep
  <2> USE DEF flowVars, readVars
  <2>1. wr \in [Ends -> Writers] /\ inFlight \in [Ends -> Nat] /\ flowEnabled \in [Ends -> BOOLEAN]
    BY DEF IInv, TypeOK, CallTypes, FlowTypes
  <2>2. readQueue' = readQueue /\ flowEnabled' = flowEnabled
    BY DEF WriteBegin, WriteAdmit, WriteAbandon, WriteSend, WriteFail
  <2>3. QueueSizes'
    BY <2>2 DEF Lengths, QueueSizes
  <2>4. CASE \E n \in Sizes : WriteBegin(e, n)
    <3>1. PICK n \in Sizes : WriteBegin(e, n)
      BY <2>4
    <3>2. wr' = [wr EXCEPT ![e] = [pc |-> "flow", len |-> n, counted |-> FALSE]] /\ inFlight' = inFlight
      BY <3>1 DEF WriteBegin
    <3>3. wr'[e].pc = "flow" /\ wr'[e].len = n /\ ~wr'[e].counted /\ \A x \in Ends : x # e => wr'[x] = wr[x]
      BY <2>1, <3>2
    <3> QED BY <2>2, <2>3, <3>2, <3>3 DEF Lengths, WriterSizes, Credits
  <2>5. CASE WriteAdmit(e)
    <3>1. /\ wr' = [wr EXCEPT ![e] = [pc |-> "send", len |-> wr[e].len, counted |-> flowEnabled[e]]]
          /\ inFlight' = [inFlight EXCEPT ![e] = IF flowEnabled[e] THEN inFlight[e] + wr[e].len ELSE inFlight[e]]
          /\ wr[e].pc = "flow"
      BY <2>5 DEF WriteAdmit
    <3>2. wr'[e].pc = "send" /\ wr'[e].len = wr[e].len /\ wr'[e].counted = flowEnabled[e]
      BY <2>1, <3>1
    <3>3. \A x \in Ends : x # e => wr'[x] = wr[x] /\ inFlight'[x] = inFlight[x]
      BY <2>1, <3>1
    <3>4. ~flowEnabled[e] => inFlight'[e] = inFlight[e]
      BY <2>1, <3>1
    <3>5. wr[e].len \in Sizes
      BY <3>1 DEF Lengths
    <3> QED BY <2>2, <2>3, <3>2, <3>3, <3>4, <3>5 DEF Lengths, WriterSizes, Credits
  <2>6. CASE WriteAbandon(e) \/ WriteSend(e) \/ WriteFail(e)
    <3>1. wr' = [wr EXCEPT ![e] = Idle]
      BY <2>6 DEF WriteAbandon, WriteSend, WriteFail
    <3>2. inFlight' = inFlight \/ inFlight' = [inFlight EXCEPT ![e] = Less(inFlight[e], wr[e].len)]
      BY <2>6 DEF WriteAbandon, WriteSend, WriteFail
    <3>3. \A x \in Ends : inFlight[x] = 0 => inFlight'[x] = 0
      <4>1. wr[e].len \in Nat
        BY <2>1 DEF Writers
      <4> QED BY <2>1, <3>2, <4>1, SMTT(30) DEF Less
    <3>4. wr'[e].pc = "idle" /\ ~wr'[e].counted /\ \A x \in Ends : x # e => wr'[x] = wr[x]
      BY <2>1, <3>1 DEF Idle
    <3> QED BY <2>2, <2>3, <3>3, <3>4 DEF Lengths, WriterSizes, Credits
  <2> QED BY <2>4, <2>5, <2>6
\* The other steps.
<1>OthersStep. ASSUME IInv, Lengths, Credits, NEW e \in Ends,
                      \/ Calm \/ ReadPart(e) \/ Read(e) \/ (\E n \in Sizes : SendAck(e, n))
                      \/ ReceiveData(e) \/ ReceiveResume(e) \/ ReceiveAck(e) \/ ReconnectedReset(e)
               PROVE  WriterSizes' /\ Credits' /\ QueueSizes'
  <2> USE <1>OthersStep
  <2> USE DEF flowVars, readVars, callVars
  <2>1. inFlight \in [Ends -> Nat] /\ readQueue \in [Ends -> Seq(Frames)] /\ frames \in [Ends -> Seq(Frames)]
    BY DEF IInv, TypeOK, FlowTypes, ReadTypes, LinkTypes
  <2>2. wr' = wr
    BY DEF Calm, Untouched, ReadPart, Read, SendAck, ReceiveData, ReceiveResume, ReceiveAck, ReconnectedReset
  <2>3. WriterSizes'
    BY <2>2 DEF Lengths, WriterSizes
  <2>4. \A x \in Ends : (inFlight[x] = 0 => inFlight'[x] = 0) /\ (flowEnabled[x] => flowEnabled'[x])
    <3>1. CASE Calm
      BY <3>1 DEF Calm, Untouched
    <3>2. CASE ReadPart(e) \/ Read(e) \/ (\E n \in Sizes : SendAck(e, n)) \/ ReceiveData(e)
      BY <3>2 DEF ReadPart, Read, SendAck, ReceiveData
    <3>3. CASE ReceiveResume(e) \/ ReconnectedReset(e)
      <4>1. inFlight' = [inFlight EXCEPT ![e] = 0] /\ flowEnabled' = flowEnabled
        BY <3>3 DEF ReceiveResume, ReconnectedReset
      <4> QED BY <2>1, <4>1
    <3>4. CASE ReceiveAck(e)
      <4>1. inFlight' = [inFlight EXCEPT ![e] = Less(inFlight[e], Head(frames[e]).len)] /\ flowEnabled' = flowEnabled
        BY <3>4 DEF ReceiveAck
      <4>2. Head(frames[e]).len \in Nat
        BY <2>1, <3>4, HeadFrame DEF ReceiveAck, Receiving, Ready
      <4> QED BY <2>1, <4>1, <4>2, SMTT(30) DEF Less
    <3> QED BY <3>1, <3>2, <3>3, <3>4
  <2>5. Credits'
    BY <2>2, <2>4 DEF Credits
  <2>6. QueueSizes'
    <3>1. CASE \/ Calm \/ ReadPart(e) \/ (\E n \in Sizes : SendAck(e, n))
               \/ ReceiveResume(e) \/ ReceiveAck(e) \/ ReconnectedReset(e)
      <4>1. readQueue' = readQueue
        BY <3>1 DEF Calm, Untouched, ReadPart, SendAck, ReceiveResume, ReceiveAck, ReconnectedReset
      <4> QED BY <4>1 DEF Lengths, QueueSizes
    <3>2. CASE Read(e)
      <4>1. readQueue[e] # <<>> /\ readQueue' = [readQueue EXCEPT ![e] = Tail(readQueue[e])]
        BY <3>2 DEF Read, Taken
      <4>2. AllSized(Tail(readQueue[e]))
        BY <2>1, <4>1, AllSizedSteps DEF Lengths
      <4> QED BY <2>1, <4>1, <4>2 DEF Lengths, QueueSizes
    <3>3. CASE ReceiveData(e)
      <4>1. frames[e] # <<>> /\ Head(frames[e]).type = "data"
        BY <3>3 DEF ReceiveData, Receiving, Ready
      <4>2. readQueue' = readQueue \/ readQueue' = [readQueue EXCEPT ![e] = Append(readQueue[e], Head(frames[e]))]
        BY <3>3 DEF ReceiveData
      <4>3. Head(frames[e]) \in Frames /\ Head(frames[e]).len \in Sizes
        BY <2>1, <4>1, HeadFrame, <1>SizedSteps DEF Lengths
      <4>4. AllSized(Append(readQueue[e], Head(frames[e])))
        BY <2>1, <4>3, AllSizedSteps DEF Lengths
      <4> QED BY <2>1, <4>2, <4>4 DEF Lengths, QueueSizes
    <3> QED BY <3>1, <3>2, <3>3
  <2> QED BY <2>3, <2>5, <2>6
<1> SUFFICES ASSUME IInv, Lengths, Credits, [Next]_vars
             PROVE  Lengths' /\ Credits'
  OBVIOUS
<1>1. WriterSizes' /\ Credits' /\ QueueSizes'
  <2>1. CASE Calm
    <3>1. "client" \in Ends
      BY DEF Ends
    <3> QED BY <2>1, <3>1, <1>OthersStep
  <2>2. ASSUME NEW e \in Ends, Busy(e) PROVE WriterSizes' /\ Credits' /\ QueueSizes'
    BY <2>2, <1>WriterStep, <1>OthersStep DEF Busy
  <2> QED BY <2>1, <2>2, CalmOrBusy
<1>2. \A x \in Ends : Sized(frames'[x])
  BY <1>FrameSteps, <1>SizedStep
<1> QED BY <1>1, <1>2 DEF Lengths, WriterSizes, QueueSizes

\* The queue.
LEMMA QueueStep ==
    IInv /\ QueueAccounting /\ [Next]_vars => QueueAccounting'
<1> USE Zenon
\* A frame put at the back does not change the one at the front.
<1>AppendHead. ASSUME NEW s \in Seq(Frames), NEW c \in Frames, s # <<>>
               PROVE  Append(s, c) # <<>> /\ Head(Append(s, c)) = Head(s)
  BY <1>AppendHead, SMTT(30)
<1> SUFFICES ASSUME IInv, QueueAccounting, [Next]_vars
             PROVE  QueueAccounting'
  OBVIOUS
<1> USE DEF flowVars, readVars, callVars
<1>1. /\ readQueued \in [Ends -> Int] /\ readOffset \in [Ends -> Nat]
      /\ readQueue \in [Ends -> Seq(Frames)] /\ frames \in [Ends -> Seq(Frames)]
  BY DEF IInv, TypeOK, ReadTypes, LinkTypes
<1>2. CASE UNCHANGED <<readQueue, readQueued, readOffset>>
  BY <1>2 DEF QueueAccounting
<1>3. ASSUME NEW e \in Ends, ReadPart(e) PROVE QueueAccounting'
  <2>1. PICK n \in 1 .. Head(readQueue[e]).len - readOffset[e] - 1 : readOffset' = [readOffset EXCEPT ![e] = @ + n]
    BY <1>3 DEF ReadPart
  <2>2. readQueue[e] # <<>> /\ readQueue' = readQueue /\ readQueued' = readQueued
    BY <1>3 DEF ReadPart
  <2>3. Head(readQueue[e]).len \in Nat
    BY <1>1, <2>2, HeadFrame
  <2>4. readOffset'[e] < Head(readQueue[e]).len /\ \A x \in Ends : x # e => readOffset'[x] = readOffset[x]
    BY <1>1, <2>1, <2>3, SMTT(30)
  <2> QED BY <2>2, <2>4 DEF QueueAccounting
<1>4. ASSUME NEW e \in Ends, Read(e) PROVE QueueAccounting'
  <2>1. PICK c : c = Head(readQueue[e])
    OBVIOUS
  <2>2. /\ readQueue[e] # <<>> /\ readQueue' = [readQueue EXCEPT ![e] = Tail(readQueue[e])]
        /\ readQueued' = [readQueued EXCEPT ![e] = readQueued[e] - c.len] /\ readOffset' = [readOffset EXCEPT ![e] = 0]
    BY <1>4, <2>1 DEF Read, Taken, Freed
  <2>3. c \in Frames /\ c.len \in Nat
    BY <1>1, <2>1, <2>2, HeadFrame
  <2>4. Tally(Tail(readQueue[e]), Bytes) + c.len = Tally(readQueue[e], Bytes)
    BY <1>1, <2>1, <2>2, <2>3, TallyTail, Weights
  <2>5. Tally(Tail(readQueue[e]), Bytes) \in Nat
    <3>1. Tail(readQueue[e]) \in Seq(Frames)
      BY <1>1, <2>2, SMTT(30)
    <3> QED BY <3>1, TallyNat, Weights
  <2>6. readQueued[e] = Tally(readQueue[e], Bytes) /\ readQueued[e] <= MaxRead
    BY DEF QueueAccounting
  <2>7. readQueue'[e] = Tail(readQueue[e]) /\ readQueued'[e] = readQueued[e] - c.len /\ readOffset'[e] = 0
    BY <1>1, <2>2
  <2>8. \A x \in Ends : x # e => readQueue'[x] = readQueue[x] /\ readQueued'[x] = readQueued[x] /\ readOffset'[x] = readOffset[x]
    BY <1>1, <2>2
  <2>9. readQueued'[e] = Tally(readQueue'[e], Bytes) /\ readQueued'[e] <= MaxRead /\ ~ (readOffset'[e] > 0)
    BY <2>3, <2>4, <2>5, <2>6, <2>7, LimitsAssumption, SMTT(30)
  <2> QED BY <2>8, <2>9 DEF QueueAccounting
<1>5. ASSUME NEW e \in Ends, ReceiveData(e) PROVE QueueAccounting'
  <2>1. PICK c : c = Head(frames[e])
    OBVIOUS
  <2>2. frames[e] # <<>> /\ readOffset' = readOffset
    BY <1>5 DEF ReceiveData, Receiving, Ready
  <2>3. c \in Frames /\ c.len \in Nat
    BY <1>1, <2>1, <2>2, HeadFrame
  <2>4. CASE closedRead[e] \/ closed[e]
    BY <1>2, <1>5, <2>2, <2>4 DEF ReceiveData
  <2>5. CASE ~ (closedRead[e] \/ closed[e])
    <3>1. /\ readQueue' = [readQueue EXCEPT ![e] = Append(readQueue[e], c)]
          /\ readQueued' = [readQueued EXCEPT ![e] = readQueued[e] + c.len]
          /\ c.len <= MaxRead - readQueued[e]
      BY <1>5, <2>1, <2>5 DEF ReceiveData
    <3>2. readQueue'[e] = Append(readQueue[e], c) /\ readQueued'[e] = readQueued[e] + c.len
      BY <1>1, <3>1
    <3>3. \A x \in Ends : x # e => readQueue'[x] = readQueue[x] /\ readQueued'[x] = readQueued[x]
      BY <1>1, <3>1
    <3>4. Tally(Append(readQueue[e], c), Bytes) = Tally(readQueue[e], Bytes) + c.len
      <4>1. readQueue[e] \in Seq(Frames)
        BY <1>1
      <4>2. Tally(Append(readQueue[e], c), Bytes) = Tally(readQueue[e], Bytes) + Bytes[c]
        BY <2>3, <4>1, TallyAppend, Weights
      <4> QED BY <2>3, <4>2, Weights
    <3>5. readQueued[e] = Tally(readQueue[e], Bytes) /\ readQueued[e] \in Int
      BY <1>1 DEF QueueAccounting
    <3>6. readQueued'[e] = Tally(readQueue'[e], Bytes) /\ readQueued'[e] <= MaxRead
      BY <2>3, <3>1, <3>2, <3>4, <3>5, LimitsAssumption, SMTT(30)
    <3>7. readQueue[e] # <<>> => readQueue'[e] # <<>> /\ Head(readQueue'[e]) = Head(readQueue[e])
      <4>1. readQueue[e] \in Seq(Frames)
        BY <1>1
      <4> QED BY <2>3, <3>2, <4>1, <1>AppendHead
    <3>8. readOffset'[e] > 0 => readQueue'[e] # <<>> /\ readOffset'[e] < Head(readQueue'[e]).len
      BY <2>2, <3>7 DEF QueueAccounting
    <3> QED BY <2>2, <3>3, <3>6, <3>8 DEF QueueAccounting
  <2> QED BY <2>4, <2>5
<1>6. CASE Calm
  BY <1>2, <1>6 DEF Calm, Untouched
<1>7. ASSUME NEW e \in Ends, Busy(e) PROVE QueueAccounting'
  <2>1. CASE \/ \E n \in Sizes : WriteBegin(e, n)
             \/ WriteAdmit(e) \/ WriteAbandon(e) \/ WriteSend(e) \/ WriteFail(e)
             \/ (\E n \in Sizes : SendAck(e, n)) \/ ReceiveResume(e) \/ ReceiveAck(e) \/ ReconnectedReset(e)
    <3>1. UNCHANGED <<readQueue, readQueued, readOffset>>
      BY <2>1 DEF WriteBegin, WriteAdmit, WriteAbandon, WriteSend, WriteFail, SendAck, ReceiveResume,
               ReceiveAck, ReconnectedReset
    <3> QED BY <1>2, <3>1
  <2> QED BY <1>3, <1>4, <1>5, <1>7, <2>1 DEF Busy
<1> QED BY <1>6, <1>7, CalmOrBusy

------------------------------------------------------------------------------
\* The two laws, action by action.

\* The two inequalities between what inFlight counts and what is outstanding.
Law(x) == Outstanding(x) <= Charged(x) + Uncounted(x) + Forgiven(x)
Tight(x) == Charged(x) <= Outstanding(x)

\* Nothing was lost, and nobody has failed.
Unharmed == faults = 0 /\ \A e \in Ends : ~closed[e]

\* What a step does to them.
Keeps(x) == (Law(x) => Law(x)') /\ (Unharmed' /\ Tight(x) => Tight(x)')
Meters(x) ==
    <<Heading(x), Returning(x), Held(x), Owed(x), Counted(x), Charged(x), Uncounted(x), Forgiven(x)>>

\* Both ends are open while nothing has failed.
LEMMA UnharmedCarries ==
    ASSUME Whole, Unharmed, NEW e \in Ends
    PROVE  Carries(e) /\ ~linkClosed[e] /\ peer[e] = "open" /\ rc[e] = "none"
<1> USE Zenon
<1>1. Other(e) \in Ends
  BY OtherEnd
<1>2. Open(e) /\ Open(Other(e)) /\ rc[e] = "none" /\ ~linkClosed[e]
  BY <1>1, BothOpen DEF Unharmed
<1> QED BY <1>2 DEF Open, Carries

\* What each kind of frame counts for.
LEMMA FrameWeights ==
    /\ \A i, n \in Nat : /\ Data(i, n) \in Frames
                         /\ BytesOf("data")[Data(i, n)] = n /\ BytesOf("ack")[Data(i, n)] = 0
    /\ \A n \in Nat : Ack(n) \in Frames /\ BytesOf("data")[Ack(n)] = 0 /\ BytesOf("ack")[Ack(n)] = n
    /\ \A c \in Controls : /\ Control(c) \in Frames
                           /\ BytesOf("data")[Control(c)] = 0 /\ BytesOf("ack")[Control(c)] = 0
<1> USE Zenon
<1>1. \A i, n \in Nat : Data(i, n) \in Frames /\ Data(i, n).type = "data" /\ Data(i, n).len = n
  BY DEF Data, Frames
<1>2. \A n \in Nat : Ack(n) \in Frames /\ Ack(n).type = "ack" /\ Ack(n).len = n
  BY DEF Ack, Frames, Controls
<1>3. \A c \in Controls : Control(c) \in Frames /\ Control(c).len = 0
  BY DEF Control, Frames, Controls
<1>4. \A f \in Frames, t \in {"data", "ack"} : BytesOf(t)[f] = IF f.type = t THEN f.len ELSE 0
  BY Weights
<1>5. ASSUME NEW i \in Nat, NEW n \in Nat
      PROVE  BytesOf("data")[Data(i, n)] = n /\ BytesOf("ack")[Data(i, n)] = 0
  BY <1>1, <1>4, SMTT(30)
<1>6. ASSUME NEW n \in Nat PROVE BytesOf("data")[Ack(n)] = 0 /\ BytesOf("ack")[Ack(n)] = n
  BY <1>2, <1>4
<1>7. ASSUME NEW c \in Controls PROVE BytesOf("data")[Control(c)] = 0 /\ BytesOf("ack")[Control(c)] = 0
  BY <1>3, <1>4
<1>8. \A i, n \in Nat : /\ Data(i, n) \in Frames
                         /\ BytesOf("data")[Data(i, n)] = n /\ BytesOf("ack")[Data(i, n)] = 0
  BY <1>1, <1>5
<1>9. \A n \in Nat : Ack(n) \in Frames /\ BytesOf("data")[Ack(n)] = 0 /\ BytesOf("ack")[Ack(n)] = n
  BY <1>2, <1>6
<1>10. \A c \in Controls : /\ Control(c) \in Frames
                           /\ BytesOf("data")[Control(c)] = 0 /\ BytesOf("ack")[Control(c)] = 0
  BY <1>3, <1>7
<1> QED BY <1>8, <1>9, <1>10

------------------------------------------------------------------------------
\* The invariant and the theorems.

\* The inductive invariant.
Books == EofInv /\ Lengths /\ Credits /\ QueueAccounting /\ WindowLaw /\ NoCreditLeak

\* It holds initially.
LEMMA InitBooks == Init => Books
<1> SUFFICES ASSUME Init PROVE Books
  BY Zenon
<1>1. EofInv
  BY InitEof, Zenon
<1>2. \A e \in Ends : /\ frames[e] = <<>> /\ readQueue[e] = <<>> /\ wr[e] = Idle
                      /\ pendAck[e] = [n \in Sizes |-> 0]
  BY Zenon DEF Init
<1>3. \A e \in Ends : /\ readQueued[e] = 0 /\ readOffset[e] = 0 /\ inFlight[e] = 0 /\ early[e] = 0
                      /\ writtenOff[e] = 0
  BY Zenon DEF Init
<1>4. Lengths
  <2>1. Idle.pc = "idle" /\ \A i \in 1 .. Len(<<>>) : FALSE
    BY DEF Idle
  <2> QED BY <1>2, <2>1, Zenon DEF Lengths, Sized, AllSized
<1>5. Credits
  <2>1. ~Idle.counted /\ Idle.pc = "idle" /\ "idle" # "send"
    BY DEF Idle
  <2> QED BY <1>2, <1>3, <2>1, Zenon DEF Credits
<1>6. QueueAccounting
  BY <1>2, <1>3, TallyEmpty, LimitsAssumption DEF QueueAccounting
<1>7. \A e \in Ends : Outstanding(e) = 0
  <2>1. SUFFICES ASSUME NEW e \in Ends PROVE Outstanding(e) = 0
    BY Zenon
  <2>2. \A x \in Ends : Heading(x) = 0 /\ Returning(x) = 0 /\ Held(x) = 0 /\ Owed(x) = 0
    BY <1>2, TallyEmpty, PromisedNone, Zenon DEF Heading, Returning, Held, Owed
  <2>3. Counted(e) = 0
    BY <1>2 DEF Counted, Idle
  <2>4. Outstanding(e) = 0 + 0 + 0 + 0 + 0
    BY <2>2, <2>3, OutstandingIs, OtherEnd, Zenon
  <2> QED BY <2>4
<1>8. WindowLaw /\ NoCreditLeak
  BY <1>3, <1>7 DEF WindowLaw, NoCreditLeak
<1> QED BY <1>1, <1>4, <1>5, <1>6, <1>8, Zenon DEF Books

\* Every step keeps both laws.
LEMMA KeepsStep ==
    Books /\ Opened /\ Lasting /\ [Next]_vars => \A x \in Ends : Keeps(x)
<1> USE Zenon
\* A step that moves no meter keeps both laws.
<1>KeepsStill. ASSUME NEW x \in Ends, UNCHANGED Meters(x), UNCHANGED Meters(Other(x))
               PROVE  Keeps(x)
  <2> USE <1>KeepsStill
  <2>1. /\ Heading(Other(x))' = Heading(Other(x)) /\ Held(Other(x))' = Held(Other(x))
        /\ Owed(Other(x))' = Owed(Other(x))
    BY DEF Meters
  <2>2. /\ Returning(x)' = Returning(x) /\ Counted(x)' = Counted(x)
        /\ Charged(x)' = Charged(x) /\ Uncounted(x)' = Uncounted(x) /\ Forgiven(x)' = Forgiven(x)
    BY DEF Meters
  <2>3. Outstanding(x)' = Outstanding(x)
    BY <2>1, <2>2, OutstandingIs
  <2> QED BY <2>2, <2>3 DEF Keeps, Law, Tight
\* Admitting a write counts its bytes in inFlight and in Outstanding alike
\* (stream.go:84-95).
<1>KeepsAdmit. ASSUME IInv, Lengths, Credits, NEW e \in Ends, WriteAdmit(e)
               PROVE  Keeps(e) /\ Keeps(Other(e))
  <2> USE <1>KeepsAdmit
  <2> USE DEF readVars, linkVars, histVars
  <2>1. Other(e) \in Ends /\ Other(e) # e /\ Other(Other(e)) = e
    BY OtherEnd
  <2>2. wr \in [Ends -> Writers] /\ inFlight \in [Ends -> Nat] /\ flowEnabled \in [Ends -> BOOLEAN]
    BY DEF IInv, TypeOK, CallTypes, FlowTypes
  <2>3. UNCHANGED <<frames, readQueue, pendAck, early, writtenOff>>
    BY DEF WriteAdmit
  <2>4. \A x \in Ends : UNCHANGED <<Heading(x), Returning(x), Held(x), Owed(x), Uncounted(x), Forgiven(x)>>
    BY <2>3, Still
  <2>5. ~wr[e].counted /\ wr[e].len \in Nat
    BY <2>2 DEF WriteAdmit, Credits, Writers
  <2>6. wr'[e].len = wr[e].len /\ wr'[e].counted = flowEnabled[e] /\ wr'[Other(e)] = wr[Other(e)]
    BY <2>1, <2>2 DEF WriteAdmit
  <2>7. Charged(e)' = (IF flowEnabled[e] THEN Charged(e) + wr[e].len ELSE Charged(e)) /\ Charged(Other(e))' = Charged(Other(e))
    BY <2>1, <2>2 DEF WriteAdmit, Charged
  <2>8. Counted(e) = 0 /\ Counted(e)' = (IF flowEnabled[e] THEN wr[e].len ELSE 0) /\ Counted(Other(e))' = Counted(Other(e))
    BY <2>5, <2>6 DEF Counted
  <2>9. UNCHANGED <<Heading(e), Returning(e), Held(e), Owed(e), Uncounted(e), Forgiven(e)>>
        /\ UNCHANGED <<Heading(Other(e)), Returning(Other(e)), Held(Other(e)), Owed(Other(e)), Uncounted(Other(e)), Forgiven(Other(e))>>
    BY <2>1, <2>4
  <2>10. Keeps(Other(e))
    <3>1. Outstanding(Other(e))' = Outstanding(Other(e))
      BY <2>1, <2>8, <2>9, OutstandingIs, ZenonT(30)
    <3> QED BY <2>7, <2>9, <3>1 DEF Keeps, Law, Tight
  <2>11. Keeps(e)
    <3>0. PICK n \in Nat : n = wr[e].len
      BY <2>5
    <3>1. \/ Charged(e)' = Charged(e) /\ Counted(e)' = 0
          \/ Charged(e)' = Charged(e) + n /\ Counted(e)' = n
      BY <2>7, <2>8, <3>0
    <3>2. Outstanding(e) = 0 + Heading(Other(e)) + Held(Other(e)) + Owed(Other(e)) + Returning(e)
      BY <2>8, OutstandingIs
    <3>3. Outstanding(e)' = Counted(e)' + Heading(Other(e)) + Held(Other(e)) + Owed(Other(e)) + Returning(e)
      BY <2>9, OutstandingIs
    <3>4. /\ Heading(Other(e)) \in Nat /\ Held(Other(e)) \in Nat /\ Owed(Other(e)) \in Nat /\ Returning(e) \in Nat
          /\ Charged(e) \in Nat /\ Uncounted(e) \in Nat /\ Forgiven(e) \in Nat
      BY <2>1, MeterTypes
    <3>5. Uncounted(e)' = Uncounted(e) /\ Forgiven(e)' = Forgiven(e)
      BY <2>9
    <3> QED BY <3>1, <3>2, <3>3, <3>4, <3>5, SMTT(30) DEF Keeps, Law, Tight
  <2> QED BY <2>10, <2>11
\* The rest of the writer: bytes that are sent are on their way or lost; those of a
\* send that fails are given back.
<1>KeepsSend. ASSUME IInv, Whole, Credits, NEW e \in Ends, WriteSend(e)
              PROVE  Keeps(e) /\ Keeps(Other(e))
  <2> USE <1>KeepsSend
  <2> USE DEF readVars, flowVars
  <2>1. Other(e) \in Ends /\ Other(e) # e /\ Other(Other(e)) = e
    BY OtherEnd
  <2>2. wr \in [Ends -> Writers] /\ early \in [Ends -> Nat] /\ written[e] \in Nat
    BY DEF IInv, TypeOK, CallTypes, HistTypes
  <2>3. UNCHANGED <<readQueue, pendAck, inFlight, writtenOff, faults, closed>>
    BY DEF WriteSend
  <2>4. \A x \in Ends : UNCHANGED <<Held(x), Owed(x), Charged(x), Forgiven(x)>>
    BY <2>3, Still
  <2>5. UNCHANGED <<Held(e), Owed(e), Charged(e), Forgiven(e)>>
        /\ UNCHANGED <<Held(Other(e)), Owed(Other(e)), Charged(Other(e)), Forgiven(Other(e))>>
    BY <2>1, <2>4
  <2>6. wr[e].len \in Nat
    BY <2>2 DEF Writers
  <2>7. wr'[e] = Idle /\ wr'[Other(e)] = wr[Other(e)]
    BY <2>1, <2>2 DEF WriteSend
  <2>8. Uncounted(e)' = (IF wr[e].counted THEN Uncounted(e) ELSE Uncounted(e) + wr[e].len) /\ Uncounted(Other(e))' = Uncounted(Other(e))
    BY <2>1, <2>2 DEF WriteSend, Uncounted
  <2>9. Counted(e)' = 0 /\ Counted(Other(e))' = Counted(Other(e))
    <3>1. ~Idle.counted
      BY SMTT(30) DEF Idle
    <3> QED BY <2>7, <3>1 DEF Counted
  <2>10. PICK c : c = Data(written[e] + 1, wr[e].len)
    OBVIOUS
  <2>11. c \in Frames /\ BytesOf("data")[c] = wr[e].len /\ BytesOf("ack")[c] = 0
    <3>1. written[e] + 1 \in Nat
      BY <2>2, SMTT(30)
    <3> QED BY <2>6, <2>10, <3>1, FrameWeights
  <2>12. Put(e, c)
    BY <2>10 DEF WriteSend
  <2>13. /\ Heading(e)' = Heading(e) /\ Returning(e)' = Returning(e)
         /\ Heading(Other(e))' = (IF Carries(e) THEN Heading(Other(e)) + BytesOf("data")[c] ELSE Heading(Other(e)))
         /\ Returning(Other(e))' = (IF Carries(e) THEN Returning(Other(e)) + BytesOf("ack")[c] ELSE Returning(Other(e)))
    BY <2>11, <2>12, Sent
  <2>14. Returning(Other(e))' = Returning(Other(e))
    <3>1. Returning(Other(e)) \in Nat
      BY <2>1, MeterTypes
    <3>2. Returning(Other(e))' = IF Carries(e) THEN Returning(Other(e)) + 0 ELSE Returning(Other(e))
      BY <2>11, <2>13
    <3> QED BY <3>1, <3>2, SMTT(30)
  <2>15. Keeps(Other(e))
    <3>1. Outstanding(Other(e))' = Outstanding(Other(e))
      BY <2>1, <2>5, <2>9, <2>13, <2>14, OutstandingIs
    <3> QED BY <2>5, <2>8, <3>1 DEF Keeps, Law, Tight
  <2>16. Heading(Other(e))' = (IF Carries(e) THEN Heading(Other(e)) + wr[e].len ELSE Heading(Other(e)))
    BY <2>11, <2>13
  <2>17. Unharmed' => Carries(e)
    BY <2>3, UnharmedCarries DEF Unharmed
  <2>18. Counted(e) = IF wr[e].counted THEN wr[e].len ELSE 0
    BY DEF Counted
  <2>19. Keeps(e)
    <3>1. Outstanding(e) = Counted(e) + Heading(Other(e)) + Held(Other(e)) + Owed(Other(e)) + Returning(e)
      BY OutstandingIs
    <3>2. Outstanding(e)' = 0 + Heading(Other(e))' + Held(Other(e)) + Owed(Other(e)) + Returning(e)
      BY <2>5, <2>9, <2>13, OutstandingIs
    <3>3. /\ Heading(Other(e)) \in Nat /\ Held(Other(e)) \in Nat /\ Owed(Other(e)) \in Nat /\ Returning(e) \in Nat
          /\ Charged(e) \in Nat /\ Uncounted(e) \in Nat /\ Forgiven(e) \in Nat
      BY <2>1, MeterTypes
    <3>0. PICK n \in Nat : n = wr[e].len
      BY <2>6
    <3>4. /\ \/ Counted(e) = n /\ Uncounted(e)' = Uncounted(e)
             \/ Counted(e) = 0 /\ Uncounted(e)' = Uncounted(e) + n
          /\ \/ Heading(Other(e))' = Heading(Other(e)) + n
             \/ Heading(Other(e))' = Heading(Other(e)) /\ ~Unharmed'
      BY <2>8, <2>16, <2>17, <2>18, <3>0
    <3>5. Charged(e)' = Charged(e) /\ Forgiven(e)' = Forgiven(e)
      BY <2>5
    <3> QED BY <3>1, <3>2, <3>3, <3>4, <3>5, SMTT(30) DEF Keeps, Law, Tight
  <2> QED BY <2>15, <2>19
<1>KeepsWriter. ASSUME IInv, Whole, Credits, NEW e \in Ends, (\E n \in Sizes : WriteBegin(e, n)) \/ WriteAbandon(e) \/ WriteFail(e)
                PROVE  Keeps(e) /\ Keeps(Other(e))
  <2> USE <1>KeepsWriter
  <2> USE DEF readVars, flowVars, linkVars, histVars
  <2>1. Other(e) \in Ends /\ Other(e) # e /\ Other(Other(e)) = e
    BY OtherEnd
  <2>2. wr \in [Ends -> Writers] /\ inFlight \in [Ends -> Nat]
    BY DEF IInv, TypeOK, CallTypes, FlowTypes
  <2>3. UNCHANGED <<frames, readQueue, pendAck, early, writtenOff, faults, closed>>
    BY DEF WriteBegin, WriteAbandon, WriteFail
  <2>4. \A x \in Ends : UNCHANGED <<Heading(x), Returning(x), Held(x), Owed(x), Uncounted(x), Forgiven(x)>>
    BY <2>3, Still
  <2>5. UNCHANGED <<Heading(e), Returning(e), Held(e), Owed(e), Uncounted(e), Forgiven(e)>>
        /\ UNCHANGED <<Heading(Other(e)), Returning(Other(e)), Held(Other(e)), Owed(Other(e)), Uncounted(Other(e)), Forgiven(Other(e))>>
    BY <2>1, <2>4
  <2>6. ~wr'[e].counted /\ wr'[Other(e)] = wr[Other(e)]
    <3>1. ~Idle.counted /\ \A n : ~[pc |-> "flow", len |-> n, counted |-> FALSE].counted
      BY SMTT(30) DEF Idle
    <3>2. wr'[Other(e)] = wr[Other(e)] /\ (wr'[e] = Idle \/ \E n : wr'[e] = [pc |-> "flow", len |-> n, counted |-> FALSE])
      BY <2>1, <2>2 DEF WriteBegin, WriteAbandon, WriteFail
    <3> QED BY <3>1, <3>2
  <2>7. Counted(e)' = 0 /\ Counted(Other(e))' = Counted(Other(e))
    BY <2>6 DEF Counted
  <2>8. Charged(Other(e))' = Charged(Other(e))
    BY <2>1, <2>2 DEF WriteBegin, WriteAbandon, WriteFail, Charged
  <2>9. Keeps(Other(e))
    <3>1. Outstanding(Other(e))' = Outstanding(Other(e))
      BY <2>1, <2>5, <2>7, OutstandingIs
    <3> QED BY <2>5, <2>8, <3>1 DEF Keeps, Law, Tight
  <2>10. CASE WriteFail(e)
    <3>1. Charged(e)' = Less(Charged(e), wr[e].len) /\ wr[e].len \in Nat
      BY <2>2, <2>10 DEF WriteFail, Writers, Charged
    <3>2. ~wr[e].counted => Charged(e) = 0
      BY <2>10 DEF WriteFail, Credits, Charged
    <3>3. Counted(e) = IF wr[e].counted THEN wr[e].len ELSE 0
      BY DEF Counted
    <3>4. ~Unharmed'
      <4>1. peer[e] = "closed" \/ linkClosed[e]
        BY <2>10 DEF WriteFail
      <4>2. Unharmed' => peer[e] = "open" /\ ~linkClosed[e]
        BY <2>3, UnharmedCarries DEF Unharmed
      <4> QED BY <4>1, <4>2
    <3>5. Outstanding(e) = Counted(e) + Heading(Other(e)) + Held(Other(e)) + Owed(Other(e)) + Returning(e)
      BY OutstandingIs
    <3>6. Outstanding(e)' = Counted(e)' + Heading(Other(e)) + Held(Other(e)) + Owed(Other(e)) + Returning(e)
      BY <2>5, OutstandingIs
    <3>7. /\ Heading(Other(e)) \in Nat /\ Held(Other(e)) \in Nat /\ Owed(Other(e)) \in Nat /\ Returning(e) \in Nat
          /\ Charged(e) \in Nat /\ Uncounted(e) \in Nat /\ Forgiven(e) \in Nat
      BY <2>1, MeterTypes
    <3>0. PICK n \in Nat : n = wr[e].len
      BY <3>1
    <3>8. /\ Charged(e)' = Less(Charged(e), n)
          /\ Counted(e) = n \/ (Counted(e) = 0 /\ Charged(e) = 0)
      BY <3>0, <3>1, <3>2, <3>3, ZenonT(30)
    <3>9. Law(e) => Law(e)'
      <4>1. Outstanding(e)' = 0 + Heading(Other(e)) + Held(Other(e)) + Owed(Other(e)) + Returning(e)
        BY <2>7, <3>6
      <4>2. Uncounted(e)' = Uncounted(e) /\ Forgiven(e)' = Forgiven(e)
        BY <2>5
      <4> QED BY <3>5, <3>7, <3>8, <4>1, <4>2, SMTT(30) DEF Law, Less
    <3> QED BY <2>9, <3>4, <3>9 DEF Keeps
  <2>11. CASE (\E n \in Sizes : WriteBegin(e, n)) \/ WriteAbandon(e)
    <3>1. Charged(e)' = Charged(e) /\ wr[e].pc # "send"
      BY <2>11 DEF WriteBegin, WriteAbandon, WriteMuFree, Charged
    <3>2. Counted(e) = 0
      BY <3>1 DEF Credits, Counted
    <3>3. Outstanding(e)' = Outstanding(e)
      BY <2>1, <2>5, <2>7, <3>2, OutstandingIs
    <3> QED BY <2>5, <2>9, <3>1, <3>3 DEF Keeps, Law, Tight
  <2> QED BY <2>10, <2>11
\* The reader: bytes that are read are owed an ack, and acks that are sent are
\* on their way or lost.
<1>KeepsRead. ASSUME IInv, Lengths, NEW e \in Ends, Read(e)
              PROVE  Keeps(e) /\ Keeps(Other(e))
  <2> USE <1>KeepsRead
  <2> USE DEF readVars, flowVars, linkVars
  <2>1. Other(e) \in Ends /\ Other(e) # e /\ Other(Other(e)) = e
    BY OtherEnd
  <2>2. readQueue \in [Ends -> Seq(Frames)] /\ pendAck \in [Ends -> [Sizes -> Nat]]
    BY DEF IInv, TypeOK, CallTypes, ReadTypes
  <2>3. UNCHANGED <<frames, wr, inFlight, early, writtenOff>>
    BY DEF Read
  <2>4. \A x \in Ends : UNCHANGED <<Heading(x), Returning(x), Counted(x), Charged(x), Uncounted(x), Forgiven(x)>>
    BY <2>3, Still
  <2>5. UNCHANGED <<Heading(e), Returning(e), Counted(e), Charged(e), Uncounted(e), Forgiven(e)>>
        /\ UNCHANGED <<Heading(Other(e)), Returning(Other(e)), Counted(Other(e)),
                       Charged(Other(e)), Uncounted(Other(e)), Forgiven(Other(e))>>
    BY <2>1, <2>4
  <2>6. PICK n : n = Head(readQueue[e]).len
    OBVIOUS
  <2>7. /\ readQueue[e] # <<>> /\ readQueue' = [readQueue EXCEPT ![e] = Tail(readQueue[e])]
        /\ pendAck' = [pendAck EXCEPT ![e] = [pendAck[e] EXCEPT ![n] = @ + 1]]
    BY <2>6 DEF Read, Taken, AckLater
  <2>8. /\ readQueue'[e] = Tail(readQueue[e]) /\ readQueue'[Other(e)] = readQueue[Other(e)]
        /\ pendAck'[e] = [pendAck[e] EXCEPT ![n] = @ + 1] /\ pendAck'[Other(e)] = pendAck[Other(e)]
    BY <2>1, <2>2, <2>7
  <2>9. Head(readQueue[e]) \in Frames /\ n \in Nat /\ n \in Sizes
    BY <2>2, <2>6, <2>7, HeadFrame, AllSizedSteps DEF Lengths
  <2>10. Held(e)' + n = Held(e)
    <3>1. Tally(Tail(readQueue[e]), Bytes) + Bytes[Head(readQueue[e])] = Tally(readQueue[e], Bytes)
      BY <2>2, <2>7, TallyTail, Weights
    <3> QED BY <2>6, <2>8, <2>9, <3>1, Weights DEF Held
  <2>11. Owed(e)' = Owed(e) + n
    <3>1. PICK a \in [Sizes -> Nat] : a = pendAck[e]
      BY <2>2
    <3>2. PICK b : b = [a EXCEPT ![n] = @ + 1]
      OBVIOUS
    <3>3. b \in [Sizes -> Nat]
      <4>1. PICK m \in Nat : m = a[n]
        BY <2>9, <3>1
      <4>2. m + 1 \in Nat
        BY SMTT(30)
      <4> QED BY <2>9, <3>1, <3>2, <4>1, <4>2
    <3>4. Promised(b) = Promised(a) + n
      BY <2>9, <3>1, <3>2, <3>3, PromisedMore
    <3> QED BY <2>8, <3>1, <3>2, <3>4 DEF Owed
  <2>12. Held(Other(e))' = Held(Other(e)) /\ Owed(Other(e))' = Owed(Other(e))
    BY <2>1, <2>8, Still
  <2>13. Keeps(e)
    <3>1. Outstanding(e)' = Outstanding(e)
      BY <2>1, <2>5, <2>12, OutstandingIs
    <3> QED BY <2>5, <3>1 DEF Keeps, Law, Tight
  <2>14. Held(e)' \in Nat
    <3>1. Tail(readQueue[e]) \in Seq(Frames)
      BY <2>2, <2>7, TailFrames
    <3> QED BY <2>8, <3>1, TallyNat, Weights DEF Held
  <2>15. Keeps(Other(e))
    <3>1. Outstanding(Other(e))' = Outstanding(Other(e))
      <4>1. /\ Outstanding(Other(e)) = Counted(Other(e)) + Heading(e) + Held(e) + Owed(e) + Returning(Other(e))
            /\ Outstanding(Other(e))' = Counted(Other(e)) + Heading(e) + Held(e)' + (Owed(e) + n) + Returning(Other(e))
        BY <2>1, <2>5, <2>11, OutstandingIs
      <4>2. Counted(Other(e)) \in Nat /\ Heading(e) \in Nat /\ Owed(e) \in Nat /\ Returning(Other(e)) \in Nat
        BY <2>1, MeterTypes
      <4> QED BY <2>9, <2>10, <2>14, <4>1, <4>2, SMTT(30)
    <3> QED BY <2>5, <3>1 DEF Keeps, Law, Tight
  <2> QED BY <2>13, <2>15
<1>KeepsAck. ASSUME IInv, Whole, NEW e \in Ends, NEW n \in Sizes, SendAck(e, n)
             PROVE  Keeps(e) /\ Keeps(Other(e))
  <2> USE <1>KeepsAck
  <2> USE DEF readVars, flowVars, linkVars, histVars
  <2>1. Other(e) \in Ends /\ Other(e) # e /\ Other(Other(e)) = e
    BY OtherEnd
  <2>0. n \in Nat
    BY SizesAssumption
  <2>2. pendAck \in [Ends -> [Sizes -> Nat]] /\ n \in Nat
    BY <2>0 DEF IInv, TypeOK, CallTypes
  <2>3. UNCHANGED <<readQueue, wr, inFlight, early, writtenOff, faults, closed>>
    BY DEF SendAck
  <2>4. \A x \in Ends : UNCHANGED <<Held(x), Counted(x), Charged(x), Uncounted(x), Forgiven(x)>>
    BY <2>3, Still
  <2>5. UNCHANGED <<Held(e), Counted(e), Charged(e), Uncounted(e), Forgiven(e)>>
        /\ UNCHANGED <<Held(Other(e)), Counted(Other(e)),
                       Charged(Other(e)), Uncounted(Other(e)), Forgiven(Other(e))>>
    BY <2>1, <2>4
  <2>6. PICK b \in [Sizes -> Nat] : b = pendAck[e]
    BY <2>2
  <2>7. PICK a : a = [b EXCEPT ![n] = @ - 1]
    OBVIOUS
  <2>8. pendAck'[e] = a /\ pendAck'[Other(e)] = pendAck[Other(e)] /\ b[n] > 0
    BY <2>1, <2>2, <2>6, <2>7 DEF SendAck
  <2>9. a \in [Sizes -> Nat] /\ b = [a EXCEPT ![n] = @ + 1]
    BY <2>6, <2>7, <2>8, SMTT(30)
  <2>10. Owed(e) = Owed(e)' + n /\ Owed(e)' \in Nat
    <3>1. Promised(b) = Promised(a) + n /\ Promised(a) \in Nat
      BY <2>9, PromisedMore, PromisedNat
    <3> QED BY <2>6, <2>8, <3>1 DEF Owed
  <2>11. Owed(Other(e))' = Owed(Other(e))
    BY <2>1, <2>8, Still
  <2>12. PICK c : c = Ack(n)
    OBVIOUS
  <2>13. c \in Frames /\ BytesOf("data")[c] = 0 /\ BytesOf("ack")[c] = n /\ Put(e, c)
    BY <2>2, <2>12, FrameWeights DEF SendAck
  <2>14. /\ Heading(e)' = Heading(e) /\ Returning(e)' = Returning(e)
         /\ Heading(Other(e))' = (IF Carries(e) THEN Heading(Other(e)) + BytesOf("data")[c] ELSE Heading(Other(e)))
         /\ Returning(Other(e))' = (IF Carries(e) THEN Returning(Other(e)) + BytesOf("ack")[c] ELSE Returning(Other(e)))
    BY <2>13, Sent
  <2>15. Heading(Other(e))' = Heading(Other(e))
    <3>1. Heading(Other(e)) \in Nat
      BY <2>1, MeterTypes
    <3>2. Heading(Other(e))' = IF Carries(e) THEN Heading(Other(e)) + 0 ELSE Heading(Other(e))
      BY <2>13, <2>14
    <3> QED BY <3>1, <3>2, SMTT(30)
  <2>16. Returning(Other(e))' = IF Carries(e) THEN Returning(Other(e)) + n ELSE Returning(Other(e))
    BY <2>13, <2>14
  <2>17. Keeps(e)
    <3>1. Outstanding(e)' = Outstanding(e)
      BY <2>1, <2>5, <2>11, <2>14, <2>15, OutstandingIs
    <3> QED BY <2>5, <3>1 DEF Keeps, Law, Tight
  <2>18. Unharmed' => Carries(e)
    BY <2>3, UnharmedCarries DEF Unharmed
  <2>19. Keeps(Other(e))
    <3>1. Outstanding(Other(e)) = Counted(Other(e)) + Heading(e) + Held(e) + (Owed(e)' + n) + Returning(Other(e))
      BY <2>1, <2>10, OutstandingIs
    <3>2. Outstanding(Other(e))' = Counted(Other(e)) + Heading(e) + Held(e) + Owed(e)' + Returning(Other(e))'
      BY <2>1, <2>5, <2>14, OutstandingIs
    <3>3. /\ Counted(Other(e)) \in Nat /\ Heading(e) \in Nat /\ Held(e) \in Nat /\ Returning(Other(e)) \in Nat
          /\ Charged(Other(e)) \in Nat /\ Uncounted(Other(e)) \in Nat /\ Forgiven(Other(e)) \in Nat
      BY <2>1, MeterTypes
    <3>4. /\ Carries(e) => Outstanding(Other(e))' = Outstanding(Other(e))
          /\ Outstanding(Other(e)) \in Nat /\ Outstanding(Other(e))' \in Nat
          /\ Outstanding(Other(e))' <= Outstanding(Other(e))
      <4>1. CASE Carries(e)
        <5>1. Returning(Other(e))' = Returning(Other(e)) + n
          BY <2>16, <4>1
        <5> QED BY <2>0, <2>10, <3>1, <3>2, <3>3, <5>1, SMTT(30)
      <4>2. CASE ~Carries(e)
        <5>1. Returning(Other(e))' = Returning(Other(e))
          BY <2>16, <4>2
        <5> QED BY <2>0, <2>10, <3>1, <3>2, <3>3, <4>2, <5>1, SMTT(30)
      <4> QED BY <4>1, <4>2
    <3>5. Law(Other(e)) => Law(Other(e))'
      <4>1. UNCHANGED <<Charged(Other(e)), Uncounted(Other(e)), Forgiven(Other(e))>>
        BY <2>5
      <4> QED BY <3>3, <3>4, <4>1, SMTT(30) DEF Law
    <3> QED BY <2>5, <2>18, <3>4, <3>5 DEF Keeps, Tight
  <2> QED BY <2>17, <2>19
<1>KeepsReadPart. ASSUME IInv, NEW e \in Ends, ReadPart(e)
                  PROVE  Keeps(e) /\ Keeps(Other(e))
  <2> USE <1>KeepsReadPart
  <2>1. Other(e) \in Ends /\ Other(Other(e)) = e
    BY OtherEnd
  <2>2. UNCHANGED <<frames, readQueue, pendAck, wr, inFlight, early, writtenOff>>
    BY DEF ReadPart, readVars, flowVars, linkVars, histVars, callVars
  <2>3. \A x \in Ends : UNCHANGED Meters(x)
    BY <2>2, Still DEF Meters
  <2> QED BY <2>1, <2>3, <1>KeepsStill
\* The receiver.
<1>KeepsData. ASSUME IInv, Whole, NEW e \in Ends, ReceiveData(e), Unharmed => ~closedRead[e]
              PROVE  Keeps(e) /\ Keeps(Other(e))
  <2> USE <1>KeepsData
  <2> USE DEF readVars, flowVars, linkVars, callVars, histVars
  <2>1. Other(e) \in Ends /\ Other(e) # e /\ Other(Other(e)) = e
    BY OtherEnd
  <2>2. readQueue \in [Ends -> Seq(Frames)] /\ frames \in [Ends -> Seq(Frames)]
    BY DEF IInv, TypeOK, ReadTypes, LinkTypes
  <2>3. UNCHANGED <<pendAck, wr, inFlight, early, writtenOff, faults, closed>>
    BY DEF ReceiveData
  <2>4. \A x \in Ends : UNCHANGED <<Owed(x), Counted(x), Charged(x), Uncounted(x), Forgiven(x)>>
    BY <2>3, Still
  <2>5. UNCHANGED <<Owed(e), Counted(e), Charged(e), Uncounted(e), Forgiven(e)>>
        /\ UNCHANGED <<Owed(Other(e)), Counted(Other(e)),
                       Charged(Other(e)), Uncounted(Other(e)), Forgiven(Other(e))>>
    BY <2>1, <2>4
  <2>6. PICK c : c = Head(frames[e])
    OBVIOUS
  <2>7. frames[e] # <<>> /\ c.type = "data" /\ frames' = [frames EXCEPT ![e] = Tail(@)]
    BY <2>6 DEF ReceiveData, Receiving, Ready
  <2>8. c \in Frames /\ c.len \in Nat /\ Tail(frames[e]) \in Seq(Frames)
    BY <2>2, <2>6, <2>7, HeadFrame, TailFrames
  <2>9. BytesOf("data")[c] = c.len /\ BytesOf("ack")[c] = 0 /\ Bytes[c] = c.len
    BY <2>7, <2>8, Weights
  <2>10. /\ Heading(e)' + c.len = Heading(e) /\ Returning(e)' + 0 = Returning(e)
         /\ Heading(Other(e))' = Heading(Other(e)) /\ Returning(Other(e))' = Returning(Other(e))
         /\ frames'[e] = Tail(frames[e])
    BY <2>6, <2>7, <2>9, Received
  <2>11. Heading(e)' \in Nat /\ Returning(e)' \in Nat
    BY <2>8, <2>10, TallyNat, Weights DEF Heading, Returning
  <2>12. /\ readQueue'[Other(e)] = readQueue[Other(e)]
         /\ \/ readQueue'[e] = readQueue[e] /\ (closedRead[e] \/ closed[e])
            \/ readQueue'[e] = Append(readQueue[e], c)
    BY <2>1, <2>2, <2>6 DEF ReceiveData
  <2>13. Held(Other(e))' = Held(Other(e))
    BY <2>1, <2>12, Still
  <2>14. \/ Held(e)' = Held(e) /\ (closedRead[e] \/ closed[e])
         \/ Held(e)' = Held(e) + c.len
    <3>1. Tally(Append(readQueue[e], c), Bytes) = Tally(readQueue[e], Bytes) + c.len
      <4>1. readQueue[e] \in Seq(Frames)
        BY <2>2
      <4>2. Tally(Append(readQueue[e], c), Bytes) = Tally(readQueue[e], Bytes) + Bytes[c]
        BY <2>8, <4>1, TallyAppend, Weights
      <4> QED BY <2>9, <4>2
    <3> QED BY <2>12, <3>1, Still DEF Held
  <2>15. Unharmed' => Unharmed /\ Held(e)' = Held(e) + c.len
    BY <2>3, <2>14 DEF Unharmed
  <2>16. Keeps(e)
    <3>1. Outstanding(e)' = Outstanding(e)
      <4>1. Returning(e)' + 0 = Returning(e)
        BY <2>10
      <4>2. Returning(e)' = Returning(e)
        BY <2>11, <4>1, PlusZero
      <4> QED BY <2>1, <2>5, <2>10, <2>13, <4>2, OutstandingIs
    <3> QED BY <2>5, <3>1 DEF Keeps, Law, Tight
  <2>17. Keeps(Other(e))
    <3>1. Outstanding(Other(e)) = Counted(Other(e)) + Heading(e) + Held(e) + Owed(e) + Returning(Other(e))
      BY <2>1, OutstandingIs
    <3>2. Outstanding(Other(e))' = Counted(Other(e)) + Heading(e)' + Held(e)' + Owed(e) + Returning(Other(e))
      BY <2>1, <2>5, <2>10, OutstandingIs
    <3>3. /\ Counted(Other(e)) \in Nat /\ Heading(e) \in Nat /\ Held(e) \in Nat /\ Owed(e) \in Nat
          /\ Returning(Other(e)) \in Nat /\ Charged(Other(e)) \in Nat /\ Uncounted(Other(e)) \in Nat
          /\ Forgiven(Other(e)) \in Nat
      BY <2>1, MeterTypes
    <3>4. Outstanding(Other(e)) \in Nat /\ Outstanding(Other(e))' \in Nat
          /\ Outstanding(Other(e))' <= Outstanding(Other(e)) /\ (Unharmed' => Outstanding(Other(e))' = Outstanding(Other(e)))
      <4>1. PICK n \in Nat : n = c.len
        BY <2>8
      <4>2. Heading(e)' + n = Heading(e) /\ Heading(e)' \in Nat
        BY <2>10, <2>11, <4>1
      <4>3. Held(e)' = Held(e) \/ Held(e)' = Held(e) + n
        BY <2>14, <4>1
      <4>4. Outstanding(Other(e)) \in Nat /\ Outstanding(Other(e))' \in Nat /\ Outstanding(Other(e))' <= Outstanding(Other(e))
        <5>1. PICK a \in Nat, b \in Nat, d \in Nat, h \in Nat, k \in Nat, m \in Nat :
                  /\ a = Counted(Other(e)) /\ b = Heading(e)' /\ d = Held(e) /\ h = Owed(e) /\ k = Returning(Other(e))
                  /\ m = Heading(e)
          BY <3>3, <4>2
        <5>2. /\ Outstanding(Other(e)) = a + m + d + h + k /\ b + n = m
              /\ \/ Outstanding(Other(e))' = a + b + d + h + k
                 \/ Outstanding(Other(e))' = a + b + (d + n) + h + k
          BY <3>1, <3>2, <4>2, <4>3, <5>1
        <5> QED BY <5>2, SMTT(30)
      <4>5. Held(e)' = Held(e) + n => Outstanding(Other(e))' = Outstanding(Other(e))
        BY <3>1, <3>2, <3>3, <4>2, SMTT(30)
      <4> QED BY <2>15, <4>1, <4>4, <4>5
    <3>5. UNCHANGED <<Charged(Other(e)), Uncounted(Other(e)), Forgiven(Other(e))>>
      BY <2>5
    <3> QED BY <3>3, <3>4, <3>5, SMTT(30) DEF Keeps, Law, Tight
  <2> QED BY <2>16, <2>17
\* An ack takes from inFlight at most what it stops being outstanding
\* (stream.go:209-217).
<1>KeepsReceiveAck. ASSUME IInv, NEW e \in Ends, ReceiveAck(e)
                    PROVE  Keeps(e) /\ Keeps(Other(e))
  <2> USE <1>KeepsReceiveAck
  <2> USE DEF readVars, flowVars, linkVars, callVars, histVars
  <2>1. Other(e) \in Ends /\ Other(e) # e /\ Other(Other(e)) = e
    BY OtherEnd
  <2>2. inFlight \in [Ends -> Nat] /\ frames \in [Ends -> Seq(Frames)]
    BY DEF IInv, TypeOK, FlowTypes, LinkTypes
  <2>3. UNCHANGED <<pendAck, wr, readQueue, early, writtenOff>>
    BY DEF ReceiveAck
  <2>4. \A x \in Ends : UNCHANGED <<Owed(x), Counted(x), Held(x), Uncounted(x), Forgiven(x)>>
    BY <2>3, Still
  <2>5. UNCHANGED <<Owed(e), Counted(e), Held(e), Uncounted(e), Forgiven(e)>>
        /\ UNCHANGED <<Owed(Other(e)), Counted(Other(e)), Held(Other(e)), Uncounted(Other(e)), Forgiven(Other(e))>>
    BY <2>1, <2>4
  <2>6. PICK c : c = Head(frames[e])
    OBVIOUS
  <2>7. /\ frames[e] # <<>> /\ c.type = "ack" /\ frames' = [frames EXCEPT ![e] = Tail(@)]
        /\ inFlight' = [inFlight EXCEPT ![e] = Less(inFlight[e], c.len)]
    BY <2>6 DEF ReceiveAck, Receiving, Ready
  <2>8. c \in Frames /\ c.len \in Nat /\ Tail(frames[e]) \in Seq(Frames)
    BY <2>2, <2>6, <2>7, HeadFrame, TailFrames
  <2>9. BytesOf("ack")[c] = c.len /\ BytesOf("data")[c] = 0
    BY <2>7, <2>8, Weights
  <2>10. /\ Heading(e)' + 0 = Heading(e) /\ Returning(e)' + c.len = Returning(e)
         /\ Heading(Other(e))' = Heading(Other(e)) /\ Returning(Other(e))' = Returning(Other(e))
         /\ frames'[e] = Tail(frames[e])
    BY <2>6, <2>7, <2>9, Received
  <2>11. Heading(e)' \in Nat /\ Returning(e)' \in Nat
    BY <2>8, <2>10, TallyNat, Weights DEF Heading, Returning
  <2>12. Charged(e)' = Less(Charged(e), c.len) /\ Charged(Other(e))' = Charged(Other(e))
    BY <2>1, <2>2, <2>7 DEF Charged
  <2>13. Keeps(Other(e))
    <3>1. Heading(e)' = Heading(e)
      <4>1. Heading(e)' + 0 = Heading(e)
        BY <2>10
      <4> QED BY <2>11, <4>1, PlusZero
    <3>2. Outstanding(Other(e))' = Outstanding(Other(e))
      BY <2>1, <2>5, <2>10, <3>1, OutstandingIs
    <3> QED BY <2>5, <2>12, <3>2 DEF Keeps, Law, Tight
  <2>14. Keeps(e)
    <3>1. Outstanding(e) = Counted(e) + Heading(Other(e)) + Held(Other(e)) + Owed(Other(e)) + Returning(e)
      BY OutstandingIs
    <3>2. Outstanding(e)' = Counted(e) + Heading(Other(e)) + Held(Other(e)) + Owed(Other(e)) + Returning(e)'
      BY <2>1, <2>5, <2>10, OutstandingIs
    <3>3. /\ Counted(e) \in Nat /\ Heading(Other(e)) \in Nat /\ Held(Other(e)) \in Nat /\ Owed(Other(e)) \in Nat
          /\ Returning(e) \in Nat /\ Charged(e) \in Nat /\ Uncounted(e) \in Nat /\ Forgiven(e) \in Nat
      BY <2>1, MeterTypes
    <3>4. PICK n \in Nat : n = c.len
      BY <2>8
    <3>5. Returning(e)' + n = Returning(e) /\ Returning(e)' \in Nat
      BY <2>10, <2>11, <3>4
    <3>6. Charged(e)' = Less(Charged(e), n)
      BY <2>12, <3>4
    <3>7. Uncounted(e)' = Uncounted(e) /\ Forgiven(e)' = Forgiven(e)
      BY <2>5
    <3> QED BY <3>1, <3>2, <3>3, <3>5, <3>6, <3>7, SMTT(30) DEF Keeps, Law, Tight, Less
  <2> QED BY <2>13, <2>14
\* A reconnection writes off what is in flight.
<1>KeepsWrittenOff. ASSUME IInv, NEW e \in Ends,
                           inFlight' = [inFlight EXCEPT ![e] = 0], writtenOff' = [writtenOff EXCEPT ![e] = @ + inFlight[e]],
                           UNCHANGED <<pendAck, wr, readQueue, early>>,
                           \A x \in Ends : UNCHANGED <<Heading(x), Returning(x)>>
                    PROVE  Keeps(e) /\ Keeps(Other(e))
  <2> USE <1>KeepsWrittenOff
  <2>1. Other(e) \in Ends /\ Other(e) # e /\ Other(Other(e)) = e
    BY OtherEnd
  <2>2. inFlight \in [Ends -> Nat] /\ writtenOff \in [Ends -> Nat]
    BY DEF IInv, TypeOK, FlowTypes, HistTypes
  <2>3. \A x \in Ends : UNCHANGED <<Owed(x), Counted(x), Held(x), Uncounted(x), Heading(x), Returning(x)>>
    BY Still
  <2>4. \A x \in Ends : Outstanding(x)' = Outstanding(x) /\ Uncounted(x)' = Uncounted(x)
    <3>1. SUFFICES ASSUME NEW x \in Ends PROVE Outstanding(x)' = Outstanding(x) /\ Uncounted(x)' = Uncounted(x)
      OBVIOUS
    <3>2. Other(x) \in Ends
      BY OtherEnd
    <3>3. Counted(x)' = Counted(x) /\ Returning(x)' = Returning(x) /\ Uncounted(x)' = Uncounted(x)
      BY <2>3
    <3>4. Heading(Other(x))' = Heading(Other(x)) /\ Held(Other(x))' = Held(Other(x)) /\ Owed(Other(x))' = Owed(Other(x))
      BY <2>3, <3>2
    <3> QED BY <3>3, <3>4, OutstandingIs
  <2>5. /\ Charged(e)' = 0 /\ Charged(Other(e))' = Charged(Other(e))
        /\ Forgiven(e)' = Forgiven(e) + Charged(e) /\ Forgiven(Other(e))' = Forgiven(Other(e))
    BY <2>1, <2>2 DEF Charged, Forgiven
  <2>6. Keeps(Other(e))
    BY <2>1, <2>4, <2>5 DEF Keeps, Law, Tight
  <2>7. Keeps(e)
    <3>1. Charged(e) \in Nat /\ Forgiven(e) \in Nat /\ Uncounted(e) \in Nat
      BY MeterTypes
    <3>2. /\ Counted(e) \in Nat /\ Heading(Other(e)) \in Nat /\ Held(Other(e)) \in Nat /\ Owed(Other(e)) \in Nat
          /\ Returning(e) \in Nat
          /\ Outstanding(e) = Counted(e) + Heading(Other(e)) + Held(Other(e)) + Owed(Other(e)) + Returning(e)
      BY <2>1, MeterTypes, OutstandingIs
    <3>3. /\ Outstanding(e)' = Outstanding(e) /\ Uncounted(e)' = Uncounted(e)
          /\ Charged(e)' = 0 /\ Forgiven(e)' = Forgiven(e) + Charged(e)
      BY <2>4, <2>5
    <3> QED BY <3>1, <3>2, <3>3, SMTT(30) DEF Keeps, Law, Tight
  <2> QED BY <2>6, <2>7
<1>KeepsReset. ASSUME IInv, NEW e \in Ends, ReconnectedReset(e)
               PROVE  Keeps(e) /\ Keeps(Other(e))
  <2> USE <1>KeepsReset
  <2>1. /\ inFlight' = [inFlight EXCEPT ![e] = 0] /\ writtenOff' = [writtenOff EXCEPT ![e] = @ + inFlight[e]]
        /\ UNCHANGED <<pendAck, wr, readQueue, early, frames>>
    BY DEF ReconnectedReset, readVars, linkVars
  <2>2. \A x \in Ends : UNCHANGED <<Heading(x), Returning(x)>>
    BY <2>1, Still
  <2> QED BY <2>1, <2>2, <1>KeepsWrittenOff
<1>KeepsResume. ASSUME IInv, NEW e \in Ends, ReceiveResume(e)
                PROVE  Keeps(e) /\ Keeps(Other(e))
  <2> USE <1>KeepsResume
  <2>1. /\ inFlight' = [inFlight EXCEPT ![e] = 0] /\ writtenOff' = [writtenOff EXCEPT ![e] = @ + inFlight[e]]
        /\ UNCHANGED <<pendAck, wr, readQueue, early>>
    BY DEF ReceiveResume, readVars, callVars
  <2>2. Other(e) \in Ends /\ Other(e) # e /\ \A x \in Ends : x = e \/ x = Other(e)
    BY DEF Ends, Other
  <2>3. frames[e] \in Seq(Frames) /\ frames[Other(e)] \in Seq(Frames) /\ frames[e] # <<>> /\ Head(frames[e]).type = "resume"
    BY <2>2 DEF IInv, TypeOK, LinkTypes, ReceiveResume, Ready
  <2>4. \A t \in {"data", "ack"} : Tally(frames'[e], BytesOf(t)) = Tally(frames[e], BytesOf(t))
    <3>1. frames'[e] = Tail(frames[e])
      BY DEF ReceiveResume
    <3>2. SUFFICES ASSUME NEW t \in {"data", "ack"} PROVE Tally(frames'[e], BytesOf(t)) = Tally(frames[e], BytesOf(t))
      OBVIOUS
    <3>3. Tail(frames[e]) \in Seq(Frames) /\ Head(frames[e]) \in Frames
      BY <2>3, HeadFrame, TailFrames
    <3>4. Tally(Tail(frames[e]), BytesOf(t)) + BytesOf(t)[Head(frames[e])] = Tally(frames[e], BytesOf(t))
      BY <2>3, TallyTail, Weights
    <3>5. BytesOf(t)[Head(frames[e])] = 0
      BY <2>3, <3>3, Weights
    <3>6. Tally(Tail(frames[e]), BytesOf(t)) \in Nat
      BY <3>3, TallyNat, Weights
    <3>7. Tally(Tail(frames[e]), BytesOf(t)) + 0 = Tally(Tail(frames[e]), BytesOf(t))
      BY <3>6, PlusZero
    <3> QED BY <3>1, <3>4, <3>5, <3>7
  <2>5. \A t \in {"data", "ack"} : Tally(frames'[Other(e)], BytesOf(t)) = Tally(frames[Other(e)], BytesOf(t))
    <3>1. frames'[Other(e)] = frames[Other(e)] \/ frames'[Other(e)] = Append(frames[Other(e)], Control("flow"))
      BY <2>2 DEF ReceiveResume
    <3>2. SUFFICES ASSUME NEW t \in {"data", "ack"}, frames'[Other(e)] = Append(frames[Other(e)], Control("flow"))
                   PROVE  Tally(frames'[Other(e)], BytesOf(t)) = Tally(frames[Other(e)], BytesOf(t))
      BY <3>1
    <3>3. Control("flow") \in Frames /\ BytesOf(t)[Control("flow")] = 0
      BY FrameWeights DEF Controls
    <3>4. Tally(frames'[Other(e)], BytesOf(t)) = Tally(frames[Other(e)], BytesOf(t)) + BytesOf(t)[Control("flow")]
      BY <2>3, <3>2, <3>3, TallyAppend, Weights, ZenonT(30)
    <3>5. Tally(frames[Other(e)], BytesOf(t)) \in Nat
      BY <2>3, TallyNat, Weights
    <3>6. Tally(frames[Other(e)], BytesOf(t)) + 0 = Tally(frames[Other(e)], BytesOf(t))
      BY <3>5, PlusZero
    <3> QED BY <3>3, <3>4, <3>6
  <2>6. \A x \in Ends : UNCHANGED <<Heading(x), Returning(x)>>
    BY <2>2, <2>4, <2>5, ZenonT(30) DEF Heading, Returning
  <2> QED BY <2>1, <2>6, <1>KeepsWrittenOff
\* A calm step can only lower what is outstanding, and only by a loss.
<1>KeepsCalm. ASSUME IInv, Whole, Opened, Lasting, Calm, NEW x \in Ends
              PROVE  Keeps(x)
  <2> USE <1>KeepsCalm
  <2>1. Other(x) \in Ends
    BY OtherEnd
  <2>2. UNCHANGED <<wr, readQueue, pendAck, inFlight, early, writtenOff>>
    BY DEF Calm, Untouched
  <2>3. /\ Counted(x)' = Counted(x) /\ Held(Other(x))' = Held(Other(x)) /\ Owed(Other(x))' = Owed(Other(x))
        /\ Charged(x)' = Charged(x) /\ Uncounted(x)' = Uncounted(x) /\ Forgiven(x)' = Forgiven(x)
    BY <2>1, <2>2, Still
  <2>4. \A y \in Ends : /\ Heading(y)' \in Nat /\ Heading(y)' <= Heading(y) /\ (~Loses(y) => Heading(y)' = Heading(y))
                        /\ Returning(y)' \in Nat /\ Returning(y)' <= Returning(y) /\ (~Loses(y) => Returning(y)' = Returning(y))
    BY CalmTally, LightBytes DEF Heading, Returning
  <2>5. Unharmed' => \A y \in Ends : ~Loses(y)
    <3>1. SUFFICES ASSUME Unharmed', NEW y \in Ends PROVE ~Loses(y)
      OBVIOUS
    <3>2. Unharmed
      BY <3>1 DEF Unharmed, Lasting
    <3>3. peer[y] = "open" /\ rc[y] = "none"
      BY <3>2, UnharmedCarries
    <3>4. op[y] # "closePeer" /\ faults' = 0
      BY <3>1, <3>2 DEF Unharmed, Whole
    <3> QED BY <3>3, <3>4 DEF Loses
  <2>6. /\ Heading(Other(x))' \in Nat /\ Heading(Other(x))' <= Heading(Other(x))
        /\ Returning(x)' \in Nat /\ Returning(x)' <= Returning(x)
        /\ Unharmed' => Heading(Other(x))' = Heading(Other(x)) /\ Returning(x)' = Returning(x)
    BY <2>1, <2>4, <2>5
  <2>7. Outstanding(x) = Counted(x) + Heading(Other(x)) + Held(Other(x)) + Owed(Other(x)) + Returning(x)
    BY OutstandingIs
  <2>8. Outstanding(x)' = Counted(x) + Heading(Other(x))' + Held(Other(x)) + Owed(Other(x)) + Returning(x)'
    BY <2>3, OutstandingIs
  <2>9. /\ Counted(x) \in Nat /\ Heading(Other(x)) \in Nat /\ Held(Other(x)) \in Nat /\ Owed(Other(x)) \in Nat
        /\ Returning(x) \in Nat /\ Charged(x) \in Nat /\ Uncounted(x) \in Nat /\ Forgiven(x) \in Nat
    BY <2>1, MeterTypes
  <2> QED BY <2>3, <2>6, <2>7, <2>8, <2>9, SMTT(30) DEF Keeps, Law, Tight
<1> SUFFICES ASSUME Books, Opened, Lasting, [Next]_vars, NEW x \in Ends
             PROVE  Keeps(x)
  OBVIOUS
<1>1. IInv /\ Whole /\ Lengths /\ Credits
  BY DEF Books, EofInv
<1>2. CASE Calm
  BY <1>1, <1>2, <1>KeepsCalm
<1>3. ASSUME NEW e \in Ends, Busy(e) PROVE Keeps(x)
  <2>1. x = e \/ x = Other(e)
    BY SMTT(30) DEF Ends, Other
  <2>2. ASSUME ReceiveData(e), Unharmed PROVE ~closedRead[e]
    <3>1. frames[e] \in Seq(Frames) /\ frames[e] # <<>> /\ Head(frames[e]).type = "data"
      BY <1>1, <2>2 DEF IInv, TypeOK, LinkTypes, ReceiveData, Receiving, Ready
    <3>2. ~NoData(frames[e])
      BY <3>1, EofTail
    <3>3. Open(e)
      BY <1>1, <2>2, BothOpen DEF Unharmed
    <3> QED BY <3>2, <3>3 DEF Books, EofInv, EofState
  <2> QED BY <1>1, <1>3, <2>1, <2>2, <1>KeepsAdmit, <1>KeepsSend, <1>KeepsWriter, <1>KeepsRead, <1>KeepsAck, <1>KeepsReadPart,
             <1>KeepsData, <1>KeepsReceiveAck, <1>KeepsReset, <1>KeepsResume DEF Busy
<1> QED BY <1>1, <1>2, <1>3, CalmOrBusy

\* Every step keeps it.
LEMMA BooksStep == Books /\ [Next]_vars => Books'
<1> USE Zenon
<1> SUFFICES ASSUME Books, [Next]_vars PROVE Books'
  OBVIOUS
<1>1. EofInv /\ IInv /\ Whole /\ Lengths /\ Credits /\ QueueAccounting
  BY DEF Books, EofInv
<1>2. EofInv'
  BY <1>1, EofStep
<1>3. Whole' /\ Opened /\ Lasting
  BY <1>1, WholeStep
<1>4. Lengths' /\ Credits'
  BY <1>1, CreditStep
<1>5. QueueAccounting'
  BY <1>1, QueueStep
<1>6. \A x \in Ends : Keeps(x)
  BY <1>3, KeepsStep
<1>7. WindowLaw'
  BY <1>6 DEF Books, WindowLaw, Keeps, Law, Charged, Uncounted, Forgiven
<1>8. NoCreditLeak'
  <2>1. Unharmed' => Unharmed
    BY <1>3 DEF Unharmed, Lasting
  <2>2. NoCreditLeak = (Unharmed => \A e \in Ends : Tight(e))
    BY DEF NoCreditLeak, Unharmed, Tight, Charged
  <2>3. Unharmed' => \A e \in Ends : Tight(e)'
    BY <1>6, <2>1, <2>2 DEF Books, Keeps
  <2> QED BY <2>3 DEF NoCreditLeak, Unharmed, Tight, Charged
<1> QED BY <1>2, <1>4, <1>5, <1>7, <1>8 DEF Books

\* So it holds always.
LEMMA BooksAlways == Spec => []Books
<1>1. Spec => Init /\ [][Next]_vars
  BY Zenon DEF Spec
<1> QED BY <1>1, InitBooks, BooksStep, PTL

\* For every queue limit and all lengths of writes: readQueued is the number of
\* bytes that readQueue holds, stays within the limit, and the cursor of a
\* partial Read stays inside the first chunk (stream.go:130-160, 195-208).
THEOREM QueueCounted == Spec => []QueueAccounting
<1>1. Books => QueueAccounting
  BY Zenon DEF Books
<1> QED BY <1>1, BooksAlways, PTL

\* For every window, and any number of lost channels: what one end was allowed to
\* send and has not been acknowledged is covered by inFlight, by what it sent
\* before flow:1 and by what a reconnection wrote off; late and repeated acks
\* never open the window further (stream.go:84-95, 170, 195, 209-217).
THEOREM WindowHolds == Spec => []WindowLaw
<1>1. Books => WindowLaw
  BY Zenon DEF Books
<1> QED BY <1>1, BooksAlways, PTL

\* While no channel is lost and no end has failed, inFlight counts nothing that is
\* not outstanding: the credit of a chunk comes back when it has been read.
THEOREM CreditReturns == Spec => []NoCreditLeak
<1>1. Books => NoCreditLeak
  BY Zenon DEF Books
<1> QED BY <1>1, BooksAlways, PTL
==============================================================================
