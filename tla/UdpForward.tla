------------------------------ MODULE UdpForward ------------------------------
(***************************************************************************)
(* session/udp.go and protocol/datagram: a local UDP port, one association *)
(* per source endpoint, one P2P stream per association, and UDPForward at  *)
(* the listener's side of every stream.  Both sides of a stream run the    *)
(* same three goroutines: a writer (datagrams into frames), a reader       *)
(* (frames into datagrams) and waitForDatagramBridge.                      *)
(*                                                                         *)
(* A datagram is an identity and a length.  A stream carries cells: one    *)
(* header cell with the length, then one cell per byte.  Stream 0 is the   *)
(* one opened before the port is bound (preconnectedStreamOpener).  Time   *)
(* is abstract: an idle timer may fire whenever its bridge waits, so the   *)
(* activity signals that restart it leave no trace in the state.           *)
(***************************************************************************)
EXTENDS Naturals, Sequences, FiniteSets

CONSTANTS Sources,          \* local endpoints that send to the port
          Lengths,          \* datagram lengths in bytes, 0 among them
          MaxAssociations,  \* maxUDPAssociations
          QueueDepth,       \* udpPacketQueueDepth; the kernel's queue at the remote side
          MaxPackets,       \* bound: datagrams that arrive at the local port
          ReplyLengths,     \* lengths of the target's datagrams
          MaxReplies        \* bound: datagrams that arrive from the target

Sides == {"local", "remote"}
Other(s) == IF s = "local" THEN "remote" ELSE "local"
Assocs == 1 .. MaxPackets
Streams == 0 .. MaxPackets

ASSUME LimitsAssumption ==
    /\ MaxAssociations \in Nat \ {0} /\ QueueDepth \in Nat \ {0}
    /\ MaxPackets \in Nat /\ MaxReplies \in Nat /\ Lengths \cup ReplyLengths \subseteq Nat
    /\ Sources # {}

VARIABLES
    ctx,        \* the context of StartLocalUDPForward is live
    listener,   \* the local socket is open
    loop,       \* the receiving goroutine runs
    table,      \* associations: source -> association, 0 for none
    assoc,      \* per association: its source, where its goroutine is, whether its
                \* context was cancelled, the stream it uses
    first,      \* opener.first holds stream 0
    made,       \* associations created so far
    bridge,     \* per stream and side: the packets waiting for the writer and the one
                \* being written, the three goroutines, errorsCh, this end of the
                \* stream, the cells on their way to it, and the packets it has sent
                \* that the other side has not delivered (history)
    intact,     \* history: every packet was delivered as it was sent
    arrived, replied

vars == <<ctx, listener, loop, table, assoc, first, made, bridge, intact, arrived, replied>>

------------------------------------------------------------------------------
\* Association a dials stream a, unless it is handed stream 0; packets wait in
\* the queue of the association while its stream is being opened.
NoPacket == [id |-> 0, len |-> 0]
Header(p) == <<[kind |-> "header", id |-> p.id, len |-> p.len]>>
Payload(p) == [i \in 1 .. p.len |-> [kind |-> "byte", id |-> p.id, len |-> i]]
Bridge(st, e) ==
    [queue |-> <<>>, cur |-> NoPacket, writer |-> st, reader |-> st, waiter |-> st,
     errorsCh |-> <<>>, end |-> e, wire |-> <<>>, sent |-> <<>>]

\* runClient and startClient open one stream before they bind the port; its
\* remote side has been accepted and runs UDPForward.
Init ==
    /\ ctx = TRUE /\ listener = TRUE /\ loop = TRUE
    /\ table = [c \in Sources |-> 0]
    /\ assoc = [a \in Assocs |-> [src |-> CHOOSE c \in Sources : TRUE, pc |-> "none",
                                  cancelled |-> FALSE, sid |-> a]]
    /\ first = TRUE /\ made = 0
    /\ bridge = [k \in Streams |-> [s \in Sides |->
                    IF k = 0 THEN Bridge(IF s = "remote" THEN "run" ELSE "off", "open")
                             ELSE Bridge("off", "none")]]
    /\ intact = TRUE /\ arrived = 0 /\ replied = 0

Running(a) == assoc[a].pc \notin {"none", "gone"}
Done(a) == assoc[a].cancelled \/ ~ctx
Owner(k, a) == assoc[a].pc = "bridge" /\ assoc[a].sid = k
Live == {c \in Sources : table[c] # 0}

------------------------------------------------------------------------------
\* The receiving goroutine: a datagram from c is dropped at the limit, starts an
\* association or joins the one that exists, and is dropped when its queue is
\* full.
Arrival(n) == [id |-> arrived + 1, len |-> n]
Queued(q, p) == IF Len(q) < QueueDepth THEN Append(q, p) ELSE q

ReceiveOverLimit(c) ==
    /\ loop /\ listener /\ arrived < MaxPackets
    /\ table[c] = 0 /\ Cardinality(Live) >= MaxAssociations
    /\ arrived' = arrived + 1
    /\ UNCHANGED <<ctx, listener, loop, table, assoc, first, made, bridge, intact, replied>>

ReceiveNew(c, n) ==
    /\ loop /\ listener /\ arrived < MaxPackets
    /\ table[c] = 0 /\ Cardinality(Live) < MaxAssociations
    /\ LET a == made + 1
       IN  /\ table' = [table EXCEPT ![c] = a]
           /\ assoc' = [assoc EXCEPT ![a].src = c, ![a].pc = "open"]
           /\ bridge' = [bridge EXCEPT ![a]["local"].queue = <<Arrival(n)>>]
    /\ made' = made + 1 /\ arrived' = arrived + 1
    /\ UNCHANGED <<ctx, listener, loop, first, intact, replied>>

ReceiveKnown(c, n) ==
    /\ loop /\ listener /\ arrived < MaxPackets /\ table[c] # 0
    /\ arrived' = arrived + 1
    /\ bridge' = [bridge EXCEPT ![assoc[table[c]].sid]["local"].queue = Queued(@, Arrival(n))]
    /\ UNCHANGED <<ctx, listener, loop, table, assoc, first, made, intact, replied>>

\* The socket is closed: the goroutine cancels the associations in the table.
LoopEnds ==
    /\ loop /\ ~listener
    /\ loop' = FALSE
    /\ assoc' = [a \in Assocs |->
                    IF table[assoc[a].src] = a THEN [assoc[a] EXCEPT !.cancelled = TRUE]
                                               ELSE assoc[a]]
    /\ UNCHANGED <<ctx, listener, table, first, made, bridge, intact, arrived, replied>>

------------------------------------------------------------------------------
\* openStream: opener.Open hands out stream 0 once, then dials, which fails or
\* succeeds; the remote side then runs UDPForward.
Started(b) == [b EXCEPT !.writer = "run", !.reader = "run", !.waiter = "run"]

OpenFirst(a) ==
    /\ assoc[a].pc = "open" /\ first
    /\ first' = FALSE
    /\ assoc' = [assoc EXCEPT ![a].pc = "bridge", ![a].sid = 0]
    /\ LET b == Started(bridge[0]["local"])
       IN  bridge' = [bridge EXCEPT
               ![0]["local"] = [b EXCEPT !.queue = bridge[a]["local"].queue],
               ![a]["local"].queue = <<>>]
    /\ UNCHANGED <<ctx, listener, loop, table, made, intact, arrived, replied>>

OpenDials(a) ==
    /\ assoc[a].pc = "open" /\ ~first /\ ~Done(a)
    /\ assoc' = [assoc EXCEPT ![a].pc = "bridge"]
    /\ bridge' = [bridge EXCEPT
           ![a] = [s \in Sides |-> [Started(bridge[a][s]) EXCEPT !.end = "open"]]]
    /\ UNCHANGED <<ctx, listener, loop, table, first, made, intact, arrived, replied>>

OpenFails(a) ==
    /\ assoc[a].pc = "open" /\ ~first
    /\ assoc' = [assoc EXCEPT ![a].pc = "forget"]
    /\ bridge' = [bridge EXCEPT ![a]["local"].queue = <<>>]
    /\ UNCHANGED <<ctx, listener, loop, table, first, made, intact, arrived, replied>>

------------------------------------------------------------------------------
\* datagram.Write is two writes, of the header and of the payload; a payload of
\* no bytes is no write at all.  Cells sent to an end that is gone are lost.
Delivery(k, s, cells) ==
    IF bridge[k][Other(s)].end = "open" THEN bridge[k][Other(s)].wire \o cells ELSE <<>>

WriteHeader(k, s) ==
    /\ bridge[k][s].writer = "run" /\ bridge[k][s].queue # <<>> /\ bridge[k][s].end = "open"
    /\ LET b == bridge[k][s]
           p == Head(b.queue)
       IN  bridge' = [bridge EXCEPT
               ![k][s] = [b EXCEPT !.queue = Tail(@), !.sent = Append(@, p),
                                   !.cur = IF p.len = 0 THEN NoPacket ELSE p,
                                   !.writer = IF p.len = 0 THEN "run" ELSE "payload"],
               ![k][Other(s)].wire = Delivery(k, s, Header(p))]
    /\ UNCHANGED <<ctx, listener, loop, table, assoc, first, made, intact, arrived, replied>>

WritePayload(k, s) ==
    /\ bridge[k][s].writer = "payload" /\ bridge[k][s].end = "open"
    /\ bridge' = [bridge EXCEPT
           ![k][s].writer = "run", ![k][s].cur = NoPacket,
           ![k][Other(s)].wire = Delivery(k, s, Payload(bridge[k][s].cur))]
    /\ UNCHANGED <<ctx, listener, loop, table, assoc, first, made, intact, arrived, replied>>

\* The other end is gone: the stream may refuse the write.
WriteFails(k, s) ==
    /\ \/ bridge[k][s].writer = "payload"
       \/ bridge[k][s].writer = "run" /\ bridge[k][s].queue # <<>>
    /\ bridge[k][Other(s)].end # "open"
    /\ bridge' = [bridge EXCEPT ![k][s].writer = "done", ![k][s].errorsCh = Append(@, "error")]
    /\ UNCHANGED <<ctx, listener, loop, table, assoc, first, made, intact, arrived, replied>>

\* The local writer, waiting for a packet, sees that its context has ended.
WriterStops(k) ==
    /\ bridge[k]["local"].writer = "run" /\ \E a \in Assocs : Owner(k, a) /\ Done(a)
    /\ bridge' = [bridge EXCEPT ![k]["local"].writer = "done",
                                ![k]["local"].errorsCh = Append(@, "error")]
    /\ UNCHANGED <<ctx, listener, loop, table, assoc, first, made, intact, arrived, replied>>

------------------------------------------------------------------------------
\* datagram.Read returns a whole packet, which goes to the source or the target.
HeaderLenIgnored(cells) == 0
HeaderLen(cells) == Head(cells).len
Complete(cells) == cells # <<>> /\ Len(cells) > HeaderLen(cells)

ReadPacket(k, s) ==
    LET cells == bridge[k][s].wire
        n == HeaderLen(cells)
        sent == bridge[k][Other(s)].sent
    IN  /\ bridge[k][s].reader = "run" /\ Complete(cells)
        /\ s = "local" => listener
        /\ intact' = (intact /\ sent # <<>> /\ Head(cells) = Header(Head(sent))[1]
                             /\ SubSeq(cells, 2, n + 1) = Payload(Head(sent)))
        /\ bridge' = [bridge EXCEPT ![k][s].wire = SubSeq(@, n + 2, Len(@)),
                                    ![k][Other(s)].sent = IF @ = <<>> THEN @ ELSE Tail(@)]
        /\ UNCHANGED <<ctx, listener, loop, table, assoc, first, made, arrived, replied>>

\* The local socket is closed (net.ErrClosed), or the target's refuses the packet.
PacketRefused(k, s) ==
    /\ bridge[k][s].reader = "run" /\ Complete(bridge[k][s].wire)
    /\ s = "local" => ~listener
    /\ bridge' = [bridge EXCEPT
           ![k][s].reader = "done",
           ![k][s].errorsCh = Append(@, IF s = "local" THEN "eof" ELSE "error")]
    /\ UNCHANGED <<ctx, listener, loop, table, assoc, first, made, intact, arrived, replied>>

\* The other side ends the stream: between two packets, or between a header and
\* its payload, that is an EOF; a reset is an error, and may overtake packets.
ReadEnds(k, s) ==
    /\ bridge[k][s].reader = "run"
    /\ \/ bridge[k][Other(s)].end = "reset"
       \/ bridge[k][Other(s)].end = "closed" /\ ~Complete(bridge[k][s].wire)
    /\ bridge' = [bridge EXCEPT
           ![k][s].reader = "done",
           ![k][s].errorsCh = Append(@, IF bridge[k][Other(s)].end = "closed" THEN "eof" ELSE "error")]
    /\ UNCHANGED <<ctx, listener, loop, table, assoc, first, made, intact, arrived, replied>>

------------------------------------------------------------------------------
\* waitForDatagramBridge returns: the stream is reset unless the bridge was idle
\* or saw its end, and the deferred stream.Close follows.  Writer and reader then
\* fail on the closed stream or socket and report to a channel with room for
\* both, which nobody reads any more.
ReturnForgetsFirst(k, s, e) ==
    /\ bridge[k][s].waiter = "run"
    /\ bridge' = [bridge EXCEPT ![k][s] = Bridge("done", e), ![k][Other(s)].sent = <<>>]
    /\ assoc' = [a \in Assocs |-> IF s = "local" /\ Owner(k, a)
                                  THEN [assoc[a] EXCEPT !.pc = "forget"] ELSE assoc[a]]
    /\ table' = [c \in Sources |-> IF s = "local" /\ table[c] # 0 /\ Owner(k, table[c])
                                   THEN 0 ELSE table[c]]
    /\ UNCHANGED <<ctx, listener, loop, first, made, intact, arrived, replied>>

Return(k, s, e) ==
    /\ bridge[k][s].waiter = "run"
    /\ bridge' = [bridge EXCEPT
           ![k][s] = [Bridge("done", e) EXCEPT !.sent = bridge[k][s].sent],
           ![k][Other(s)].sent = <<>>]
    /\ assoc' = [a \in Assocs |-> IF s = "local" /\ Owner(k, a)
                                  THEN [assoc[a] EXCEPT !.pc = "forget"] ELSE assoc[a]]
    /\ UNCHANGED <<ctx, listener, loop, table, first, made, intact, arrived, replied>>

WaitCancelled(k) == (\E a \in Assocs : Owner(k, a) /\ Done(a)) /\ Return(k, "local", "reset")
WaitIdle(k, s) == Return(k, s, "closed")
WaitError(k, s) ==
    /\ bridge[k][s].errorsCh # <<>>
    /\ Return(k, s, IF Head(bridge[k][s].errorsCh) = "eof" THEN "closed" ELSE "reset")

\* The other deferred calls, in order: the association leaves the table, then its
\* context is cancelled.
Forget(a) ==
    /\ assoc[a].pc = "forget"
    /\ table' = [table EXCEPT ![assoc[a].src] = IF @ = a THEN 0 ELSE @]
    /\ assoc' = [assoc EXCEPT ![a].cancelled = TRUE, ![a].pc = "gone"]
    /\ UNCHANGED <<ctx, listener, loop, first, made, bridge, intact, arrived, replied>>

------------------------------------------------------------------------------
\* The target sends a datagram to the socket of a stream; the context ends; the
\* local socket is then closed, and the client closes the stream nobody took.
Reply(k, n) ==
    /\ bridge[k]["remote"].waiter = "run" /\ replied < MaxReplies
    /\ replied' = replied + 1
    /\ bridge' = [bridge EXCEPT ![k]["remote"].queue = Queued(@, [id |-> replied + 1, len |-> n])]
    /\ UNCHANGED <<ctx, listener, loop, table, assoc, first, made, intact, arrived>>

Cancel ==
    /\ ctx /\ ctx' = FALSE
    /\ UNCHANGED <<listener, loop, table, assoc, first, made, bridge, intact, arrived, replied>>

ListenerCloses ==
    /\ listener /\ ~ctx /\ listener' = FALSE
    /\ UNCHANGED <<ctx, loop, table, assoc, first, made, bridge, intact, arrived, replied>>

OpenerForgets ==
    /\ first /\ ~ctx
    /\ first' = FALSE
    /\ UNCHANGED <<ctx, listener, loop, table, assoc, made, bridge, intact, arrived, replied>>

OpenerCloses ==
    /\ first /\ ~ctx
    /\ first' = FALSE
    /\ bridge' = [bridge EXCEPT ![0]["local"].end = "closed"]
    /\ UNCHANGED <<ctx, listener, loop, table, assoc, made, intact, arrived, replied>>

------------------------------------------------------------------------------
Arrivals ==
    \/ \E c \in Sources : ReceiveOverLimit(c)
    \/ \E c \in Sources, n \in Lengths : ReceiveNew(c, n) \/ ReceiveKnown(c, n)
    \/ \E k \in Streams, n \in ReplyLengths : Reply(k, n)
Open(a) == OpenFirst(a) \/ OpenDials(a) \/ OpenFails(a)
Associate(a) == Open(a) \/ Forget(a)
Pump(k, s) == WriteHeader(k, s) \/ WritePayload(k, s) \/ WriteFails(k, s)
Drain(k, s) == ReadPacket(k, s) \/ PacketRefused(k, s) \/ ReadEnds(k, s)
Wait(k, s) == WaitIdle(k, s) \/ WaitError(k, s)

Next ==
    \/ Arrivals \/ LoopEnds \/ Cancel \/ ListenerCloses \/ OpenerCloses
    \/ \E a \in Assocs : Associate(a)
    \/ \E k \in Streams : WriterStops(k) \/ WaitCancelled(k)
    \/ \E k \in Streams, s \in Sides : Pump(k, s) \/ Drain(k, s) \/ Wait(k, s)

Spec == Init /\ [][Next]_vars

\* Goroutines run, a dial ends, an idle timer fires; what arrives is free.  Each
\* of these steps is taken at most once by its goroutine, so that fairness of the
\* disjunction is fairness of every one of them.
Progress ==
    \/ LoopEnds \/ ListenerCloses \/ OpenerCloses
    \/ \E a \in Assocs : Associate(a)
    \/ \E k \in Streams, s \in Sides : Wait(k, s)

FairSpec == Spec /\ WF_vars(Progress)

------------------------------------------------------------------------------
\* Types of the state.
TypeOK ==
    /\ ctx \in BOOLEAN /\ listener \in BOOLEAN /\ loop \in BOOLEAN /\ first \in BOOLEAN
    /\ table \in [Sources -> 0 .. MaxPackets] /\ intact \in BOOLEAN
    /\ assoc \in [Assocs -> [src : Sources, pc : {"none", "open", "bridge", "forget", "gone"},
                             cancelled : BOOLEAN, sid : Streams]]
    /\ \A k \in Streams, s \in Sides : LET b == bridge[k][s] IN
          /\ b.writer \in {"off", "run", "payload", "done"} /\ b.reader \in {"off", "run", "done"}
          /\ b.waiter \in {"off", "run", "done"} /\ b.end \in {"none", "open", "closed", "reset"}
          /\ Len(b.queue) <= QueueDepth /\ Len(b.errorsCh) <= 2

\* Every datagram that leaves a socket is the next one that entered the other
\* side's, whole and with its length, empty ones included: closing and resetting
\* a stream never joins, splits or repeats packets (frames.go, udp.go).
Boundaries == intact

\* A source has one association at a time, goroutine and stream included, and the
\* limit bounds goroutines, not just entries of the table: an association leaves
\* the table last (the deferred calls of StartLocalUDPForward).
OneAssociation ==
    /\ \A a, b \in Assocs : Running(a) /\ Running(b) /\ assoc[a].src = assoc[b].src => a = b
    /\ Cardinality({a \in Assocs : Running(a)}) <= MaxAssociations

Quiet ==
    /\ ~loop /\ ~listener /\ \A a \in Assocs : ~Running(a)
    /\ \A k \in Streams, s \in Sides : bridge[k][s].end # "open"

\* When the context ends no goroutine, stream or socket of the forward is left,
\* at either side.
EndsClean == ~ctx ~> Quiet
==============================================================================
