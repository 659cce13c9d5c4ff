-------------------------- MODULE StreamAccounting ---------------------------
(***************************************************************************)
(* The byte accounting of NativeStream: what readQueued and inFlight       *)
(* promise about the bytes that are queued, on their way or unacknowledged.*)
(***************************************************************************)
EXTENDS NativeStream

ASSUME LargestAssumption == \E m \in Sizes : \A n \in Sizes : n <= m
Largest == CHOOSE m \in Sizes : \A n \in Sizes : n <= m

\* f[1] + ... + f[k].
Sum(f, k) == LET s[i \in 0..k] == IF i = 0 THEN 0 ELSE s[i - 1] + f[i] IN s[k]

\* What a sequence of frames amounts to when w says what each frame counts for.
Tally(s, w) == Sum([i \in 1..Len(s) |-> w[s[i]]], Len(s))
Bytes == [f \in Frames |-> f.len]
BytesOf(type) == [f \in Frames |-> IF f.type = type THEN f.len ELSE 0]
Promised(acks) == Sum([n \in 1..Largest |-> IF n \in Sizes THEN n * acks[n] ELSE 0], Largest)

\* readQueued counts exactly what readQueue holds, so the limit of 1 MiB
\* (stream.go:147) is a limit on memory, and the cursor stays in the first chunk.
QueueAccounting ==
    \A e \in Ends :
        /\ readQueued[e] = Tally(readQueue[e], Bytes)
        /\ readQueued[e] <= MaxRead
        /\ readOffset[e] > 0 => readQueue[e] # <<>> /\ readOffset[e] < Head(readQueue[e]).len

\* Bytes of e that have been admitted and whose acks have not reached it yet.
Outstanding(e) ==
    LET r == Other(e)
    IN  (IF wr[e].counted THEN wr[e].len ELSE 0)
        + Tally(frames[r], BytesOf("data")) + Tally(readQueue[r], Bytes)
        + Promised(pendAck[r]) + Tally(frames[e], BytesOf("ack"))

\* The window: what is outstanding is what inFlight counts, apart from bytes
\* admitted before flow:1 arrived and bytes that a reconnection wrote off
\* (stream.go:84-95, 170, 195, 209-217).  Late and repeated acks cannot open
\* the window further.
WindowLaw ==
    \A e \in Ends : Outstanding(e) <= inFlight[e] + early[e] + writtenOff[e]

\* Without a loss, and until one end fails and discards what arrives, no credit
\* leaks: inFlight counts nothing that is not outstanding, so a reader that
\* catches up gives the writer its window back.
NoCreditLeak ==
    faults = 0 /\ (\A e \in Ends : ~closed[e]) =>
        \A e \in Ends : inFlight[e] <= Outstanding(e)
==============================================================================
