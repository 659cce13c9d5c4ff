--------------------------- MODULE BridgesProofs ----------------------------
(***************************************************************************)
(* The two ends of a forwarded connection: NothingCutOff and NoLateTimeout *)
(* of Bridges, for any kinds of session and bounds.                        *)
(*                                                                         *)
(* NothingCutOff speaks of two ends that have both returned.  The          *)
(* invariant follows every chunk from the input it was read from to the    *)
(* output it is written to (Balance), says what a copier's report means    *)
(* for the chunks that are left (Reports), and what an end that has        *)
(* returned without an error must have seen (Success).                     *)
(***************************************************************************)
EXTENDS Bridges, TLAPS

\* Types of the state, for every value of the bounds.
Inputs == [Ends -> [made : Nat, read : Nat, ended : BOOLEAN, shut : BOOLEAN]]
Flows == [Ends -> [chunks : Nat, eof : BOOLEAN]]
Types ==
    /\ kind \in Kinds /\ reset \in BOOLEAN /\ lossy \in BOOLEAN
    /\ timer \in {"armed", "stopped", "fired"}
    /\ ctx \in [Ends -> BOOLEAN] /\ closed \in [Ends -> BOOLEAN]
    /\ pc \in [Ends -> {"dial", "greet", "request", "connect", "start", "child", "drain",
                        "bridge", "closed"}]
    /\ ret \in [Ends -> {"none", "ok", "err"}] /\ completed \in [Ends -> Nat]
    /\ input \in Inputs
    /\ inp \in [Ends -> {"off", "run", "delay", "done"}] /\ out \in [Ends -> {"off", "run", "done"}]
    /\ errorsCh \in [Ends -> Seq({"nil", "err"})]
    /\ flow \in Flows /\ got \in [Ends -> Nat]
    /\ held \in Nat /\ eaten \in Nat /\ replies \in Nat /\ faults \in Nat

\* Where a session is says which of its goroutines exist.
Stage(e) ==
    /\ pc[e] = "closed" <=> closed[e]
    /\ pc[e] \in {"dial", "greet", "request", "connect", "start"} =>
          /\ e = "server" /\ inp[e] = "off" /\ out[e] = "off"
          /\ errorsCh[e] = <<>> /\ completed[e] = 0
    /\ pc[e] = "bridge" => inp[e] # "off" /\ out[e] # "off"
    /\ pc[e] = "closed" => inp[e] = "done" /\ out[e] = "done"
    /\ ret[e] # "none" => pc[e] = "closed"
    /\ pc[e] = "dial" => kind = "forward"
    /\ pc[e] \in {"greet", "request", "connect"} => kind = "socks"
    /\ pc[e] \in {"start", "child", "drain"} => kind = "exec"
    /\ input[e].shut => kind = "exec"

\* The end of a stream follows everything its writer has to say.
Silent(e) == flow[e].eof => inp[Other(e)] = "done"

\* What has left the stream at e, with what is still in it, and what entered it.
Carried(e) == flow[e].chunks + got[e] + (IF e = "server" THEN held + eaten ELSE 0)
Written(e) == input[e].read + (IF e = "server" THEN replies ELSE 0)

\* Until it is reset or closed, a stream that has not lost a data channel loses
\* and invents nothing: the end of the stream, when it comes from an end that has
\* closed, comes after everything else.
Intact(e) == closed[Other(e)] => flow[e].eof
Balance(e) == ~reset /\ ~closed[e] /\ Intact(e) => Carried(e) = Written(Other(e))

AllRead(e) == input[e].ended /\ input[e].read = input[e].made
AllGot(e) ==
    /\ flow[e].eof /\ flow[e].chunks = 0 /\ (e = "server" => held = 0)
    /\ Carried(e) = Written(Other(e))

\* What a copier that reported no error has done: the one its whole input, the
\* other the whole stream.
Clean(e) == \A i \in 1 .. Len(errorsCh[e]) : errorsCh[e][i] = "nil"
Reported(g) == IF g = "done" THEN 1 ELSE 0
Reports(e) ==
    pc[e] = "bridge" =>
        /\ completed[e] + Len(errorsCh[e]) = Reported(inp[e]) + Reported(out[e])
        /\ Clean(e) /\ inp[e] = "done" => AllRead(e)
        /\ Clean(e) /\ out[e] = "done" => AllGot(e)
Delayed(e) == inp[e] = "delay" => AllRead(e)
Success(e) == ret[e] = "ok" => AllRead(e) /\ AllGot(e)

Account(e) == Balance(e) /\ Reports(e) /\ Delayed(e) /\ Success(e)

\* The sessions whose chunks are accounted for: those of Exec are not, nor those
\* that lost frames with a data channel.
Tracked == kind # "exec" /\ ~lossy

IInv ==
    /\ Types /\ NoLateTimeout
    /\ \A e \in Ends : Stage(e) /\ Silent(e)
    /\ Tracked => \A e \in Ends : Account(e)

------------------------------------------------------------------------------
\* A stream has two ends.
LEMMA TwoEnds ==
    ASSUME NEW e \in Ends
    PROVE  /\ Other(e) \in Ends /\ Other(e) # e /\ Other(Other(e)) = e
           /\ \A x \in Ends : x = e \/ x = Other(e)
BY Zenon DEF Ends, Other

\* A write and a half-close concern the other end only.
LEMMA SentAt ==
    ASSUME flow \in Flows, NEW e \in Ends
    PROVE  /\ Sent(e) \in Flows /\ Sent(e)[e] = flow[e]
           /\ Sent(e)[Other(e)].eof = flow[Other(e)].eof
           /\ closed[Other(e)] => Sent(e)[Other(e)] = flow[Other(e)]
           /\ ~closed[Other(e)] => Sent(e)[Other(e)].chunks = flow[Other(e)].chunks + 1
<1>1. Other(e) \in Ends /\ Other(e) # e
  BY TwoEnds, Zenon
<1>2. CASE closed[Other(e)]
  BY <1>1, <1>2, Zenon DEF Sent
<1>3. CASE ~closed[Other(e)]
  BY <1>1, <1>3 DEF Sent, Flows
<1>4. QED
  BY <1>2, <1>3, Zenon

LEMMA HalfClosedAt ==
    ASSUME flow \in Flows, NEW e \in Ends
    PROVE  /\ HalfClosed(e) \in Flows /\ HalfClosed(e)[e] = flow[e]
           /\ HalfClosed(e)[Other(e)].chunks = flow[Other(e)].chunks
           /\ HalfClosed(e)[Other(e)].eof
<1>1. Other(e) \in Ends /\ Other(e) # e
  BY TwoEnds, Zenon
<1>2. QED
  BY <1>1, Zenon DEF HalfClosed, Flows

\* A report is appended to the reports of one end: it is clean when it was and
\* the report is no error.
LEMMA ReportAt ==
    ASSUME Types, NEW e \in Ends, NEW v \in {"nil", "err"}, Report(e, v)
    PROVE  /\ errorsCh' \in [Ends -> Seq({"nil", "err"})]
           /\ \A x \in Ends : x # e => errorsCh'[x] = errorsCh[x]
           /\ Len(errorsCh'[e]) = Len(errorsCh[e]) + 1
           /\ Clean(e)' <=> Clean(e) /\ v = "nil"
<1>1. errorsCh \in [Ends -> Seq({"nil", "err"})]
  BY Zenon DEF Types
<1>2. errorsCh'[e] = Append(errorsCh[e], v) /\ \A x \in Ends : x # e => errorsCh'[x] = errorsCh[x]
  BY <1>1, Zenon DEF Report
<1>3. PICK s \in Seq({"nil", "err"}) : s = errorsCh[e]
  BY <1>1, Zenon
<1>4. /\ Append(s, v) \in Seq({"nil", "err"}) /\ Len(s) \in Nat
      /\ Len(Append(s, v)) = Len(s) + 1 /\ Append(s, v)[Len(s) + 1] = v
      /\ \A i \in 1 .. Len(s) : Append(s, v)[i] = s[i]
  OBVIOUS
<1>5. errorsCh' \in [Ends -> Seq({"nil", "err"})]
  BY <1>1, <1>3, <1>4, Zenon DEF Report
<1>6. Clean(e)' <=> Clean(e) /\ v = "nil"
  <2>1. \A i : i \in 1 .. Len(s) + 1 <=> i \in 1 .. Len(s) \/ i = Len(s) + 1
    BY <1>4
  <2>2. QED
    BY <1>2, <1>3, <1>4, <2>1, ZenonT(30) DEF Clean
<1>7. QED
  BY <1>2, <1>3, <1>4, <1>5, <1>6, Zenon

\* A session that returns leaves the state well typed.
LEMMA LeaveTypes ==
    ASSUME Types, NEW e \in Ends, NEW r \in {"ok", "err"}, NEW f \in Flows, NEW rst \in BOOLEAN,
           Leave(e, r, f, rst)
    PROVE  /\ reset' \in BOOLEAN /\ closed' \in [Ends -> BOOLEAN]
           /\ pc' \in [Ends -> {"dial", "greet", "request", "connect", "start", "child", "drain",
                                "bridge", "closed"}]
           /\ ret' \in [Ends -> {"none", "ok", "err"}]
           /\ inp' \in [Ends -> {"off", "run", "delay", "done"}]
           /\ out' \in [Ends -> {"off", "run", "done"}]
           /\ errorsCh' \in [Ends -> Seq({"nil", "err"})] /\ flow' \in Flows
<1>1. /\ pc \in [Ends -> {"dial", "greet", "request", "connect", "start", "child", "drain",
                         "bridge", "closed"}]
      /\ closed \in [Ends -> BOOLEAN] /\ ret \in [Ends -> {"none", "ok", "err"}]
      /\ inp \in [Ends -> {"off", "run", "delay", "done"}]
      /\ out \in [Ends -> {"off", "run", "done"}]
      /\ errorsCh \in [Ends -> Seq({"nil", "err"})]
  BY Zenon DEF Types
<1>2. flow' \in Flows
  BY DEF Leave, Flows
<1>3. errorsCh' \in [Ends -> Seq({"nil", "err"})]
  BY <1>1 DEF Leave
<1>4. QED
  BY <1>1, <1>2, <1>3, Zenon DEF Leave

------------------------------------------------------------------------------
LEMMA Numbers ==
    ASSUME Types, NEW x \in Ends
    PROVE  /\ flow[x].chunks \in Nat /\ flow[x].eof \in BOOLEAN /\ got[x] \in Nat
           /\ held \in Nat /\ eaten \in Nat /\ replies \in Nat
           /\ input[x].read \in Nat /\ input[x].made \in Nat
           /\ completed[x] \in Nat /\ Len(errorsCh[x]) \in Nat
<1>1. flow[x].chunks \in Nat /\ flow[x].eof \in BOOLEAN /\ got[x] \in Nat
  BY DEF Types, Flows
<1>2. input[x].read \in Nat /\ input[x].made \in Nat
  BY DEF Types, Inputs
<1>3. completed[x] \in Nat /\ Len(errorsCh[x]) \in Nat
  BY DEF Types
<1>4. QED
  BY <1>1, <1>2, <1>3, Zenon DEF Types

\* An end accounts for itself still when nothing has moved there.
Resting(x) ==
    /\ reset' = reset /\ closed'[x] = closed[x] /\ closed'[Other(x)] = closed[Other(x)]
    /\ pc'[x] = pc[x] /\ ret'[x] = ret[x]
    /\ completed'[x] = completed[x] /\ errorsCh'[x] = errorsCh[x]
    /\ inp'[x] = inp[x] /\ out'[x] = out[x] /\ input'[x] = input[x]
Unread(x) ==
    /\ flow'[x] = flow[x] /\ got'[x] = got[x] /\ (x = "server" => held' = held /\ eaten' = eaten)
    /\ input'[Other(x)].read = input[Other(x)].read /\ (x = "client" => replies' = replies)

LEMMA Unmoved ==
    ASSUME NEW x \in Ends, Account(x), Resting(x), Unread(x)
    PROVE  Account(x)'
<1>1. Carried(x)' = Carried(x) /\ Written(Other(x))' = Written(Other(x))
  BY DEF Unread, Carried, Written, Other, Ends
<1>2. AllGot(x)' <=> AllGot(x)
  BY <1>1, Zenon DEF AllGot, Unread
<1>3. AllRead(x)' <=> AllRead(x)
  BY Zenon DEF AllRead, Resting
<1>4. Clean(x)' <=> Clean(x)
  BY Zenon DEF Clean, Resting
<1>5. Intact(x)' <=> Intact(x)
  BY Zenon DEF Intact, Resting, Unread
<1>6. QED
  BY <1>1, <1>2, <1>3, <1>4, <1>5, Zenon DEF Account, Balance, Reports, Delayed, Success, Resting

\* Nor does an end that has not seen its stream end learn anything from what is
\* written to it.
LEMMA Unaware ==
    ASSUME NEW x \in Ends, Account(x), Resting(x), ~AllGot(x), Balance(x)'
    PROVE  Account(x)'
<1>1. (AllRead(x)' <=> AllRead(x)) /\ (Clean(x)' <=> Clean(x))
  BY Zenon DEF AllRead, Clean, Resting
<1>2. QED
  BY <1>1, Zenon DEF Account, Reports, Delayed, Success, Resting

LEMMA ProduceStep ==
    ASSUME IInv, NEW e \in Ends, Produce(e) \/ EndInput(e)
    PROVE  IInv'
<1>1. PICK d \in Ends : /\ d = Other(e) /\ d # e /\ Other(d) = e
                        /\ \A x \in Ends : x = e \/ x = d
  BY TwoEnds, Zenon
<1>2. Types /\ Stage(e) /\ Stage(d) /\ Silent(e) /\ Silent(d)
  BY Zenon DEF IInv
<1>3. /\ input' \in Inputs /\ input'[d] = input[d] /\ input'[e].read = input[e].read
      /\ input'[e].shut = input[e].shut /\ ~input[e].ended
  <2>1. input \in Inputs
    BY <1>2, Zenon DEF Types
  <2>2. CASE input' = [input EXCEPT ![e].made = @ + 1] /\ ~input[e].ended
    BY <1>1, <2>1, <2>2 DEF Inputs
  <2>3. CASE input' = [input EXCEPT ![e].ended = TRUE] /\ ~input[e].ended
    BY <1>1, <2>1, <2>3, Zenon DEF Inputs
  <2>4. QED
    BY <2>2, <2>3, Zenon DEF Produce, EndInput
<1>4. UNCHANGED <<kind, lossy, ctx, pc, ret, completed, inp, out, errorsCh, flow, reset, closed, got,
                  held, eaten, replies, timer, faults>>
  BY Zenon DEF Produce, EndInput, fixed, sessionVars, streamVars, socksVars
<1>5. Types' /\ NoLateTimeout'
  BY <1>2, <1>3, <1>4, Zenon DEF IInv, Types, NoLateTimeout
<1>6. Stage(e)' /\ Stage(d)' /\ Silent(e)' /\ Silent(d)'
  BY <1>1, <1>2, <1>3, <1>4, Zenon DEF Stage, Silent
<1>7. ASSUME Tracked
      PROVE  Account(e)' /\ Account(d)'
  <2>1. Account(e) /\ Account(d)
    BY <1>7, Zenon DEF IInv
  <2>2. Account(d)'
    BY <1>1, <1>3, <1>4, <2>1, Unmoved, Zenon DEF Resting, Unread
  <2>3. Carried(e)' = Carried(e) /\ Written(d)' = Written(d)
    BY <1>1, <1>3, <1>4, Zenon DEF Carried, Written
  <2>4. QED
    BY <1>1, <1>3, <1>4, <2>1, <2>2, <2>3, Zenon
       DEF Account, Balance, Intact, Reports, Delayed, Success, AllRead, AllGot, Clean
<1>8. QED
  BY <1>1, <1>4, <1>5, <1>6, <1>7, Zenon DEF IInv, Tracked

LEMMA CopyInStep ==
    ASSUME IInv, NEW e \in Ends, CopyIn(e)
    PROVE  IInv'
<1>1. PICK d \in Ends : /\ d = Other(e) /\ d # e /\ Other(d) = e
                        /\ \A x \in Ends : x = e \/ x = d
  BY TwoEnds, Zenon
<1>2. Types /\ Stage(e) /\ Stage(d) /\ Silent(e) /\ Silent(d)
  BY Zenon DEF IInv
<1>3. /\ input' \in Inputs /\ input'[d] = input[d] /\ input'[e].read = input[e].read + 1
      /\ input'[e].shut = input[e].shut
  <2>1. input \in Inputs /\ input' = [input EXCEPT ![e].read = @ + 1]
    BY <1>2, Zenon DEF Types, CopyIn
  <2>2. QED
    BY <1>1, <2>1 DEF Inputs
<1>4. /\ flow' \in Flows /\ flow'[e] = flow[e] /\ flow'[d].eof = flow[d].eof
      /\ ~closed[d] => flow'[d].chunks = flow[d].chunks + 1
  BY <1>1, <1>2, SentAt, Zenon DEF CopyIn, Types
<1>5. UNCHANGED <<kind, lossy, ctx, pc, ret, completed, inp, out, errorsCh, reset, closed, got,
                  held, eaten, replies, timer, faults>>
  BY Zenon DEF CopyIn, fixed, sessionVars, socksVars
<1>6. Types' /\ NoLateTimeout'
  BY <1>2, <1>3, <1>4, <1>5, Zenon DEF IInv, Types, NoLateTimeout
<1>7. Stage(e)' /\ Stage(d)' /\ Silent(e)' /\ Silent(d)'
  BY <1>1, <1>2, <1>3, <1>4, <1>5, Zenon DEF Stage, Silent
<1>8. ASSUME Tracked
      PROVE  Account(e)' /\ Account(d)'
  <2>1. Account(e) /\ Account(d) /\ inp[e] = "run" /\ ret[e] = "none"
    BY <1>2, <1>8, Zenon DEF IInv, CopyIn, Stage, Types
  <2>2. Carried(e)' = Carried(e) /\ Written(d)' = Written(d)
    BY <1>1, <1>3, <1>4, <1>5, Zenon DEF Carried, Written
  <2>3. Account(e)'
    BY <1>1, <1>4, <1>5, <2>1, <2>2, Zenon
       DEF Account, Balance, Intact, Reports, Delayed, Success, AllRead, AllGot, Clean
  <2>4. ~closed[d] => Carried(d)' = Carried(d) + 1 /\ Written(e)' = Written(e) + 1
    <3>1. /\ flow[d].chunks \in Nat /\ got[d] \in Nat /\ held \in Nat /\ eaten \in Nat
          /\ replies \in Nat /\ input[e].read \in Nat
      BY <1>2, Numbers, Zenon
    <3>2. QED
      BY <1>3, <1>4, <1>5, <3>1 DEF Carried, Written
  <2>5. ~AllGot(d) /\ input'[d] = input[d]
    BY <1>1, <1>2, <1>3, <2>1, Zenon DEF AllGot, Silent
  <2>6. Account(d)'
    <3>1. Balance(d)'
      BY <1>1, <1>4, <1>5, <2>1, <2>4, Zenon DEF Account, Balance, Intact
    <3>2. QED
      BY <1>5, <2>1, <2>5, <3>1, Unaware, Zenon DEF Resting
  <2>7. QED
    BY <2>3, <2>6, Zenon
<1>9. QED
  BY <1>1, <1>5, <1>6, <1>7, <1>8, Zenon DEF IInv, Tracked

\* A session that returns: what it knows when it reports success, and what it has
\* written to the other end as it leaves.
Parting(e, r, f) ==
    /\ ~closed[e] /\ f[e] = flow[e] /\ UNCHANGED <<kind, lossy, ctx, completed, input, got, faults>>
    /\ held' \in Nat /\ eaten' \in Nat /\ replies' \in Nat
    /\ timer' \in {"armed", "stopped", "fired"}
    /\ e = "client" => UNCHANGED <<held, eaten, timer>>
    /\ Tracked =>
          /\ r = "ok" => AllRead(e) /\ AllGot(e) /\ UNCHANGED <<held, eaten, replies>>
          /\ flow[Other(e)].eof => f[Other(e)].eof
          /\ \/ f[Other(e)].chunks = flow[Other(e)].chunks /\ Written(e)' = Written(e)
             \/ /\ ~flow[Other(e)].eof
                /\ ~closed[Other(e)] => /\ f[Other(e)].chunks = flow[Other(e)].chunks + 1
                                        /\ Written(e)' = Written(e) + 1

LEMMA LeaveStep ==
    ASSUME IInv, NEW e \in Ends, NEW r \in {"ok", "err"}, NEW f \in Flows, NEW rst \in BOOLEAN,
           Leave(e, r, f, rst), reset => rst, Parting(e, r, f)
    PROVE  IInv'
<1>1. PICK d \in Ends : /\ d = Other(e) /\ d # e /\ Other(d) = e
                        /\ \A x \in Ends : x = e \/ x = d
  BY TwoEnds, Zenon
<1>2. Types /\ Stage(e) /\ Stage(d) /\ Silent(e) /\ Silent(d)
  BY Zenon DEF IInv
<1>3. /\ reset' = rst
      /\ pc'[e] = "closed" /\ closed'[e] /\ ret'[e] = r /\ inp'[e] = "done" /\ out'[e] = "done"
      /\ errorsCh'[e] = <<>> /\ flow'[e] = [chunks |-> 0, eof |-> f[e].eof]
      /\ pc'[d] = pc[d] /\ closed'[d] = closed[d] /\ ret'[d] = ret[d]
      /\ inp'[d] = inp[d] /\ out'[d] = out[d] /\ errorsCh'[d] = errorsCh[d]
      /\ flow'[d].eof <=> f[d].eof \/ ~WriteClosed(e)
      /\ (rst => flow'[d].chunks = 0) /\ (~rst => flow'[d].chunks = f[d].chunks)
  <2>1. /\ pc \in [Ends -> {"dial", "greet", "request", "connect", "start", "child", "drain",
                           "bridge", "closed"}]
        /\ closed \in [Ends -> BOOLEAN] /\ ret \in [Ends -> {"none", "ok", "err"}]
        /\ inp \in [Ends -> {"off", "run", "delay", "done"}]
        /\ out \in [Ends -> {"off", "run", "done"}]
        /\ errorsCh \in [Ends -> Seq({"nil", "err"})]
    BY <1>2, Zenon DEF Types
  <2>2. /\ pc'[e] = "closed" /\ closed'[e] /\ ret'[e] = r /\ inp'[e] = "done" /\ out'[e] = "done"
        /\ errorsCh'[e] = <<>>
    BY <2>1, Zenon DEF Leave
  <2>3. \A x \in Ends : flow'[x] = [chunks |-> IF rst \/ x = e THEN 0 ELSE f[x].chunks,
                                  eof |-> f[x].eof \/ (x = Other(e) /\ ~WriteClosed(e))]
    BY Zenon DEF Leave
  <2>4. flow'[e] = [chunks |-> 0, eof |-> f[e].eof]
    BY <1>1, <2>3 DEF Flows
  <2>5. /\ pc'[d] = pc[d] /\ closed'[d] = closed[d] /\ ret'[d] = ret[d]
        /\ inp'[d] = inp[d] /\ out'[d] = out[d] /\ errorsCh'[d] = errorsCh[d]
        /\ flow'[d].eof <=> f[d].eof \/ ~WriteClosed(e)
        /\ (rst => flow'[d].chunks = 0) /\ (~rst => flow'[d].chunks = f[d].chunks)
    <3>1. /\ pc'[d] = pc[d] /\ closed'[d] = closed[d] /\ ret'[d] = ret[d]
          /\ inp'[d] = inp[d] /\ out'[d] = out[d] /\ errorsCh'[d] = errorsCh[d]
      BY <1>1, <2>1, Zenon DEF Leave
    <3>2. PICK c, b : /\ c = (IF rst \/ d = e THEN 0 ELSE f[d].chunks)
                      /\ b = (f[d].eof \/ (d = Other(e) /\ ~WriteClosed(e)))
                      /\ flow'[d] = [chunks |-> c, eof |-> b]
      BY <2>3, Zenon
    <3>3. flow'[d].eof = b /\ flow'[d].chunks = c
      BY <3>2
    <3>4. (b <=> f[d].eof \/ ~WriteClosed(e)) /\ (rst => c = 0) /\ (~rst => c = f[d].chunks)
      BY <1>1, <3>2, Zenon
    <3>5. QED
      BY <3>1, <3>3, <3>4, Zenon
  <2>6. QED
    BY <2>2, <2>4, <2>5, Zenon DEF Leave
<1>4. flow'[e].chunks = 0 /\ flow'[e].eof = flow[e].eof
  <2>1. f[e].eof = flow[e].eof
    BY Zenon DEF Parting
  <2>2. QED
    BY <1>3, <2>1
<1>5. Types'
  <2>1. /\ UNCHANGED <<kind, lossy, ctx, completed, input, got, faults>>
        /\ held' \in Nat /\ eaten' \in Nat /\ replies' \in Nat
        /\ timer' \in {"armed", "stopped", "fired"}
    BY Zenon DEF Parting
  <2>2. QED
    BY <1>2, <2>1, LeaveTypes, Zenon DEF Types
<1>6. Stage(e)' /\ Stage(d)'
  <2>1. UNCHANGED <<kind, lossy, completed, input>>
    BY Zenon DEF Parting
  <2>2. Stage(e)'
    BY <1>2, <1>3, <2>1, Zenon DEF Stage
  <2>3. Stage(d)'
    BY <1>2, <1>3, <2>1, Zenon DEF Stage
  <2>4. QED
    BY <2>2, <2>3, Zenon
<1>7. Silent(e)' /\ Silent(d)'
  BY <1>1, <1>2, <1>3, <1>4, Zenon DEF Silent
<1>8. NoLateTimeout'
  <2>1. CASE e = "server"
    BY <1>3, <2>1, Zenon DEF NoLateTimeout
  <2>2. CASE e = "client"
    BY <1>1, <1>3, <2>2, Zenon DEF IInv, NoLateTimeout, Other, Parting
  <2>3. QED
    BY <2>1, <2>2, Zenon DEF Ends
<1>9. ASSUME Tracked
      PROVE  Account(e)' /\ Account(d)'
  <2>1. Account(e) /\ Account(d)
    BY <1>9, Zenon DEF IInv
  <2>2. ASSUME r = "ok"
        PROVE  AllRead(e)' /\ AllGot(e)'
    <3>1. AllRead(e) /\ AllGot(e) /\ UNCHANGED <<held, eaten, replies>>
      BY <1>9, <2>2, Zenon DEF Parting
    <3>2. flow'[e].chunks = flow[e].chunks /\ flow[e].chunks = 0
      BY <1>4, <3>1, Zenon DEF AllGot
    <3>3. Carried(e)' = Carried(e) /\ Written(d)' = Written(d)
      BY <3>1, <3>2, Zenon DEF Carried, Written, Parting
    <3>4. QED
      BY <1>1, <1>4, <3>1, <3>2, <3>3, Zenon DEF AllRead, AllGot, Parting
  <2>3. Account(e)'
    BY <1>3, <2>2, Zenon DEF Account, Balance, Intact, Reports, Delayed, Success
  <2>4. Carried(d)' = flow'[d].chunks + (Carried(d) - flow[d].chunks)
    <3>1. /\ flow[d].chunks \in Nat /\ got[d] \in Nat /\ held \in Nat /\ eaten \in Nat
      BY <1>2, Numbers, Zenon
    <3>2. flow'[d].chunks \in Nat
      BY <1>5 DEF Types, Flows
    <3>3. got'[d] = got[d] /\ (d = "server" => held' = held /\ eaten' = eaten)
      BY <1>1, Zenon DEF Ends, Parting
    <3>4. QED
      BY <3>1, <3>2, <3>3 DEF Carried
  <2>5. Balance(d)'
    <3>1. Carried(d) \in Nat /\ Written(e) \in Nat /\ flow[d].chunks \in Nat
      <4>1. /\ flow[d].chunks \in Nat /\ got[d] \in Nat /\ held \in Nat /\ eaten \in Nat
            /\ replies \in Nat /\ input[e].read \in Nat
        BY <1>2, Numbers, Zenon
      <4>2. QED
        BY <4>1 DEF Carried, Written
    <3>2. Intact(d)
      BY <1>1, Zenon DEF Intact, Parting
    <3>3. QED
      BY <1>1, <1>3, <1>9, <2>1, <2>4, <3>1, <3>2 DEF Account, Balance, Parting
  <2>6. CASE AllGot(d)
    <3>1. flow[d].eof /\ flow[d].chunks = 0
      BY <2>6, Zenon DEF AllGot
    <3>2. f[d].chunks = flow[d].chunks /\ Written(e)' = Written(e)
      BY <1>1, <1>9, <3>1, Zenon DEF Parting
    <3>3. flow'[d].chunks = 0
      BY <1>3, <3>1, <3>2, Zenon
    <3>4. Carried(d)' = Carried(d)
      <4>1. Carried(d) \in Nat
        BY <1>2, Numbers DEF Carried
      <4>2. QED
        BY <2>4, <3>1, <3>3, <4>1
    <3>5. AllGot(d)'
      BY <1>1, <1>3, <1>9, <2>6, <3>2, <3>3, <3>4, Zenon DEF AllGot, Ends, Parting
    <3>6. QED
      BY <1>3, <2>1, <2>3, <2>5, <3>5, ZenonT(40)
         DEF Account, Reports, Delayed, Success, AllRead, Clean, Parting
  <2>7. CASE ~AllGot(d)
    BY <1>3, <2>1, <2>3, <2>5, <2>7, ZenonT(40)
       DEF Account, Reports, Delayed, Success, AllRead, Clean, Parting
  <2>8. QED
    BY <2>6, <2>7, Zenon
<1>10. QED
  BY <1>1, <1>5, <1>6, <1>7, <1>8, <1>9, Zenon DEF IInv, Parting, Tracked


LEMMA CancelStep ==
    ASSUME IInv, NEW e \in Ends, Cancel(e)
    PROVE  IInv'
<1>1. Types /\ ctx' \in [Ends -> BOOLEAN]
  BY Zenon DEF IInv, Types, Cancel
<1>2. UNCHANGED <<kind, lossy, pc, ret, completed, input, inp, out, errorsCh, flow, reset, closed,
                  got, held, eaten, replies, timer, faults>>
  BY Zenon DEF Cancel, fixed, sessionVars, copyVars, streamVars, socksVars
<1>3. Types' /\ NoLateTimeout'
  BY <1>1, <1>2, Zenon DEF IInv, Types, NoLateTimeout
<1>4. \A x \in Ends : Stage(x) /\ Silent(x) => Stage(x)' /\ Silent(x)'
  BY <1>2, Zenon DEF Stage, Silent
<1>5. \A x \in Ends : Account(x) => Account(x)'
  BY <1>2, Unmoved, Zenon DEF Resting, Unread
<1>6. QED
  BY <1>2, <1>3, <1>4, <1>5, Zenon DEF IInv, Tracked

\* A failed copy reports its error: this end will not report success.  The end of
\* the stream, where it is sent at all, is news to the other end.
LEMMA CopyInFailsStep ==
    ASSUME IInv, NEW e \in Ends, CopyInFails(e)
    PROVE  IInv'
<1>1. PICK d \in Ends : /\ d = Other(e) /\ d # e /\ Other(d) = e
                        /\ \A x \in Ends : x = e \/ x = d
  BY TwoEnds, Zenon
<1>2. Types /\ Stage(e) /\ Stage(d) /\ Silent(e) /\ Silent(d)
  BY Zenon DEF IInv
<1>3. /\ errorsCh' \in [Ends -> Seq({"nil", "err"})] /\ errorsCh'[d] = errorsCh[d]
      /\ Len(errorsCh'[e]) = Len(errorsCh[e]) + 1 /\ ~Clean(e)'
  BY <1>1, <1>2, ReportAt, Zenon DEF CopyInFails
<1>4. /\ flow' \in Flows /\ flow'[e] = flow[e] /\ flow'[d].chunks = flow[d].chunks
  BY <1>1, <1>2, HalfClosedAt, Zenon DEF CopyInFails, Types
<1>5. /\ inp' \in [Ends -> {"off", "run", "delay", "done"}] /\ inp'[e] = "done" /\ inp'[d] = inp[d]
      /\ inp[e] = "run"
  BY <1>1, <1>2, Zenon DEF CopyInFails, Types
<1>6. faults' \in Nat
  BY <1>2 DEF CopyInFails, Types
<1>7. UNCHANGED <<kind, lossy, ctx, pc, ret, completed, input, out, reset, closed, got,
                  held, eaten, replies, timer>>
  BY Zenon DEF CopyInFails, fixed, sessionVars, socksVars
<1>8. Types' /\ NoLateTimeout'
  BY <1>2, <1>3, <1>4, <1>5, <1>6, <1>7, Zenon DEF IInv, Types, NoLateTimeout
<1>9. Stage(e)' /\ Stage(d)'
  <2>1. Stage(e)'
    BY <1>2, <1>5, <1>7, Zenon DEF Stage
  <2>2. Stage(d)'
    BY <1>2, <1>3, <1>5, <1>7, Zenon DEF Stage
  <2>3. QED
    BY <2>1, <2>2, Zenon
<1>10. Silent(e)' /\ Silent(d)'
  BY <1>1, <1>2, <1>4, <1>5, Zenon DEF Silent
<1>11. ASSUME Tracked
       PROVE  Account(e)' /\ Account(d)'
  <2>1. Account(e) /\ Account(d) /\ ret[e] = "none"
    BY <1>2, <1>5, <1>11, Zenon DEF IInv, Stage, Types
  <2>2. /\ Carried(e)' = Carried(e) /\ Written(d)' = Written(d)
        /\ Carried(d)' = Carried(d) /\ Written(e)' = Written(e)
    BY <1>4, <1>7, Zenon DEF Carried, Written
  <2>3. pc[e] = "bridge" =>
            completed'[e] + Len(errorsCh'[e]) = Reported(inp'[e]) + Reported(out'[e])
    <3>1. completed[e] \in Nat /\ Len(errorsCh[e]) \in Nat
      BY <1>2, Numbers, Zenon
    <3>2. QED
      BY <1>3, <1>5, <1>7, <2>1, <3>1 DEF Account, Reports, Reported
  <2>4. Account(e)'
    BY <1>1, <1>3, <1>4, <1>5, <1>7, <2>1, <2>2, <2>3, Zenon
       DEF Account, Balance, Intact, Reports, Delayed, Success
  <2>5. ~AllGot(d)
    BY <1>1, <1>2, <1>5, Zenon DEF AllGot, Silent
  <2>6. Account(d)'
    <3>1. Balance(d)'
      BY <1>1, <1>2, <1>5, <1>7, <2>1, <2>2, Zenon DEF Account, Balance, Intact, Stage
    <3>2. QED
      BY <1>3, <1>5, <1>7, <2>1, <2>5, <3>1, Unaware, Zenon DEF Resting
  <2>7. QED
    BY <2>4, <2>6, Zenon
<1>12. QED
  BY <1>1, <1>7, <1>8, <1>9, <1>10, <1>11, Zenon DEF IInv, Tracked

LEMMA InputEndsStep ==
    ASSUME IInv, NEW e \in Ends, InputEnds(e)
    PROVE  IInv'
<1>1. PICK d \in Ends : /\ d = Other(e) /\ d # e /\ Other(d) = e
                        /\ \A x \in Ends : x = e \/ x = d
  BY TwoEnds, Zenon
<1>2. Types /\ Stage(e) /\ Stage(d) /\ Silent(e) /\ Silent(d)
  BY Zenon DEF IInv
<1>3. /\ inp' \in [Ends -> {"off", "run", "delay", "done"}] /\ inp'[d] = inp[d]
      /\ inp'[e] = (IF Child(e) THEN "done" ELSE "delay") /\ inp[e] = "run" /\ AllRead(e)
  BY <1>1, <1>2, Zenon DEF InputEnds, Types, AllRead
<1>4. UNCHANGED <<kind, lossy, ctx, pc, ret, completed, input, out, errorsCh, flow, reset, closed,
                  got, held, eaten, replies, timer, faults>>
  BY Zenon DEF InputEnds, fixed, sessionVars, streamVars, socksVars
<1>5. Types' /\ NoLateTimeout'
  BY <1>2, <1>3, <1>4, Zenon DEF IInv, Types, NoLateTimeout
<1>6. Stage(e)' /\ Stage(d)'
  <2>1. Stage(e)'
    BY <1>2, <1>3, <1>4, Zenon DEF Stage
  <2>2. Stage(d)'
    BY <1>2, <1>3, <1>4, Zenon DEF Stage
  <2>3. QED
    BY <2>1, <2>2, Zenon
<1>7. Silent(e)' /\ Silent(d)'
  BY <1>1, <1>2, <1>3, <1>4, Zenon DEF Silent
<1>8. ASSUME Tracked
      PROVE  Account(e)' /\ Account(d)'
  <2>1. Account(e) /\ Account(d) /\ ret[e] = "none" /\ inp'[e] = "delay"
    BY <1>2, <1>3, <1>8, Zenon DEF IInv, Stage, Types, Child, Tracked
  <2>2. Account(d)'
    BY <1>1, <1>3, <1>4, <2>1, Unmoved, Zenon DEF Resting, Unread
  <2>3. Carried(e)' = Carried(e) /\ Written(d)' = Written(d)
    BY <1>4, Zenon DEF Carried, Written
  <2>4. Reported(inp'[e]) = Reported(inp[e])
    BY <1>3, <2>1, Zenon DEF Reported
  <2>5. Account(e)'
    BY <1>1, <1>3, <1>4, <2>1, <2>3, <2>4, Zenon
       DEF Account, Balance, Intact, Reports, Delayed, Success, AllRead, AllGot, Clean
  <2>6. QED
    BY <2>2, <2>5, Zenon
<1>9. QED
  BY <1>1, <1>4, <1>5, <1>6, <1>7, <1>8, Zenon DEF IInv, Tracked

LEMMA CloseWriteStep ==
    ASSUME IInv, NEW e \in Ends, CloseWrite(e)
    PROVE  IInv'
<1>1. PICK d \in Ends : /\ d = Other(e) /\ d # e /\ Other(d) = e
                        /\ \A x \in Ends : x = e \/ x = d
  BY TwoEnds, Zenon
<1>2. Types /\ Stage(e) /\ Stage(d) /\ Silent(e) /\ Silent(d)
  BY Zenon DEF IInv
<1>3. PICK v \in {"nil", "err"} : Report(e, v)
  BY Zenon DEF CloseWrite
<1>4. /\ errorsCh' \in [Ends -> Seq({"nil", "err"})] /\ errorsCh'[d] = errorsCh[d]
      /\ Len(errorsCh'[e]) = Len(errorsCh[e]) + 1 /\ (Clean(e)' => Clean(e))
  BY <1>1, <1>2, <1>3, ReportAt, Zenon
<1>5. /\ flow' \in Flows /\ flow'[e] = flow[e] /\ flow'[d].chunks = flow[d].chunks
  BY <1>1, <1>2, HalfClosedAt, Zenon DEF CloseWrite, Types
<1>6. /\ inp' \in [Ends -> {"off", "run", "delay", "done"}] /\ inp'[e] = "done" /\ inp'[d] = inp[d]
      /\ inp[e] = "delay"
  BY <1>1, <1>2, Zenon DEF CloseWrite, Types
<1>7. UNCHANGED <<kind, lossy, ctx, pc, ret, completed, input, out, reset, closed, got,
                  held, eaten, replies, timer, faults>>
  BY Zenon DEF CloseWrite, fixed, sessionVars, socksVars
<1>8. Types' /\ NoLateTimeout'
  BY <1>2, <1>4, <1>5, <1>6, <1>7, Zenon DEF IInv, Types, NoLateTimeout
<1>9. Stage(e)' /\ Stage(d)'
  <2>1. Stage(e)'
    BY <1>2, <1>6, <1>7, Zenon DEF Stage
  <2>2. Stage(d)'
    BY <1>2, <1>4, <1>6, <1>7, Zenon DEF Stage
  <2>3. QED
    BY <2>1, <2>2, Zenon
<1>10. Silent(e)' /\ Silent(d)'
  BY <1>1, <1>2, <1>5, <1>6, Zenon DEF Silent
<1>11. ASSUME Tracked
       PROVE  Account(e)' /\ Account(d)'
  <2>1. Account(e) /\ Account(d) /\ ret[e] = "none" /\ AllRead(e)
    BY <1>2, <1>6, <1>11, Zenon DEF IInv, Stage, Types, Account, Delayed
  <2>2. /\ Carried(e)' = Carried(e) /\ Written(d)' = Written(d)
        /\ Carried(d)' = Carried(d) /\ Written(e)' = Written(e)
    BY <1>5, <1>7, Zenon DEF Carried, Written
  <2>3. pc[e] = "bridge" =>
            completed'[e] + Len(errorsCh'[e]) = Reported(inp'[e]) + Reported(out'[e])
    <3>1. completed[e] \in Nat /\ Len(errorsCh[e]) \in Nat
      BY <1>2, Numbers, Zenon
    <3>2. QED
      BY <1>4, <1>6, <1>7, <2>1, <3>1 DEF Account, Reports, Reported
  <2>4. Account(e)'
    BY <1>1, <1>4, <1>5, <1>6, <1>7, <2>1, <2>2, <2>3, Zenon
       DEF Account, Balance, Intact, Reports, Delayed, Success, AllRead, AllGot
  <2>5. ~AllGot(d)
    BY <1>1, <1>2, <1>6, Zenon DEF AllGot, Silent
  <2>6. Account(d)'
    <3>1. Balance(d)'
      BY <1>1, <1>2, <1>6, <1>7, <2>1, <2>2, Zenon DEF Account, Balance, Intact, Stage
    <3>2. QED
      BY <1>4, <1>6, <1>7, <2>1, <2>5, <3>1, Unaware, Zenon DEF Resting
  <2>7. QED
    BY <2>4, <2>6, Zenon
<1>12. QED
  BY <1>1, <1>7, <1>8, <1>9, <1>10, <1>11, Zenon DEF IInv, Tracked


\* A chunk that leaves the stream, or the buffer in front of it, is a chunk handed
\* to the output.
LEMMA CopyOutStep ==
    ASSUME IInv, NEW e \in Ends, CopyOut(e)
    PROVE  IInv'
<1>1. PICK d \in Ends : /\ d = Other(e) /\ d # e /\ Other(d) = e
                        /\ \A x \in Ends : x = e \/ x = d
  BY TwoEnds, Zenon
<1>2. Types /\ Stage(e) /\ Stage(d) /\ Silent(e) /\ Silent(d)
  BY Zenon DEF IInv
<1>3. got' \in [Ends -> Nat] /\ got'[e] = got[e] + 1 /\ got'[d] = got[d]
  <2>1. got \in [Ends -> Nat] /\ got' = [got EXCEPT ![e] = @ + 1]
    BY <1>2, Zenon DEF Types, CopyOut
  <2>2. QED
    BY <1>1, <2>1
<1>4. /\ flow' \in Flows /\ flow'[d] = flow[d] /\ flow'[e].eof = flow[e].eof /\ held' \in Nat
      /\ \/ flow'[e] = flow[e] /\ e = "server" /\ held > 0 /\ held' = held - 1
         \/ flow[e].chunks > 0 /\ flow'[e].chunks = flow[e].chunks - 1 /\ held' = held
  <2>1. flow \in Flows /\ held \in Nat
    BY <1>2, Zenon DEF Types
  <2>2. CASE Held(e) > 0
    <3>1. flow' = flow /\ held' = held - 1
      BY <2>2, Zenon DEF CopyOut
    <3>2. e = "server" /\ held > 0
      BY <2>2 DEF Held
    <3>3. QED
      BY <2>1, <3>1, <3>2
  <2>3. CASE ~(Held(e) > 0)
    <3>1. flow' = [flow EXCEPT ![e].chunks = @ - 1] /\ held' = held /\ flow[e].chunks > 0
      BY <2>3, Zenon DEF CopyOut
    <3>2. QED
      BY <1>1, <2>1, <3>1 DEF Flows
  <2>4. QED
    BY <2>2, <2>3, Zenon
<1>5. UNCHANGED <<kind, lossy, ctx, pc, ret, completed, input, inp, out, errorsCh, reset, closed,
                  eaten, replies, timer, faults>>
  BY Zenon DEF CopyOut, fixed, sessionVars, copyVars
<1>6. Types' /\ NoLateTimeout'
  BY <1>2, <1>3, <1>4, <1>5, Zenon DEF IInv, Types, NoLateTimeout
<1>7. Stage(e)' /\ Stage(d)' /\ Silent(e)' /\ Silent(d)'
  BY <1>1, <1>2, <1>4, <1>5, Zenon DEF Stage, Silent
<1>8. ASSUME Tracked
      PROVE  Account(e)' /\ Account(d)'
  <2>1. Account(e) /\ Account(d) /\ out[e] = "run" /\ ret[e] = "none"
    BY <1>2, <1>8, Zenon DEF IInv, Stage, Types, CopyOut
  <2>2. d = "server" => held' = held
    BY <1>1, <1>4, Zenon
  <2>3. Account(d)'
    BY <1>1, <1>3, <1>4, <1>5, <2>1, <2>2, Unmoved, Zenon DEF Resting, Unread
  <2>4. Carried(e)' = Carried(e) /\ Written(d)' = Written(d)
    <3>1. flow[e].chunks \in Nat /\ got[e] \in Nat /\ held \in Nat /\ eaten \in Nat
      BY <1>2, Numbers, Zenon
    <3>2. Carried(e)' = Carried(e)
      BY <1>3, <1>4, <1>5, <3>1 DEF Carried
    <3>3. QED
      BY <1>5, <3>2, Zenon DEF Written
  <2>5. Account(e)'
    BY <1>1, <1>4, <1>5, <2>1, <2>4, Zenon
       DEF Account, Balance, Intact, Reports, Delayed, Success, AllRead, Clean
  <2>6. QED
    BY <2>3, <2>5, Zenon
<1>9. QED
  BY <1>1, <1>5, <1>6, <1>7, <1>8, Zenon DEF IInv, Tracked

\* The copier of the output reports no error only when the stream ended with
\* nothing left in it.
LEMMA OutputStep ==
    ASSUME IInv, NEW e \in Ends, StreamEnds(e) \/ OutputNotShut(e) \/ OutputFails(e), kind # "exec"
    PROVE  IInv'
<1>1. PICK d \in Ends : /\ d = Other(e) /\ d # e /\ Other(d) = e
                        /\ \A x \in Ends : x = e \/ x = d
  BY TwoEnds, Zenon
<1>2. Types /\ Stage(e) /\ Stage(d) /\ Silent(e) /\ Silent(d)
  BY Zenon DEF IInv
<1>3. PICK v \in {"nil", "err"} : Report(e, v) /\ (v = "nil" /\ Tracked => AllGot(e))
  <2>1. CASE OutputFails(e) \/ OutputNotShut(e)
    BY <2>1, Zenon DEF OutputFails, OutputNotShut
  <2>2. CASE StreamEnds(e) /\ Broken(e)
    BY <2>2, Zenon DEF StreamEnds, Child
  <2>3. CASE StreamEnds(e) /\ ~Broken(e)
    <3>1. Report(e, "nil") /\ flow[e].chunks = 0 /\ flow[e].eof /\ Held(e) = 0
      BY <2>3, Zenon DEF StreamEnds, Child
    <3>2. Tracked => AllGot(e)
      BY <1>1, <2>3, <3>1, Zenon DEF IInv, AllGot, Account, Balance, Intact, Broken, Held
    <3>3. QED
      BY <3>1, <3>2, Zenon
  <2>4. QED
    BY <2>1, <2>2, <2>3, Zenon
<1>4. /\ errorsCh' \in [Ends -> Seq({"nil", "err"})] /\ errorsCh'[d] = errorsCh[d]
      /\ Len(errorsCh'[e]) = Len(errorsCh[e]) + 1 /\ (Clean(e)' => Clean(e) /\ (Tracked => AllGot(e)))
  BY <1>1, <1>2, <1>3, ReportAt, Zenon
<1>5. /\ out' \in [Ends -> {"off", "run", "done"}] /\ out'[e] = "done" /\ out'[d] = out[d]
      /\ out[e] = "run"
  BY <1>1, <1>2, Zenon DEF StreamEnds, OutputNotShut, OutputFails, Refusable, Types
<1>6. faults' \in Nat
  BY <1>2 DEF StreamEnds, OutputNotShut, OutputFails, Types
<1>7. UNCHANGED <<kind, lossy, ctx, pc, ret, completed, input, inp, flow, reset, closed, got,
                  held, eaten, replies, timer>>
  BY Zenon DEF StreamEnds, OutputNotShut, OutputFails, fixed, sessionVars, streamVars, socksVars
<1>8. Types' /\ NoLateTimeout'
  BY <1>2, <1>4, <1>5, <1>6, <1>7, Zenon DEF IInv, Types, NoLateTimeout
<1>9. Stage(e)' /\ Stage(d)'
  <2>1. Stage(e)'
    BY <1>2, <1>5, <1>7, Zenon DEF Stage
  <2>2. Stage(d)'
    BY <1>2, <1>4, <1>5, <1>7, Zenon DEF Stage
  <2>3. QED
    BY <2>1, <2>2, Zenon
<1>10. Silent(e)' /\ Silent(d)'
  BY <1>2, <1>7, Zenon DEF Silent
<1>11. ASSUME Tracked
       PROVE  Account(e)' /\ Account(d)'
  <2>1. Account(e) /\ Account(d)
    BY <1>11, Zenon DEF IInv
  <2>2. Account(d)'
    BY <1>1, <1>4, <1>5, <1>7, <2>1, Unmoved, Zenon DEF Resting, Unread
  <2>3. Carried(e)' = Carried(e) /\ Written(d)' = Written(d) /\ ret[e] = "none"
    BY <1>2, <1>5, <1>7, Zenon DEF Carried, Written, Stage, Types
  <2>4. pc[e] = "bridge" =>
            completed'[e] + Len(errorsCh'[e]) = Reported(inp'[e]) + Reported(out'[e])
    <3>1. completed[e] \in Nat /\ Len(errorsCh[e]) \in Nat
      BY <1>2, Numbers, Zenon
    <3>2. QED
      BY <1>4, <1>5, <1>7, <2>1, <3>1 DEF Account, Reports, Reported
  <2>5. Account(e)'
    BY <1>1, <1>4, <1>5, <1>7, <1>11, <2>1, <2>3, <2>4, Zenon
       DEF Account, Balance, Intact, Reports, Delayed, Success, AllRead, AllGot
  <2>6. QED
    BY <2>2, <2>5, Zenon
<1>12. QED
  BY <1>1, <1>7, <1>8, <1>9, <1>10, <1>11, Zenon DEF IInv, Tracked


\* Steps of Exec only: its streams are not accounted for.
LEMMA ExecCopyStep ==
    ASSUME IInv, NEW e \in Ends, kind = "exec",
           CopyInDropped(e) \/ PipeShut(e) \/ StdinRefused(e) \/ StreamEnds(e)
    PROVE  IInv'
<1>1. PICK d \in Ends : /\ d = Other(e) /\ d # e /\ Other(d) = e
                        /\ \A x \in Ends : x = e \/ x = d
  BY TwoEnds, Zenon
<1>2. Types /\ Stage(e) /\ Stage(d) /\ Silent(e) /\ Silent(d)
  BY Zenon DEF IInv
<1>3. /\ input' \in Inputs /\ input'[d] = input[d] /\ input'[e].shut = input[e].shut
  <2>1. input \in Inputs
    BY <1>2, Zenon DEF Types
  <2>2. CASE input' = [input EXCEPT ![e].read = @ + 1]
    BY <1>1, <2>1, <2>2 DEF Inputs
  <2>3. CASE input' = input
    BY <2>1, <2>3, Zenon
  <2>4. QED
    BY <2>2, <2>3, Zenon DEF CopyInDropped, PipeShut, StdinRefused, StreamEnds
<1>4. /\ inp' \in [Ends -> {"off", "run", "delay", "done"}] /\ inp'[d] = inp[d]
      /\ out' \in [Ends -> {"off", "run", "done"}] /\ out'[d] = out[d]
      /\ inp[e] = "run" \/ out[e] = "run"
      /\ inp'[e] \in {inp[e], "done"} /\ out'[e] \in {out[e], "done"}
  BY <1>1, <1>2, ZenonT(30) DEF CopyInDropped, PipeShut, StdinRefused, StreamEnds, Refusable, Types
<1>5. /\ errorsCh' \in [Ends -> Seq({"nil", "err"})] /\ errorsCh'[d] = errorsCh[d]
  <2>1. CASE errorsCh' = errorsCh
    BY <1>2, <2>1, Zenon DEF Types
  <2>2. CASE \E v \in {"nil", "err"} : Report(e, v)
    BY <1>1, <1>2, <2>2, ReportAt, Zenon
  <2>3. QED
    BY <2>1, <2>2, Zenon DEF CopyInDropped, PipeShut, StdinRefused, StreamEnds
<1>6. UNCHANGED <<kind, lossy, ctx, pc, ret, completed, flow, reset, closed, got,
                  held, eaten, replies, timer, faults>>
  BY Zenon DEF CopyInDropped, PipeShut, StdinRefused, StreamEnds, fixed, sessionVars, streamVars, socksVars
<1>7. Types'
  BY <1>2, <1>3, <1>4, <1>5, <1>6, Zenon DEF Types
<1>8. Stage(d)'
  BY <1>2, <1>3, <1>4, <1>5, <1>6, Zenon DEF Stage
<1>9. Stage(e)'
  BY <1>2, <1>3, <1>4, <1>6, Zenon DEF Stage
<1>10. Silent(e)' /\ Silent(d)'
  BY <1>1, <1>2, <1>4, <1>6, Zenon DEF Silent
<1>11. QED
  BY <1>1, <1>6, <1>7, <1>8, <1>9, <1>10, Zenon DEF IInv, Tracked, NoLateTimeout

LEMMA ChildStep ==
    ASSUME IInv, ChildStarts \/ ChildWait \/ ChildKilled
    PROVE  IInv'
<1>1. PICK e \in Ends : e = "server"
  BY Zenon DEF Ends
<1>2. PICK d \in Ends : /\ d = Other(e) /\ d # e /\ Other(d) = e
                        /\ \A x \in Ends : x = e \/ x = d
  BY TwoEnds, Zenon
<1>3. Types /\ Stage(e) /\ Stage(d) /\ Silent(e) /\ Silent(d)
  BY Zenon DEF IInv
<1>4. kind = "exec" /\ pc[e] \in {"start", "child"}
  BY <1>1, <1>3, Zenon DEF Stage, ChildStarts, ChildWait, ChildKilled
<1>5. /\ input' \in Inputs /\ input'[d] = input[d]
  <2>1. input \in Inputs
    BY <1>3, Zenon DEF Types
  <2>2. CASE input' = [input EXCEPT ![e].ended = TRUE]
    BY <1>2, <2>1, <2>2, Zenon DEF Inputs
  <2>3. CASE input' = [input EXCEPT ![e].shut = TRUE]
    BY <1>2, <2>1, <2>3, Zenon DEF Inputs
  <2>4. CASE input' = input
    BY <2>1, <2>4, Zenon
  <2>5. QED
    BY <1>1, <2>2, <2>3, <2>4, Zenon DEF ChildStarts, ChildWait, ChildKilled
<1>6. /\ pc' \in [Ends -> {"dial", "greet", "request", "connect", "start", "child", "drain",
                           "bridge", "closed"}]
      /\ inp' \in [Ends -> {"off", "run", "delay", "done"}]
      /\ out' \in [Ends -> {"off", "run", "done"}]
      /\ pc'[d] = pc[d] /\ inp'[d] = inp[d] /\ out'[d] = out[d]
      /\ pc'[e] \in {"child", "drain"} /\ (inp'[e] = inp[e] \/ inp[e] = "off")
  <2>1. CASE ChildStarts
    BY <1>1, <1>2, <1>3, <2>1, Zenon DEF ChildStarts, Types, Stage
  <2>2. CASE ChildWait
    BY <1>1, <1>2, <1>3, <2>2, Zenon DEF ChildWait, Types
  <2>3. CASE ChildKilled
    BY <1>1, <1>2, <1>3, <2>3, Zenon DEF ChildKilled, Types, sessionVars
  <2>4. QED
    BY <2>1, <2>2, <2>3, Zenon
<1>7. UNCHANGED <<kind, lossy, ctx, ret, completed, errorsCh, flow, reset, closed, got,
                  held, eaten, replies, timer, faults>>
  BY Zenon DEF ChildStarts, ChildWait, ChildKilled, fixed, sessionVars, streamVars, socksVars
<1>8. Types'
  BY <1>3, <1>5, <1>6, <1>7, Zenon DEF Types
<1>9. Stage(d)'
  BY <1>3, <1>5, <1>6, <1>7, Zenon DEF Stage
<1>10. Stage(e)'
  BY <1>3, <1>4, <1>6, <1>7, Zenon DEF Stage
<1>11. Silent(e)' /\ Silent(d)'
  BY <1>2, <1>3, <1>6, <1>7, Zenon DEF Silent
<1>12. QED
  BY <1>2, <1>4, <1>7, <1>8, <1>9, <1>10, <1>11, Zenon DEF IInv, Tracked, NoLateTimeout

LEMMA InterruptStep ==
    ASSUME IInv, NEW e \in Ends, Interrupt(e)
    PROVE  IInv'
<1>1. Leave(e, "err", flow, TRUE) /\ flow \in Flows /\ Types /\ ~closed[e]
  BY Zenon DEF Interrupt, IInv, Types, Stage
<1>2. UNCHANGED <<kind, lossy, ctx, completed, input, got, held, eaten, replies, timer, faults>>
  BY Zenon DEF Interrupt, fixed, socksVars
<1>3. Written(e)' = Written(e)
  BY <1>2, Zenon DEF Written
<1>4. Parting(e, "err", flow)
  BY <1>1, <1>2, <1>3, Zenon DEF Parting, Types
<1>5. QED
  BY <1>1, <1>4, LeaveStep, Zenon

\* Two reports, neither an error: both copiers have finished.
LEMMA CollectStep ==
    ASSUME IInv, NEW e \in Ends, Collect(e)
    PROVE  IInv'
<1>1. PICK d \in Ends : /\ d = Other(e) /\ d # e /\ Other(d) = e
                        /\ \A x \in Ends : x = e \/ x = d
  BY TwoEnds, Zenon
<1>2. /\ Types /\ Stage(e) /\ Stage(d) /\ Silent(e) /\ Silent(d)
      /\ flow \in Flows /\ reset \in BOOLEAN /\ ~closed[e]
  BY Zenon DEF IInv, Types, Stage, Collect
<1>3. UNCHANGED <<kind, lossy, ctx, input, got, held, eaten, replies, timer, faults>>
  BY Zenon DEF Collect, fixed, socksVars
<1>4. Written(e)' = Written(e)
  BY <1>3, Zenon DEF Written
<1>5. PICK s \in Seq({"nil", "err"}) : s = errorsCh[e] /\ s # <<>>
  BY <1>2, Zenon DEF Collect, Types
<1>6. /\ Tail(s) \in Seq({"nil", "err"}) /\ Len(s) \in Nat /\ Len(s) > 0 /\ Head(s) = s[1]
      /\ Len(Tail(s)) = Len(s) - 1 /\ \A i \in 1 .. Len(s) - 1 : Tail(s)[i] = s[i + 1]
  BY <1>5
<1>7. CASE Head(s) = "err"
  <2>1. PICK rst \in BOOLEAN : Leave(e, "err", flow, rst) /\ (reset => rst)
                               /\ completed' = completed
    BY <1>2, <1>5, <1>7, Zenon DEF Collect
  <2>2. Parting(e, "err", flow)
    BY <1>2, <1>3, <1>4, <2>1, Zenon DEF Parting, Types
  <2>3. QED
    BY <1>2, <2>1, <2>2, LeaveStep, Zenon
<1>8. CASE Head(s) = "nil" /\ completed[e] = 1
  <2>1. Leave(e, "ok", flow, reset) /\ completed' = completed /\ pc[e] = "bridge"
    <3>1. completed[e] # 0
      BY <1>8
    <3>2. QED
      BY <1>5, <1>8, <3>1, Zenon DEF Collect
  <2>2. ASSUME Tracked
        PROVE  AllRead(e) /\ AllGot(e)
    <3>1. /\ Account(e)
          /\ completed[e] + Len(s) = Reported(inp[e]) + Reported(out[e])
      BY <1>5, <2>1, <2>2, Zenon DEF IInv, Account, Reports
    <3>2. Len(s) = 1 /\ inp[e] = "done" /\ out[e] = "done"
      BY <1>6, <1>8, <3>1 DEF Reported
    <3>3. Clean(e)
      BY <1>5, <1>6, <1>8, <3>2 DEF Clean
    <3>4. QED
      BY <2>1, <3>1, <3>2, <3>3, Zenon DEF Account, Reports
  <2>3. Parting(e, "ok", flow)
    BY <1>2, <1>3, <1>4, <2>1, <2>2, Zenon DEF Parting, Types
  <2>4. QED
    BY <1>2, <2>1, <2>3, LeaveStep, Zenon
<1>9. CASE Head(s) = "nil" /\ completed[e] # 1
  <2>1. /\ completed[e] = 0 /\ completed' = [completed EXCEPT ![e] = 1] /\ pc[e] = "bridge"
        /\ errorsCh' = [errorsCh EXCEPT ![e] = Tail(s)]
        /\ UNCHANGED <<pc, ret, inp, out, flow, reset, closed>>
    BY <1>5, <1>9, Zenon DEF Collect
  <2>2. completed' \in [Ends -> Nat] /\ completed'[e] = 1 /\ completed'[d] = completed[d]
    <3>1. completed \in [Ends -> Nat]
      BY <1>2, Zenon DEF Types
    <3>2. QED
      BY <1>1, <2>1, <3>1
  <2>3. /\ errorsCh' \in [Ends -> Seq({"nil", "err"})] /\ errorsCh'[d] = errorsCh[d]
        /\ errorsCh'[e] = Tail(s)
    BY <1>1, <1>2, <1>6, <2>1, Zenon DEF Types
  <2>4. Types' /\ NoLateTimeout'
    BY <1>2, <1>3, <2>1, <2>2, <2>3, Zenon DEF IInv, Types, NoLateTimeout
  <2>5. Stage(d)'
    BY <1>2, <1>3, <2>1, <2>2, <2>3, Zenon DEF Stage
  <2>6. Stage(e)'
    BY <1>2, <1>3, <2>1, Zenon DEF Stage
  <2>7. Silent(e)' /\ Silent(d)'
    BY <1>2, <2>1, Zenon DEF Silent
  <2>8. ASSUME Tracked
        PROVE  Account(e)' /\ Account(d)'
    <3>1. Account(e) /\ Account(d) /\ ret[e] = "none"
      BY <1>2, <2>1, <2>8, Zenon DEF IInv, Stage, Types
    <3>2. Account(d)'
      BY <1>1, <1>3, <2>1, <2>2, <2>3, <3>1, Unmoved, Zenon DEF Resting, Unread
    <3>3. Carried(e)' = Carried(e) /\ Written(d)' = Written(d)
      BY <1>3, <2>1, Zenon DEF Carried, Written
    <3>4. completed'[e] + Len(errorsCh'[e]) = Reported(inp'[e]) + Reported(out'[e])
      <4>1. completed[e] + Len(s) = Reported(inp[e]) + Reported(out[e])
        BY <1>5, <2>1, <3>1, Zenon DEF Account, Reports
      <4>2. completed[e] + Len(s) = completed'[e] + Len(Tail(s))
        BY <1>6, <2>1, <2>2
      <4>3. QED
        BY <2>1, <2>3, <4>1, <4>2, Zenon
    <3>5. Clean(e)' => Clean(e)
      <4>1. \A i \in 1 .. Len(s) : i = 1 \/ (i - 1 \in 1 .. Len(Tail(s)) /\ Tail(s)[i - 1] = s[i])
        BY <1>6
      <4>2. QED
        BY <1>5, <1>6, <1>9, <2>3, <4>1, ZenonT(60) DEF Clean
    <3>6. Account(e)'
      BY <1>1, <1>3, <2>1, <3>1, <3>3, <3>4, <3>5, Zenon
         DEF Account, Balance, Intact, Reports, Delayed, Success, AllRead, AllGot
    <3>7. QED
      BY <3>2, <3>6, Zenon
  <2>9. QED
    BY <1>1, <1>3, <2>4, <2>5, <2>6, <2>7, <2>8, Zenon DEF IInv, Tracked
<1>10. QED
  <2>1. Head(s) \in {"nil", "err"}
    BY <1>5
  <2>2. QED
    BY <1>7, <1>8, <1>9, <2>1, Zenon


------------------------------------------------------------------------------
\* A session that gives up before it bridges has written at most one answer.
GivesUp(f) ==
    /\ Leave("server", "err", f, reset)
    /\ pc["server"] \in {"dial", "greet", "request", "connect", "start"}
    /\ UNCHANGED <<kind, lossy, ctx, completed, input, got, faults>>
    /\ held' \in Nat /\ eaten' \in Nat /\ timer' \in {"armed", "stopped", "fired"}

LEMMA GivesUpSilently ==
    ASSUME IInv, GivesUp(flow), replies' = replies
    PROVE  IInv'
<1>1. PICK e \in Ends : e = "server"
  BY Zenon DEF Ends
<1>2. Types /\ flow \in Flows /\ reset \in BOOLEAN /\ replies \in Nat /\ ~closed[e]
  BY <1>1, Zenon DEF IInv, Types, Stage, GivesUp
<1>3. Leave(e, "err", flow, reset)
  BY <1>1, Zenon DEF GivesUp
<1>4. Written(e)' = Written(e)
  BY Zenon DEF Written, GivesUp
<1>5. Parting(e, "err", flow)
  BY <1>1, <1>2, <1>4, Zenon DEF Parting, GivesUp
<1>6. QED
  BY <1>2, <1>3, <1>5, LeaveStep, Zenon

LEMMA GivesUpAnswering ==
    ASSUME IInv, GivesUp(Sent("server")), replies' = replies + 1
    PROVE  IInv'
<1>1. PICK e \in Ends : e = "server"
  BY Zenon DEF Ends
<1>2. PICK d \in Ends : d = Other(e) /\ d # e /\ Other(d) = e
  BY TwoEnds, Zenon
<1>3. Types /\ Stage(e) /\ Silent(d) /\ flow \in Flows /\ reset \in BOOLEAN /\ replies \in Nat
  BY Zenon DEF IInv, Types
<1>4. PICK f \in Flows : f = Sent(e)
  BY <1>3, SentAt, Zenon
<1>5. Leave(e, "err", f, reset)
  BY <1>1, <1>4, Zenon DEF GivesUp
<1>6. ~flow[d].eof /\ ~closed[e]
  BY <1>1, <1>2, <1>3, Zenon DEF Silent, Stage, GivesUp
<1>7. f[e] = flow[e] /\ (~closed[d] => f[d].chunks = flow[d].chunks + 1)
  BY <1>2, <1>3, <1>4, SentAt, Zenon
<1>8. Written(e)' = Written(e) + 1 /\ replies' \in Nat
  <2>1. input[e].read \in Nat /\ input' = input
    BY <1>3, Numbers, Zenon DEF GivesUp
  <2>2. QED
    BY <1>1, <1>3, <2>1 DEF Written
<1>9. Parting(e, "err", f)
  BY <1>1, <1>2, <1>6, <1>7, <1>8, Zenon DEF Parting, GivesUp
<1>10. QED
  BY <1>3, <1>5, <1>9, LeaveStep, Zenon

LEMMA ExecEndStep ==
    ASSUME IInv, ChildStartFails \/ ExecReturns
    PROVE  IInv'
<1>1. PICK e \in Ends : e = "server"
  BY Zenon DEF Ends
<1>2. Types /\ Stage(e) /\ flow \in Flows /\ reset \in BOOLEAN
  BY Zenon DEF IInv, Types
<1>3. PICK f \in Flows, r \in {"ok", "err"} : Leave(e, r, f, reset) /\ f[e] = flow[e]
  BY <1>1, <1>2, HalfClosedAt, Zenon DEF ChildStartFails, ExecReturns
<1>4. kind = "exec" /\ ~closed[e]
  BY <1>1, <1>2, Zenon DEF ChildStartFails, ExecReturns, Stage
<1>5. UNCHANGED <<kind, lossy, ctx, completed, input, got, held, eaten, replies, timer, faults>>
  BY Zenon DEF ChildStartFails, ExecReturns, fixed, socksVars
<1>6. Parting(e, r, f)
  BY <1>1, <1>2, <1>3, <1>4, <1>5, Zenon DEF Parting, Tracked, Types
<1>7. QED
  BY <1>2, <1>3, <1>6, LeaveStep, Zenon

\* The target is there: the copiers start, with nothing to report.
LEMMA BridgingStep ==
    ASSUME IInv, Bridging, pc["server"] \in {"dial", "connect"},
           UNCHANGED <<kind, lossy, ctx, completed, input, got, held, eaten, timer, faults>>,
           \/ pc["server"] = "dial" /\ UNCHANGED <<flow, replies>>
           \/ flow' = Sent("server") /\ replies' = replies + 1
    PROVE  IInv'
<1>1. PICK e \in Ends : e = "server"
  BY Zenon DEF Ends
<1>2. PICK d \in Ends : /\ d = Other(e) /\ d # e /\ Other(d) = e
                        /\ \A x \in Ends : x = e \/ x = d
  BY TwoEnds, Zenon
<1>3. Types /\ Stage(e) /\ Stage(d) /\ Silent(e) /\ Silent(d) /\ NoLateTimeout
  BY Zenon DEF IInv
<1>4. /\ pc' \in [Ends -> {"dial", "greet", "request", "connect", "start", "child", "drain",
                           "bridge", "closed"}]
      /\ inp' \in [Ends -> {"off", "run", "delay", "done"}]
      /\ out' \in [Ends -> {"off", "run", "done"}]
      /\ pc'[d] = pc[d] /\ inp'[d] = inp[d] /\ out'[d] = out[d]
      /\ pc'[e] = "bridge" /\ inp'[e] = "run" /\ out'[e] = "run"
      /\ UNCHANGED <<ret, errorsCh, reset, closed>>
  BY <1>1, <1>2, <1>3, Zenon DEF Bridging, Types
<1>5. /\ pc[e] # "closed" /\ inp[e] = "off" /\ errorsCh[e] = <<>> /\ completed[e] = 0
      /\ ret[e] = "none" /\ ~closed[e] /\ kind # "exec" /\ ~flow[d].eof
  BY <1>1, <1>2, <1>3, Zenon DEF Stage, Silent, Types
<1>6. /\ flow' \in Flows /\ flow'[e] = flow[e] /\ flow'[d].eof = flow[d].eof
      /\ \/ flow'[d] = flow[d] /\ replies' = replies
         \/ /\ replies' = replies + 1
            /\ ~closed[d] => flow'[d].chunks = flow[d].chunks + 1
  BY <1>1, <1>2, <1>3, SentAt, Zenon DEF Types
<1>7. replies' \in Nat
  BY <1>3, <1>6 DEF Types
<1>8. Types'
  BY <1>3, <1>4, <1>6, <1>7, Zenon DEF Types
<1>9. NoLateTimeout'
  <2>1. CASE pc[e] = "dial"
    BY <1>1, <1>3, <2>1, Zenon DEF Stage, NoLateTimeout
  <2>2. CASE pc[e] = "connect"
    BY <1>1, <1>3, <2>2, Zenon DEF NoLateTimeout
  <2>3. QED
    BY <1>1, <2>1, <2>2, Zenon
<1>10. Stage(d)'
  BY <1>3, <1>4, Zenon DEF Stage
<1>11. Stage(e)'
  BY <1>3, <1>4, <1>5, Zenon DEF Stage
<1>12. Silent(e)' /\ Silent(d)'
  BY <1>2, <1>3, <1>4, <1>5, <1>6, Zenon DEF Silent
<1>13. ASSUME Tracked
       PROVE  Account(e)' /\ Account(d)'
  <2>1. Account(e) /\ Account(d)
    BY <1>13, Zenon DEF IInv
  <2>2. Account(e)'
    <3>1. Carried(e)' = Carried(e) /\ Written(d)' = Written(d)
      BY <1>1, <1>2, <1>6, Zenon DEF Carried, Written
    <3>2. completed'[e] + Len(errorsCh'[e]) = Reported(inp'[e]) + Reported(out'[e])
      BY <1>4, <1>5 DEF Reported
    <3>3. QED
      BY <1>2, <1>4, <1>5, <1>6, <2>1, <3>1, <3>2, Zenon
         DEF Account, Balance, Intact, Reports, Delayed, Success
  <2>3. Balance(d)'
    <3>1. /\ flow[d].chunks \in Nat /\ got[d] \in Nat /\ held \in Nat /\ eaten \in Nat
          /\ replies \in Nat /\ input[e].read \in Nat
      BY <1>3, Numbers, Zenon
    <3>2. ~closed[d] => \/ Carried(d)' = Carried(d) /\ Written(e)' = Written(e)
                        \/ Carried(d)' = Carried(d) + 1 /\ Written(e)' = Written(e) + 1
      BY <1>1, <1>2, <1>6, <3>1 DEF Carried, Written
    <3>3. QED
      BY <1>2, <1>4, <1>5, <2>1, <3>2 DEF Account, Balance, Intact
  <2>4. ~AllGot(d)
    BY <1>5, Zenon DEF AllGot
  <2>5. Account(d)'
    BY <1>4, <2>1, <2>3, <2>4, Unaware, Zenon DEF Resting
  <2>6. QED
    BY <2>2, <2>5, Zenon
<1>14. QED
  BY <1>2, <1>8, <1>9, <1>10, <1>11, <1>12, <1>13, Zenon DEF IInv, Tracked

LEMMA ForwardDialsStep ==
    ASSUME IInv, ForwardDials
    PROVE  IInv'
<1>1. /\ pc["server"] = "dial" /\ Types
      /\ UNCHANGED <<kind, lossy, ctx, completed, input, got, held, eaten, replies, timer, faults>>
  BY Zenon DEF ForwardDials, fixed, socksVars, IInv
<1>2. CASE Bridging /\ UNCHANGED flow
  BY <1>1, <1>2, BridgingStep, Zenon
<1>3. CASE Leave("server", "err", flow, reset)
  <2>1. GivesUp(flow)
    BY <1>1, <1>3, Zenon DEF GivesUp, Types
  <2>2. QED
    BY <1>1, <2>1, GivesUpSilently, Zenon
<1>4. QED
  BY <1>2, <1>3, Zenon DEF ForwardDials

LEMMA SocksDialsStep ==
    ASSUME IInv, SocksDials
    PROVE  IInv'
<1>1. /\ pc["server"] = "connect" /\ Types
      /\ UNCHANGED <<kind, lossy, ctx, completed, input, got, held, eaten, timer, faults>>
  BY Zenon DEF SocksDials, fixed, IInv
<1>2. CASE Bridging /\ flow' = Sent("server") /\ replies' = replies + 1
  BY <1>1, <1>2, BridgingStep, Zenon
<1>3. CASE Leave("server", "err", Sent("server"), reset) /\ replies' = replies + 1
  <2>1. GivesUp(Sent("server"))
    BY <1>1, <1>3, Zenon DEF GivesUp, Types
  <2>2. QED
    BY <1>3, <2>1, GivesUpAnswering, Zenon
<1>4. CASE Leave("server", "err", flow, reset) /\ replies' = replies
  <2>1. GivesUp(flow)
    BY <1>1, <1>4, Zenon DEF GivesUp, Types
  <2>2. QED
    BY <1>4, <2>1, GivesUpSilently, Zenon
<1>5. QED
  BY <1>2, <1>3, <1>4, Zenon DEF SocksDials


\* A step of the negotiation: chunks move from the stream to the buffer and from
\* there to the requests that were understood; an answer may be written.
Negotiates ==
    /\ pc["server"] \in {"greet", "request"} /\ pc'["client"] = pc["client"]
    /\ pc' \in [Ends -> {"dial", "greet", "request", "connect", "start", "child", "drain",
                         "bridge", "closed"}]
    /\ \/ pc'["server"] \in {"greet", "request"} /\ timer' = timer
       \/ pc'["server"] = "connect" /\ timer' = "stopped"
    /\ UNCHANGED <<kind, lossy, ctx, ret, completed, input, inp, out, errorsCh, reset,
                   closed, got, faults>>
    /\ flow' \in Flows /\ held' \in Nat /\ eaten' \in Nat /\ replies' \in Nat
    /\ flow'["server"].chunks + held' + eaten' = flow["server"].chunks + held + eaten
    /\ \A x \in Ends : flow'[x].eof = flow[x].eof
    /\ \/ flow'["client"] = flow["client"] /\ replies' = replies
       \/ /\ replies' = replies + 1
          /\ ~closed["client"] => flow'["client"].chunks = flow["client"].chunks + 1

LEMMA NegotiatesStep ==
    ASSUME IInv, Negotiates
    PROVE  IInv'
<1>1. PICK e \in Ends, d \in Ends : /\ e = "server" /\ d = "client" /\ Other(e) = d /\ Other(d) = e
                                    /\ \A x \in Ends : x = e \/ x = d
  BY Zenon DEF Ends, Other
<1>2. Types /\ Stage(e) /\ Stage(d) /\ Silent(e) /\ Silent(d)
  BY Zenon DEF IInv
<1>3. UNCHANGED <<kind, lossy, ctx, ret, completed, input, inp, out, errorsCh, reset, closed, got, faults>>
  BY Zenon DEF Negotiates
<1>4. /\ pc[e] \in {"greet", "request"} /\ pc'[e] \in {"greet", "request", "connect"}
      /\ pc'[d] = pc[d] /\ flow'[e].eof = flow[e].eof /\ flow'[d].eof = flow[d].eof
  BY <1>1, Zenon DEF Negotiates
<1>5. /\ pc[e] # "closed" /\ inp[e] = "off" /\ ret[e] = "none" /\ kind = "socks" /\ ~flow[d].eof
  BY <1>1, <1>2, <1>4, Zenon DEF Stage, Silent, Types
<1>6. Types'
  <2>1. /\ pc' \in [Ends -> {"dial", "greet", "request", "connect", "start", "child", "drain",
                             "bridge", "closed"}]
        /\ timer' \in {timer, "stopped"}
        /\ flow' \in Flows /\ held' \in Nat /\ eaten' \in Nat /\ replies' \in Nat
    BY Zenon DEF Negotiates
  <2>2. QED
    BY <1>2, <1>3, <2>1, Zenon DEF Types
<1>7. NoLateTimeout'
  BY Zenon DEF Negotiates, NoLateTimeout
<1>8. Stage(d)'
  BY <1>2, <1>3, <1>4, Zenon DEF Stage
<1>9. Stage(e)'
  BY <1>2, <1>3, <1>4, <1>5, Zenon DEF Stage
<1>10. Silent(e)' /\ Silent(d)'
  BY <1>2, <1>3, <1>4, Zenon DEF Silent
<1>11. ASSUME Tracked
       PROVE  Account(e)' /\ Account(d)'
  <2>1. Account(e) /\ Account(d)
    BY <1>11, Zenon DEF IInv
  <2>2. /\ flow[d].chunks \in Nat /\ got[d] \in Nat /\ held \in Nat /\ eaten \in Nat
        /\ replies \in Nat /\ input[e].read \in Nat /\ flow[e].chunks \in Nat /\ got[e] \in Nat
    BY <1>2, Numbers, Zenon
  <2>3. Carried(e)' = Carried(e)
    <3>1. /\ flow'[e].chunks \in Nat /\ held' \in Nat /\ eaten' \in Nat
          /\ flow'[e].chunks + held' + eaten' = flow[e].chunks + held + eaten
      BY <1>1 DEF Negotiates, Flows
    <3>2. QED
      BY <1>1, <1>3, <2>2, <3>1 DEF Carried
  <2>4. Written(d)' = Written(d)
    BY <1>1, <1>3 DEF Written
  <2>5. Account(e)'
    BY <1>1, <1>3, <1>4, <1>5, <2>1, <2>3, <2>4, Zenon
       DEF Account, Balance, Intact, Reports, Delayed, Success
  <2>6. Balance(d)'
    <3>1. \/ flow'[d] = flow[d] /\ replies' = replies
          \/ /\ replies' = replies + 1
             /\ ~closed[d] => flow'[d].chunks = flow[d].chunks + 1
      BY <1>1, Zenon DEF Negotiates
    <3>2. ~closed[d] => \/ Carried(d)' = Carried(d) /\ Written(e)' = Written(e)
                        \/ Carried(d)' = Carried(d) + 1 /\ Written(e)' = Written(e) + 1
      BY <1>1, <1>3, <2>2, <3>1 DEF Carried, Written
    <3>3. Intact(d)' => Intact(d)
      BY <1>1, <1>3, <1>4, Zenon DEF Intact
    <3>4. QED
      BY <1>1, <1>3, <2>1, <3>2, <3>3 DEF Account, Balance
  <2>7. ~AllGot(d)
    BY <1>5, Zenon DEF AllGot
  <2>8. Account(d)'
    BY <1>3, <1>4, <2>1, <2>6, <2>7, Unaware, Zenon DEF Resting
  <2>9. QED
    BY <2>5, <2>8, Zenon
<1>12. QED
  BY <1>1, <1>3, <1>6, <1>7, <1>8, <1>9, <1>10, <1>11, Zenon DEF IInv, Tracked

LEMMA FillStep ==
    ASSUME IInv, NEW n \in Nat, Fill(n)
    PROVE  IInv'
<1>1. flow \in Flows /\ Types /\ "server" \in Ends /\ "client" \in Ends
  BY Zenon DEF IInv, Types, Ends
<1>2. /\ flow["server"].chunks \in Nat /\ n <= flow["server"].chunks /\ held = 0 /\ held' = n
      /\ flow' = [flow EXCEPT !["server"].chunks = @ - n] /\ eaten' = eaten /\ eaten \in Nat
  BY <1>1 DEF Fill, Flows, Types
<1>3. /\ flow' \in Flows /\ flow'["server"].chunks = flow["server"].chunks - n
      /\ flow'["client"] = flow["client"] /\ \A x \in Ends : flow'[x].eof = flow[x].eof
  BY <1>1, <1>2 DEF Flows
<1>4. flow'["server"].chunks + held' + eaten' = flow["server"].chunks + held + eaten
  BY <1>2, <1>3
<1>5. Negotiates
  BY <1>1, <1>2, <1>3, <1>4, Zenon DEF Negotiates, Fill, Types, fixed, sessionVars, copyVars
<1>6. QED
  BY <1>5, NegotiatesStep, Zenon

LEMMA TakenNumbers ==
    ASSUME Types, Taken
    PROVE  /\ held' \in Nat /\ eaten' \in Nat /\ flow["server"].chunks \in Nat
           /\ flow["server"].chunks + held' + eaten' = flow["server"].chunks + held + eaten
<1>1. held \in Nat /\ eaten \in Nat /\ flow["server"].chunks \in Nat
  BY Numbers, Zenon DEF Ends
<1>2. QED
  BY <1>1 DEF Taken

LEMMA Socks5GreetingStep ==
    ASSUME IInv, Socks5Greeting
    PROVE  IInv'
<1>1. Types /\ flow \in Flows /\ replies \in Nat /\ "server" \in Ends
        /\ "client" \in Ends /\ Other("server") = "client"
  BY Zenon DEF IInv, Types, Ends, Other
<1>2. /\ held' \in Nat /\ eaten' \in Nat
      /\ flow["server"].chunks + held' + eaten' = flow["server"].chunks + held + eaten
  BY <1>1, TakenNumbers, Zenon DEF Socks5Greeting
<1>3. /\ flow' \in Flows /\ flow'["server"] = flow["server"]
      /\ flow'["client"].eof = flow["client"].eof
      /\ ~closed["client"] => flow'["client"].chunks = flow["client"].chunks + 1
  BY <1>1, SentAt, Zenon DEF Socks5Greeting
<1>4. \A x \in Ends : flow'[x].eof = flow[x].eof
  BY <1>3, Zenon DEF Ends
<1>5. replies' = replies + 1 /\ replies' \in Nat
  BY <1>1 DEF Socks5Greeting
<1>6. /\ pc' \in [Ends -> {"dial", "greet", "request", "connect", "start", "child", "drain",
                           "bridge", "closed"}]
      /\ pc["server"] = "greet" /\ pc'["server"] = "request" /\ pc'["client"] = pc["client"]
  BY <1>1, Zenon DEF Types, Socks5Greeting
<1>7. Negotiates
  BY <1>2, <1>3, <1>4, <1>5, <1>6, Zenon DEF Negotiates, Socks5Greeting, fixed, copyVars
<1>8. QED
  BY <1>7, NegotiatesStep, Zenon

LEMMA RequestStep ==
    ASSUME IInv, Socks5Request \/ Socks4Request
    PROVE  IInv'
<1>1. Types /\ flow \in Flows /\ "server" \in Ends /\ "client" \in Ends
  BY Zenon DEF IInv, Types, Ends
<1>2. /\ pc["server"] \in {"greet", "request"} /\ Taken /\ HandshakeDone
      /\ UNCHANGED <<kind, lossy, ctx, completed, input, got, replies, faults>>
  BY Zenon DEF Socks5Request, Socks4Request, fixed
<1>3. /\ held' \in Nat /\ eaten' \in Nat
      /\ flow["server"].chunks + held' + eaten' = flow["server"].chunks + held + eaten
  BY <1>1, <1>2, TakenNumbers, Zenon
<1>4. CASE Leave("server", "err", flow, reset) /\ timer' = timer
  <2>1. GivesUp(flow)
    BY <1>1, <1>2, <1>3, <1>4, Zenon DEF GivesUp, Types
  <2>2. QED
    BY <1>2, <2>1, GivesUpSilently, Zenon
<1>5. CASE /\ timer' = "stopped" /\ pc' = [pc EXCEPT !["server"] = "connect"]
           /\ UNCHANGED <<ret, inp, out, errorsCh, flow, reset, closed>>
  <2>1. /\ pc' \in [Ends -> {"dial", "greet", "request", "connect", "start", "child", "drain",
                             "bridge", "closed"}]
        /\ pc'["server"] = "connect" /\ pc'["client"] = pc["client"]
    BY <1>1, <1>5, Zenon DEF Types
  <2>2. Negotiates
    BY <1>1, <1>2, <1>3, <1>5, <2>1, Zenon DEF Negotiates, Types
  <2>3. QED
    BY <2>2, NegotiatesStep, Zenon
<1>6. QED
  BY <1>2, <1>4, <1>5, Zenon DEF HandshakeDone

LEMMA NegotiationFailsStep ==
    ASSUME IInv, NegotiationFails
    PROVE  IInv'
<1>1. /\ Types /\ pc["server"] \in {"greet", "request"} /\ held' \in Nat /\ eaten' \in Nat
      /\ timer' \in {"armed", "stopped", "fired"}
      /\ UNCHANGED <<kind, lossy, ctx, completed, input, got, faults>>
  BY DEF NegotiationFails, fixed, IInv, Types
<1>2. CASE Leave("server", "err", Sent("server"), reset) /\ replies' = replies + 1
  <2>1. GivesUp(Sent("server"))
    BY <1>1, <1>2, Zenon DEF GivesUp
  <2>2. QED
    BY <1>2, <2>1, GivesUpAnswering, Zenon
<1>3. CASE Leave("server", "err", flow, reset) /\ replies' = replies
  <2>1. GivesUp(flow)
    BY <1>1, <1>3, Zenon DEF GivesUp
  <2>2. QED
    BY <1>3, <2>1, GivesUpSilently, Zenon
<1>4. QED
  BY <1>2, <1>3, Zenon DEF NegotiationFails

LEMMA TimerFiresStep ==
    ASSUME IInv, TimerFires
    PROVE  IInv'
<1>1. /\ timer = "armed" /\ timer' = "fired" /\ reset' = TRUE /\ Types
      /\ UNCHANGED <<kind, lossy, ctx, pc, ret, completed, input, inp, out, errorsCh, flow, closed,
                     got, held, eaten, replies, faults>>
  BY Zenon DEF TimerFires, fixed, sessionVars, copyVars, IInv
<1>2. Types'
  BY <1>1, Zenon DEF Types
<1>3. NoLateTimeout'
  BY <1>1, Zenon DEF IInv, NoLateTimeout
<1>4. \A x \in Ends : Stage(x) /\ Silent(x) => Stage(x)' /\ Silent(x)'
  BY <1>1, Zenon DEF Stage, Silent
<1>5. ASSUME NEW x \in Ends, Account(x)
      PROVE  Account(x)'
  <2>1. /\ (AllGot(x)' <=> AllGot(x)) /\ (AllRead(x)' <=> AllRead(x)) /\ (Clean(x)' <=> Clean(x))
    BY <1>1, Zenon DEF AllGot, AllRead, Clean, Carried, Written
  <2>2. QED
    BY <1>1, <1>5, <2>1, Zenon DEF Account, Balance, Intact, Reports, Delayed, Success
<1>6. QED
  BY <1>1, <1>2, <1>3, <1>4, <1>5, Zenon DEF IInv, Tracked

\* A reset ends the account of what is on its way.
LEMMA ReconnectFailsStep ==
    ASSUME IInv, NEW e \in Ends, ReconnectFails(e)
    PROVE  IInv'
<1>1. /\ reset' = TRUE /\ Types
      /\ UNCHANGED <<kind, lossy, ctx, pc, ret, completed, input, inp, out, errorsCh, flow, closed,
                     got, held, eaten, replies, timer, faults>>
  BY Zenon DEF ReconnectFails, fixed, sessionVars, copyVars, socksVars, IInv
<1>2. Types' /\ NoLateTimeout'
  BY <1>1, Zenon DEF IInv, Types, NoLateTimeout
<1>3. \A x \in Ends : Stage(x) /\ Silent(x) => Stage(x)' /\ Silent(x)'
  BY <1>1, Zenon DEF Stage, Silent
<1>4. ASSUME NEW x \in Ends, Account(x)
      PROVE  Account(x)'
  <2>1. /\ (AllGot(x)' <=> AllGot(x)) /\ (AllRead(x)' <=> AllRead(x)) /\ (Clean(x)' <=> Clean(x))
    BY <1>1, Zenon DEF AllGot, AllRead, Clean, Carried, Written
  <2>2. QED
    BY <1>1, <1>4, <2>1, Zenon DEF Account, Balance, Reports, Delayed, Success
<1>5. QED
  BY <1>1, <1>2, <1>3, <1>4, Zenon DEF IInv, Tracked

\* What a data channel takes with it never adds an end of stream.
LEMMA KeptAt ==
    ASSUME flow \in Flows, NEW e \in Ends, NEW f \in Kept(e)
    PROVE  /\ f \in [chunks : Nat, eof : BOOLEAN] /\ (f.eof => flow[e].eof)
           /\ f # flow[e] => ~f.eof /\ out[e] # "done"
<1>1. flow[e] \in [chunks : Nat, eof : BOOLEAN] /\ flow[e].chunks \in Nat
  BY DEF Flows
<1>2. CASE f = flow[e]
  BY <1>1, <1>2, Zenon
<1>3. CASE f # flow[e]
  <2>1. out[e] # "done"
    BY <1>3, Zenon DEF Kept
  <2>2. PICK n \in 0 .. flow[e].chunks : f = [chunks |-> n, eof |-> FALSE]
    BY <1>3, Zenon DEF Kept
  <2>3. n \in Nat
    BY <1>1, <2>2
  <2>4. f \in [chunks : Nat, eof : BOOLEAN] /\ ~f.eof
    BY <2>2, <2>3
  <2>5. QED
    BY <2>1, <2>4, Zenon
<1>4. QED
  BY <1>2, <1>3, Zenon

LEMMA ChannelReplacedStep ==
    ASSUME IInv, ChannelReplaced
    PROVE  IInv'
<1>1. Types /\ flow \in Flows /\ faults \in Nat
  BY Zenon DEF IInv, Types
<1>2. /\ lossy' = TRUE /\ faults' = faults + 1
      /\ UNCHANGED <<kind, ctx, pc, ret, completed, input, inp, out, errorsCh, reset, closed,
                     got, held, eaten, replies, timer>>
  BY Zenon DEF ChannelReplaced, sessionVars, copyVars, socksVars
<1>3. \E S : flow' \in [Ends -> S] /\ \A x \in Ends : flow'[x] \in Kept(x)
  BY Zenon DEF ChannelReplaced
<1>4. \A x \in Ends : flow'[x] \in [chunks : Nat, eof : BOOLEAN] /\ (flow'[x].eof => flow[x].eof)
  BY <1>1, <1>3, KeptAt, Zenon
<1>5. flow' \in Flows
  BY <1>3, <1>4, Zenon DEF Flows
<1>6. faults' \in Nat
  BY <1>1, <1>2
<1>7. Types' /\ NoLateTimeout'
  BY <1>1, <1>2, <1>5, <1>6, Zenon DEF IInv, Types, NoLateTimeout
<1>8. \A x \in Ends : Stage(x) /\ Silent(x) => Stage(x)' /\ Silent(x)'
  BY <1>2, <1>4, Zenon DEF Stage, Silent
<1>9. QED
  BY <1>2, <1>7, <1>8, Zenon DEF IInv, Tracked

\* An end that is cut off so has not seen the end of the stream, and will not.
LEMMA ChannelClosedStep ==
    ASSUME IInv, NEW e \in Ends, ChannelClosed(e)
    PROVE  IInv'
<1>1. PICK d \in Ends : /\ d = Other(e) /\ d # e /\ Other(d) = e
                        /\ \A x \in Ends : x = e \/ x = d
  BY TwoEnds, Zenon
<1>2. Types /\ flow \in Flows /\ Stage(e) /\ Stage(d) /\ Silent(e) /\ Silent(d)
  BY Zenon DEF IInv, Types
<1>3. PICK f \in Kept(e) : f # flow[e] /\ flow' = [flow EXCEPT ![e] = f]
  BY Zenon DEF ChannelClosed
<1>4. f \in [chunks : Nat, eof : BOOLEAN] /\ ~f.eof /\ out[e] # "done"
  BY <1>2, <1>3, KeptAt, Zenon
<1>5. flow' \in Flows /\ flow'[e] = f /\ flow'[d] = flow[d]
  BY <1>1, <1>2, <1>3, <1>4, Zenon DEF Flows
<1>6. /\ ~closed[e] /\ closed[d]
      /\ UNCHANGED <<kind, lossy, ctx, pc, ret, completed, input, inp, out, errorsCh, reset, closed,
                     got, held, eaten, replies, timer, faults>>
  BY <1>1, Zenon DEF ChannelClosed, fixed, sessionVars, copyVars, socksVars
<1>7. Types' /\ NoLateTimeout'
  BY <1>2, <1>5, <1>6, Zenon DEF IInv, Types, NoLateTimeout
<1>8. Stage(e)' /\ Stage(d)' /\ Silent(e)' /\ Silent(d)'
  BY <1>1, <1>2, <1>4, <1>5, <1>6, Zenon DEF Stage, Silent
<1>9. ASSUME Tracked
      PROVE  Account(e)' /\ Account(d)'
  <2>1. Account(e) /\ Account(d)
    BY <1>9, Zenon DEF IInv
  <2>2. Account(d)'
    BY <1>1, <1>5, <1>6, <2>1, Unmoved, Zenon DEF Resting, Unread
  <2>3. Balance(e)' /\ ret[e] # "ok"
    BY <1>1, <1>2, <1>4, <1>5, <1>6, Zenon DEF Balance, Intact, Stage
  <2>4. Account(e)'
    BY <1>4, <1>6, <2>1, <2>3, Zenon DEF Account, Reports, Delayed, Success, AllRead, Clean
  <2>5. QED
    BY <2>2, <2>4, Zenon
<1>10. QED
  BY <1>1, <1>6, <1>7, <1>8, <1>9, Zenon DEF IInv, Tracked

------------------------------------------------------------------------------
LEMMA InitHolds ==
    ASSUME Init
    PROVE  IInv
<1>1. Types
  <2>1. input \in Inputs /\ flow \in Flows
    BY DEF Init, Inputs, Flows
  <2>2. errorsCh \in [Ends -> Seq({"nil", "err"})]
    BY DEF Init
  <2>3. \A e \in Ends : Copiers(kind, e) \in {"off", "run"}
    BY Zenon DEF Copiers
  <2>4. \A e \in Ends : FirstStep(kind, e) \in {"bridge", "dial", "greet", "start"}
    BY Zenon DEF FirstStep
  <2>5. /\ got \in [Ends -> Nat] /\ completed \in [Ends -> Nat]
        /\ held \in Nat /\ eaten \in Nat /\ replies \in Nat /\ faults \in Nat
    BY DEF Init
  <2>6. QED
    BY <2>1, <2>2, <2>3, <2>4, <2>5, Zenon DEF Init, Types
<1>2. NoLateTimeout
  BY Zenon DEF Init, NoLateTimeout, FirstStep, Ends
<1>3. ASSUME NEW e \in Ends
      PROVE  Stage(e) /\ Silent(e) /\ Account(e)
  <2>1. /\ pc[e] = FirstStep(kind, e) /\ inp[e] = Copiers(kind, e) /\ out[e] = Copiers(kind, e)
        /\ errorsCh[e] = <<>> /\ completed[e] = 0 /\ ret[e] = "none" /\ ~closed[e]
    BY Zenon DEF Init
  <2>2. ~flow[e].eof /\ flow[e].chunks = 0 /\ ~input[e].shut
         /\ input[Other(e)].read = 0 /\ got[e] = 0
    BY TwoEnds DEF Init
  <2>3. kind \in {"raw", "forward", "socks", "exec"}
    BY KindsAssumption DEF Init
  <2>4. Stage(e)
    BY <2>1, <2>2, <2>3, Zenon DEF Stage, FirstStep, Copiers, Ends
  <2>5. Silent(e)
    BY <2>2, Zenon DEF Silent
  <2>6. Carried(e) = Written(Other(e))
    BY <2>2 DEF Carried, Written, Init
  <2>7. inp[e] \in {"off", "run"} /\ out[e] \in {"off", "run"}
    BY <2>1, Zenon DEF Copiers
  <2>8. completed[e] + Len(errorsCh[e]) = Reported(inp[e]) + Reported(out[e])
    BY <2>1, <2>7 DEF Reported
  <2>9. QED
    BY <2>1, <2>4, <2>5, <2>6, <2>7, <2>8, Zenon DEF Account, Balance, Intact, Reports, Delayed, Success
<1>4. QED
  BY <1>1, <1>2, <1>3, Zenon DEF IInv, Tracked

LEMMA NextHolds ==
    ASSUME IInv, [Next]_vars
    PROVE  IInv'
<1>1. ASSUME NEW e \in Ends, Copying(e)
      PROVE  IInv'
  <2>1. PipeShut(e) \/ CopyInDropped(e) \/ StdinRefused(e) => kind = "exec"
    BY Zenon DEF IInv, Stage, PipeShut, CopyInDropped, StdinRefused, Child
  <2>2. OutputNotShut(e) \/ OutputFails(e) => kind # "exec"
    BY Zenon DEF OutputNotShut, OutputFails
  <2>3. QED
    BY <1>1, <2>1, <2>2, CopyInStep, CopyInFailsStep, InputEndsStep, CloseWriteStep, CopyOutStep,
       OutputStep, ExecCopyStep, Zenon DEF Copying
<1>2. ASSUME NEW e \in Ends,
             \/ Produce(e) \/ EndInput(e) \/ Cancel(e) \/ Interrupt(e) \/ Running(e)
             \/ ChannelClosed(e)
      PROVE  IInv'
  BY <1>1, <1>2, ProduceStep, CancelStep, InterruptStep, CollectStep, ReconnectFailsStep,
     ChannelClosedStep, Zenon DEF Running
<1>3. ASSUME Negotiating
      PROVE  IInv'
  <2>1. \A n \in 1 .. MaxChunks[kind]["client"] : n \in Nat
    BY BoundsAssumption DEF Ends, IInv, Types
  <2>2. QED
    BY <1>3, <2>1, FillStep, Socks5GreetingStep, RequestStep, NegotiationFailsStep, TimerFiresStep,
       Zenon DEF Negotiating
<1>4. ASSUME Server
      PROVE  IInv'
  BY <1>3, <1>4, ForwardDialsStep, SocksDialsStep, ChildStep, ExecEndStep, Zenon DEF Server
<1>5. ASSUME UNCHANGED vars
      PROVE  IInv'
  <2>1. UNCHANGED <<kind, lossy, ctx, pc, ret, completed, input, inp, out, errorsCh, flow, reset, closed,
                    got, held, eaten, replies, timer, faults>>
    BY <1>5, Zenon DEF vars, fixed, sessionVars, copyVars, streamVars, socksVars
  <2>2. Types' /\ NoLateTimeout'
    BY <2>1, Zenon DEF IInv, Types, NoLateTimeout
  <2>3. \A x \in Ends : Stage(x) /\ Silent(x) => Stage(x)' /\ Silent(x)'
    BY <2>1, Zenon DEF Stage, Silent
  <2>4. \A x \in Ends : Account(x) => Account(x)'
    BY <2>1, Unmoved, Zenon DEF Resting, Unread
  <2>5. QED
    BY <2>1, <2>2, <2>3, <2>4, Zenon DEF IInv, Tracked
<1>6. QED
  BY <1>2, <1>4, <1>5, ChannelReplacedStep, Zenon DEF Next

LEMMA BridgesInvariant == Spec => []IInv
<1>1. Init => IInv
  BY InitHolds, Zenon
<1>2. IInv /\ [Next]_vars => IInv'
  BY NextHolds, Zenon
<1>3. QED
  BY <1>1, <1>2, PTL DEF Spec

\* When both ends of a terminal, a forward or a SOCKS session report success, each
\* has received everything the other's input produced (session.go, Bridge and
\* bridgeBuffered), whatever the number of chunks and of failing connections, and
\* although Close of a native stream throws away what is on its way: only frames
\* lost with a data channel that is replaced (lossy) escape both ends.
THEOREM NothingIsCutOff == Spec => []NothingCutOff
<1>1. IInv => NothingCutOff
  <2> SUFFICES ASSUME IInv, Tracked, \A e \in Ends : ret[e] = "ok", NEW e \in Ends
               PROVE  got[e] = Wanted(e)
    BY Zenon DEF NothingCutOff, Complete, Tracked
  <2>1. PICK d \in Ends : d = Other(e)
    BY TwoEnds, Zenon
  <2>2. AllGot(e) /\ AllRead(d) /\ Types
    BY Zenon DEF IInv, Account, Success
  <2>3. /\ flow[e].chunks = 0 /\ (e = "server" => held = 0) /\ input[d].read = input[d].made
        /\ Carried(e) = Written(d)
    BY <2>1, <2>2, Zenon DEF AllGot, AllRead
  <2>4. /\ got[e] \in Nat /\ eaten \in Nat /\ replies \in Nat /\ input[d].made \in Nat
    BY <2>2, Numbers, Zenon
  <2>5. QED
    BY <2>1, <2>3, <2>4 DEF Carried, Written, Wanted, Other, Ends
<1>2. QED
  BY <1>1, BridgesInvariant, PTL

\* Once a SOCKS request is understood its timer is stopped: it cannot reset the
\* stream while the target is dialled or bridged (forwarding.go, SOCKS).
THEOREM TimerIsStopped == Spec => []NoLateTimeout
<1>1. IInv => NoLateTimeout
  BY Zenon DEF IInv
<1>2. QED
  BY <1>1, BridgesInvariant, PTL

==============================================================================
