-------------------------- MODULE RendezvousProofs ---------------------------
(***************************************************************************)
(* Who is served: ChosenServed and SlotNotLost of Rendezvous, and two more *)
(* promises of the listener, for any clients, routes, tokens and clocks.   *)
(*                                                                         *)
(* The argument follows a hello through the system.  Only a client that    *)
(* has ended its race writes one, on the stream it chose; so a stream with *)
(* a hello under way, or whose hello was accepted, is the one its client   *)
(* chose, and what was accepted was made with the client's own profile.    *)
(***************************************************************************)
EXTENDS Rendezvous, TLAPS

Names == AllRoutes \cup {"none"}
Profiles == UNION {{u.profile[c] : c \in Clients} : u \in Setups}
Hellos == {CreateHello(p, s) : p \in Profiles, s \in Streams}
Frames == {NoFrame} \cup Hellos \cup {CreateAck(f, s) : f \in Hellos, s \in Streams}

Race == [Clients -> [pc : {"race", "hello", "ack", "session", "done", "failed"},
                     failures : 0 .. 1, expired : BOOLEAN, raced : BOOLEAN, stream : Names]]

ClientTypes ==
    /\ client \in Race
    /\ result \in [Clients -> Names]
    /\ nat \in [Clients -> {"off", "connect", "up", "err", "end"}]
    /\ att \in [Streams -> {"dial", "up", "err", "end"}]
ListenerTypes ==
    /\ handler \in [Streams -> {"none", "auth", "check", "session", "close", "closed"}]
    /\ accepted \in BOOLEAN /\ served \subseteq Streams
WireTypes ==
    /\ wire \in [Streams -> [up : Frames, down : Frames]]
    /\ opts \in [token : BOOLEAN, persistent : BOOLEAN]
    /\ \A c \in Clients : profile[c] \in Profiles

\* A client without native WebRTC leaves the race with its only dial.
NoRace ==
    \A c \in Clients : ~nativeWebRTCEnabled(c) =>
        /\ nat[c] = "off" /\ ~client[c].expired
        /\ att[<<c, Libp2p>>] \in {"dial", "end"}
        /\ att[<<c, Libp2p>>] = "dial" => client[c].pc = "race"

\* What openAnyStream returns is a stream of its client: a connection waits in
\* result before nativewebrtc.Connect hands it on.
Routed ==
    \A c \in Clients :
        /\ result[c] \in Sessions[c] \cup {"none"} /\ (nat[c] = "up" => result[c] # "none")
        /\ client[c].pc \in {"hello", "ack"} => client[c].stream \in Routes(c)

\* The client of s has left its race with s.
Picked(s) == client[s[1]].stream = s[2] /\ client[s[1]].pc # "race"
Fits(c) == profile[c].key = Key /\ profile[c].clock \in -MaxClockSkew .. MaxClockSkew
Hello(s) == CreateHello(profile[s[1]], s)
AckOf(s) == CreateAck(Hello(s), s)

\* What the frames under way and the listener's goroutines vouch for.
FramesVouch(s) ==
    /\ wire[s].up \in {NoFrame, Hello(s)} /\ wire[s].down \in {NoFrame, AckOf(s)}
    /\ wire[s].up # NoFrame => Picked(s)
ListenerVouches(s) ==
    opts.token /\ (handler[s] = "check" \/ s \in served) => Picked(s) /\ Fits(s[1])
Vouched == \A s \in Streams : FramesVouch(s) /\ ListenerVouches(s)

\* A listener that is not persistent serves one stream.
OneServed == ~opts.persistent => \A s, t \in served : s = t

\* With a token, a client that has started its session has the listener's key: it
\* saw an ack that only a holder of the token can make.
KeyShared ==
    opts.token => \A c \in Clients : client[c].pc = "session" => profile[c].key = Key

Slot == (served # {}) = accepted

IInv == /\ ClientTypes /\ ListenerTypes /\ WireTypes /\ NoRace /\ Vouched
        /\ Slot /\ OneServed /\ KeyShared

------------------------------------------------------------------------------
LEMMA StreamFacts ==
    /\ \A c \in Clients : <<c, Libp2p>> \in Streams
    /\ \A s \in Streams : s = <<s[1], s[2]>> /\ s[1] \in Clients /\ s[2] \in AllRoutes
BY DEF Streams, AllRoutes, Routes

\* What the listener vouches for depends on the client only through its choice.
LEMMA StillVouched ==
    ASSUME Vouched, UNCHANGED <<opts, profile, wire>>,
           NEW s \in Streams, Picked(s) => Picked(s)',
           opts.token => \/ handler'[s] # "check" /\ s \notin served'
                         \/ handler[s] = "check" \/ s \in served
    PROVE  FramesVouch(s)' /\ ListenerVouches(s)'
<1>1. FramesVouch(s)'
  BY Zenon DEF Vouched, FramesVouch, Hello, AckOf
<1>2. Fits(s[1])' = Fits(s[1])
  BY Zenon DEF Fits
<1>3. ListenerVouches(s)'
  BY <1>2, Zenon DEF Vouched, ListenerVouches
<1>4. QED
  BY <1>1, <1>3, Zenon

\* A step of a client that sends nothing, and does not start a session with a token.
LEMMA QuietClient ==
    ASSUME IInv, ClientTypes', NoRace',
           UNCHANGED <<opts, profile, wire, handler, accepted, served>>,
           \A s \in Streams : Picked(s) => Picked(s)',
           opts.token => \A c \in Clients : client'[c].pc = "session" => client[c].pc = "session"
    PROVE  IInv'
<1>1. ListenerTypes' /\ WireTypes' /\ Slot' /\ OneServed'
  BY Zenon DEF IInv, ListenerTypes, WireTypes, Slot, OneServed
<1>2. Vouched'
  BY StillVouched, Zenon DEF IInv, Vouched
<1>3. KeyShared'
  BY Zenon DEF IInv, KeyShared
<1>4. QED
  BY <1>1, <1>2, <1>3, Zenon DEF IInv

\* A step of the listener that admits nobody.
LEMMA QuietListener ==
    ASSUME IInv, ListenerTypes', UNCHANGED <<opts, profile, clientVars, wire, accepted, served>>,
           \A s \in Streams : handler'[s] = "check" => handler[s] = "check"
    PROVE  IInv'
<1>1. ClientTypes' /\ WireTypes' /\ NoRace' /\ Slot' /\ OneServed' /\ KeyShared'
  BY Zenon DEF IInv, ClientTypes, WireTypes, NoRace, Slot, OneServed, KeyShared, clientVars
<1>2. \A s \in Streams : Picked(s)' = Picked(s)
  BY Zenon DEF Picked, clientVars
<1>3. Vouched'
  BY <1>2, StillVouched, Zenon DEF IInv, Vouched
<1>4. QED
  BY <1>1, <1>3, Zenon DEF IInv

\* The listener takes up a stream: with a token it has to show one first.
LEMMA HandleStep ==
    ASSUME IInv, NEW s \in Streams, Handle(s), ClientTypes', NoRace',
           UNCHANGED <<opts, profile, wire>>,
           \A t \in Streams : Picked(t) => Picked(t)',
           opts.token => \A c \in Clients : client'[c].pc = "session" => client[c].pc = "session"
    PROVE  IInv'
<1>1. ListenerTypes'
  BY Zenon DEF IInv, ListenerTypes, Handle
<1>2. WireTypes'
  BY Zenon DEF IInv, WireTypes
<1>3. opts.token => UNCHANGED served /\ \A t \in Streams : handler'[t] = "check" => handler[t] = "check"
  BY Zenon DEF IInv, ListenerTypes, Handle
<1>4. Vouched'
  BY <1>3, StillVouched, Zenon DEF IInv, Vouched
<1>5. Slot' /\ OneServed'
  BY Zenon DEF IInv, ListenerTypes, Slot, OneServed, Handle
<1>6. KeyShared'
  BY Zenon DEF IInv, KeyShared
<1>7. QED
  BY <1>1, <1>2, <1>4, <1>5, <1>6, Zenon DEF IInv

\* openAnyStream returns while its client is in the race, or without one.
LEMMA ReturnFacts ==
    ASSUME IInv, NEW c \in Clients, NEW pc \in {"hello", "session", "failed"}, NEW r \in Names,
           Return(c, pc, r), client[c].pc = "race"
    PROVE  /\ client' \in Race
           /\ client'[c].pc = pc /\ ~client'[c].expired
           /\ \A d \in Clients : d # c => client'[d] = client[d]
           /\ \A s \in Streams : Picked(s) => Picked(s)'
<1>1. /\ client' \in Race
      /\ client'[c].pc = pc /\ ~client'[c].expired
      /\ \A d \in Clients : d # c => client'[d] = client[d]
  BY DEF IInv, ClientTypes, Return, Race
<1>2. ASSUME NEW s \in Streams, Picked(s) PROVE Picked(s)'
  <2>1. s[1] \in Clients /\ s[1] # c
    BY <1>2, StreamFacts, Zenon DEF Picked
  <2>2. QED
    BY <1>1, <1>2, <2>1, Zenon DEF Picked
<1>3. QED
  BY <1>1, <1>2, Zenon

------------------------------------------------------------------------------
\* The dials.  Without native WebRTC the dial is all there is.
LEMMA DialFailsStep ==
    ASSUME IInv, NEW c \in Clients, NEW r \in Routes(c), DialFails(<<c, r>>)
    PROVE  IInv'
<1> DEFINE s == <<c, r>>
<1>1. UNCHANGED <<opts, profile, wire, handler, accepted, served, nat, result>>
  BY Zenon DEF DialFails, listenerVars
<1>2. s \in Streams /\ s[1] = c /\ s[2] = r
  BY Zenon DEF Streams, AllRoutes, Routes
<1>3. att[s] = "dial" /\ att' \in [Streams -> {"dial", "up", "err", "end"}]
      /\ \A t \in Streams : t # s => att'[t] = att[t]
  BY <1>2, Zenon DEF IInv, ClientTypes, DialFails
<1>4. CASE nativeWebRTCEnabled(c)
  <2>1. UNCHANGED client
    BY <1>4, <1>2, Zenon DEF DialFails
  <2>2. ClientTypes'
    BY <1>1, <1>3, <2>1, Zenon DEF IInv, ClientTypes
  <2>3. NoRace'
    BY <1>1, <1>3, <1>4, <2>1, StreamFacts, Zenon DEF IInv, NoRace, nativeWebRTCEnabled
  <2>4. QED
    BY <1>1, <2>1, <2>2, <2>3, QuietClient, Zenon DEF Picked
<1>5. CASE ~nativeWebRTCEnabled(c)
  <2>1. r = Libp2p /\ client[c].pc = "race"
    BY <1>3, <1>5, Zenon DEF Routes, nativeWebRTCEnabled, IInv, NoRace
  <2>2. Return(c, "failed", "none") /\ att'[s] = "end"
    BY <1>2, <1>5, Zenon DEF DialFails, IInv, ClientTypes
  <2>3. ClientTypes'
    BY <1>1, <1>3, <2>1, <2>2, ReturnFacts, Zenon DEF IInv, ClientTypes, Names
  <2>4. NoRace'
    BY <1>1, <1>3, <2>1, <2>2, ReturnFacts, StreamFacts DEF IInv, NoRace, nativeWebRTCEnabled, Names
  <2>5. \A d \in Clients : client'[d].pc = "session" => client[d].pc = "session"
    BY <2>1, <2>2, ReturnFacts, Zenon DEF Names
  <2>6. \A t \in Streams : Picked(t) => Picked(t)'
    BY <2>1, <2>2, ReturnFacts, Zenon DEF Names
  <2>7. QED
    BY <1>1, <2>3, <2>4, <2>5, <2>6, QuietClient, Zenon
<1>6. QED
  BY <1>4, <1>5, Zenon

LEMMA Libp2pUpStep ==
    ASSUME IInv, NEW c \in Clients, Libp2pUp(c)
    PROVE  IInv'
<1> DEFINE s == <<c, Libp2p>>
<1>1. UNCHANGED <<opts, profile, wire, nat, result>> /\ Handle(s)
  BY Zenon DEF Libp2pUp
<1>2. s \in Streams
  BY StreamFacts, Zenon
<1>3. att[s] = "dial" /\ att' \in [Streams -> {"dial", "up", "err", "end"}]
      /\ \A t \in Streams : t # s => att'[t] = att[t]
  BY <1>2, Zenon DEF IInv, ClientTypes, Libp2pUp
<1>4. CASE nativeWebRTCEnabled(c)
  <2>1. UNCHANGED client
    BY <1>4, Zenon DEF Libp2pUp
  <2>2. ClientTypes'
    BY <1>1, <1>3, <2>1, Zenon DEF IInv, ClientTypes
  <2>3. NoRace'
    BY <1>1, <1>3, <1>4, <2>1, StreamFacts, Zenon DEF IInv, NoRace, nativeWebRTCEnabled
  <2>4. QED
    BY <1>1, <1>2, <2>1, <2>2, <2>3, HandleStep, Zenon DEF Picked
<1>5. CASE ~nativeWebRTCEnabled(c)
  <2>1. client[c].pc = "race" /\ Return(c, AfterOpen, Libp2p) /\ att'[s] = "end"
    BY <1>2, <1>3, <1>5, Zenon DEF IInv, NoRace, ClientTypes, Libp2pUp
  <2>2. AfterOpen \in {"hello", "session", "failed"} /\ Libp2p \in Names
    BY Zenon DEF AfterOpen, Names, AllRoutes
  <2>3. opts.token => AfterOpen = "hello"
    BY Zenon DEF AfterOpen
  <2> HIDE DEF s
  <2>4. /\ client' \in Race
        /\ client'[c].pc = AfterOpen /\ ~client'[c].expired
        /\ \A d \in Clients : d # c => client'[d] = client[d]
        /\ \A t \in Streams : Picked(t) => Picked(t)'
    BY <2>1, <2>2, ReturnFacts, Zenon
  <2>5. ClientTypes'
    BY <1>1, <1>3, <2>4, Zenon DEF IInv, ClientTypes
  <2>6. NoRace'
    BY <1>1, <1>3, <2>1, <2>4, StreamFacts DEF IInv, NoRace, nativeWebRTCEnabled, s
  <2>7. opts.token => \A d \in Clients : client'[d].pc = "session" => client[d].pc = "session"
    BY <2>3, <2>4, Zenon
  <2>8. QED
    BY <1>1, <1>2, <2>4, <2>5, <2>6, <2>7, HandleStep, Zenon
<1>6. QED
  BY <1>4, <1>5, Zenon

LEMMA SessionUpStep ==
    ASSUME IInv, NEW c \in Clients, NEW r \in Sessions[c], SessionUp(<<c, r>>)
    PROVE  IInv'
<1> DEFINE s == <<c, r>>
<1>1. UNCHANGED <<opts, profile, wire, nat, client>> /\ Handle(s)
  BY Zenon DEF SessionUp
<1>2. s \in Streams /\ s[1] = c /\ s[2] = r /\ r \in Names /\ nativeWebRTCEnabled(c)
  BY Zenon DEF Streams, AllRoutes, Routes, Names, nativeWebRTCEnabled
<1>3. ClientTypes'
  BY <1>1, <1>2, Zenon DEF IInv, ClientTypes, SessionUp
<1>4. \A t \in Streams : t # s => att'[t] = att[t]
  BY <1>2, Zenon DEF IInv, ClientTypes, SessionUp
<1>5. NoRace'
  BY <1>1, <1>2, <1>4, StreamFacts, Zenon DEF IInv, NoRace, nativeWebRTCEnabled
<1>6. QED
  BY <1>1, <1>2, <1>3, <1>5, HandleStep, Zenon DEF Picked

\* ConnectWithSignalingSessions and the attempts that lose: no client moves.
LEMMA ConnectSteps ==
    ASSUME IInv, NEW c \in Clients,
           \/ ConnectWins(c) \/ ConnectFails(c) \/ ConnectExpires(c) \/ Libp2pLoses(c) \/ NativeLoses(c)
    PROVE  IInv'
<1>1. UNCHANGED <<opts, profile, wire, handler, accepted, served, client, result>>
  BY Zenon DEF ConnectWins, ConnectFails, ConnectExpires, Libp2pLoses, NativeLoses, listenerVars
<1>2. CASE ConnectWins(c) \/ ConnectFails(c) \/ ConnectExpires(c) \/ NativeLoses(c)
  <2>1. nat[c] # "off" /\ UNCHANGED att /\ nat' \in [Clients -> {"off", "connect", "up", "err", "end"}]
        /\ \A d \in Clients : d # c => nat'[d] = nat[d]
    BY <1>2, Zenon DEF ConnectWins, ConnectFails, ConnectExpires, NativeLoses, IInv, ClientTypes
  <2>2. ClientTypes'
    BY <1>1, <2>1, Zenon DEF IInv, ClientTypes
  <2>3. NoRace'
    BY <1>1, <2>1, Zenon DEF IInv, NoRace, nativeWebRTCEnabled
  <2>4. QED
    BY <1>1, <2>2, <2>3, QuietClient, Zenon DEF Picked
<1>3. CASE Libp2pLoses(c)
  <2>1. UNCHANGED nat /\ att[<<c, Libp2p>>] \in {"up", "err"}
        /\ att' \in [Streams -> {"dial", "up", "err", "end"}]
        /\ \A t \in Streams : t # <<c, Libp2p>> => att'[t] = att[t]
    BY <1>3, StreamFacts, Zenon DEF Libp2pLoses, IInv, ClientTypes
  <2>2. ClientTypes'
    BY <1>1, <2>1, Zenon DEF IInv, ClientTypes
  <2>3. NoRace'
    BY <1>1, <2>1, StreamFacts, Zenon DEF IInv, NoRace, nativeWebRTCEnabled
  <2>4. QED
    BY <1>1, <2>2, <2>3, QuietClient, Zenon DEF Picked
<1>4. QED
  BY <1>2, <1>3, Zenon

\* The race: an attempt is received, or the dial context expires.  The client goes
\* on racing, or leaves the race.
LEMMA RacingSteps ==
    ASSUME IInv, NEW c \in Clients,
           ReceiveLibp2p(c) \/ ReceiveNative(c) \/ DialExpires(c) \/ RaceExpires(c)
    PROVE  IInv'
<1>1. UNCHANGED <<opts, profile, wire, handler, accepted, served, result>> /\ client[c].pc = "race"
  BY Zenon DEF ReceiveLibp2p, ReceiveNative, DialExpires, RaceExpires, listenerVars
<1>2. nativeWebRTCEnabled(c)
  BY Zenon DEF ReceiveLibp2p, ReceiveNative, DialExpires, RaceExpires, IInv, NoRace
<1>3. /\ att' \in [Streams -> {"dial", "up", "err", "end"}]
      /\ nat' \in [Clients -> {"off", "connect", "up", "err", "end"}]
      /\ \A d \in Clients : d # c => nat'[d] = nat[d] /\ att'[<<d, Libp2p>>] = att[<<d, Libp2p>>]
  BY StreamFacts, Zenon DEF ReceiveLibp2p, ReceiveNative, DialExpires, RaceExpires, IInv, ClientTypes
<1>4. /\ client' \in Race /\ (opts.token => client'[c].pc # "session")
      /\ \A d \in Clients : d # c => client'[d] = client[d]
      /\ \A s \in Streams : Picked(s) => Picked(s)'
  <2>1. CASE \E pc \in {"hello", "session", "failed"}, r \in Names :
                Return(c, pc, r) /\ (opts.token => pc # "session")
    BY <1>1, <2>1, ReturnFacts, Zenon
  <2>2. CASE \/ client' = [client EXCEPT ![c].expired = TRUE, ![c].raced = TRUE]
             \/ client[c].failures # 1 /\ client' = [client EXCEPT ![c].failures = @ + 1]
    <3>1. /\ client' \in Race /\ client'[c].pc = "race"
          /\ \A d \in Clients : d # c => client'[d] = client[d]
      <4>1. CASE client' = [client EXCEPT ![c].expired = TRUE, ![c].raced = TRUE]
        BY <1>1, <4>1, ZenonT(30) DEF IInv, ClientTypes, Race
      <4>2. CASE client[c].failures # 1 /\ client' = [client EXCEPT ![c].failures = @ + 1]
        <5>1. client[c].failures + 1 \in 0 .. 1
          BY <4>2 DEF IInv, ClientTypes, Race
        <5>2. QED
          BY <1>1, <4>2, <5>1, Zenon DEF IInv, ClientTypes, Race
      <4>3. QED
        BY <2>2, <4>1, <4>2, Zenon
    <3>2. ASSUME NEW s \in Streams, Picked(s) PROVE Picked(s)'
      <4>1. s[1] \in Clients /\ s[1] # c
        BY <1>1, <3>2, StreamFacts, Zenon DEF Picked
      <4>2. QED
        BY <3>1, <3>2, <4>1, Zenon DEF Picked
    <3>3. QED
      BY <3>1, <3>2, Zenon
  <2>3. CASE DialExpires(c)
    BY <2>2, <2>3, Zenon DEF DialExpires
  <2>4. CASE RaceExpires(c)
    BY <2>1, <2>4, Zenon DEF RaceExpires, Names
  <2>5. CASE ReceiveLibp2p(c)
    BY <2>1, <2>2, <2>5, Zenon DEF ReceiveLibp2p, OneFailure, AfterOpen, Names, AllRoutes
  <2>6. CASE ReceiveNative(c)
    <3>1. result[c] \in Names
      BY Zenon DEF IInv, ClientTypes
    <3>2. CASE nat[c] = "up"
      BY <2>1, <2>6, <3>1, <3>2, Zenon DEF ReceiveNative, AfterOpen, Names
    <3>3. CASE nat[c] # "up"
      BY <2>1, <2>2, <2>6, <3>3, Zenon DEF ReceiveNative, OneFailure, Names
    <3>4. QED
      BY <3>2, <3>3, Zenon
  <2>7. QED
    BY <2>3, <2>4, <2>5, <2>6, Zenon
<1>5. ClientTypes'
  BY <1>1, <1>3, <1>4, Zenon DEF IInv, ClientTypes
<1>6. NoRace'
  BY <1>2, <1>3, <1>4, ZenonT(30) DEF IInv, NoRace, nativeWebRTCEnabled
<1>7. opts.token => \A d \in Clients : client'[d].pc = "session" => client[d].pc = "session"
  BY <1>4, Zenon
<1>8. QED
  BY <1>1, <1>4, <1>5, <1>6, <1>7, QuietClient, Zenon

------------------------------------------------------------------------------
\* The listener's goroutines, but for admission.
LEMMA ListenerSteps ==
    ASSUME IInv, NEW s \in Streams, AuthFails(s) \/ SessionEnds(s) \/ CloseStream(s)
    PROVE  IInv'
<1>1. UNCHANGED <<opts, profile, clientVars, wire, accepted, served>>
  BY Zenon DEF AuthFails, SessionEnds, CloseStream, listenerVars
<1>2. /\ handler' \in [Streams -> {"none", "auth", "check", "session", "close", "closed"}]
      /\ \A t \in Streams : handler'[t] = "check" => handler[t] = "check"
  BY Zenon DEF AuthFails, SessionEnds, CloseStream, IInv, ListenerTypes
<1>3. ListenerTypes'
  BY <1>1, <1>2, Zenon DEF IInv, ListenerTypes
<1>4. QED
  BY <1>1, <1>2, <1>3, QuietListener, Zenon

LEMMA ExitStep ==
    ASSUME IInv, Exit
    PROVE  IInv'
<1>1. UNCHANGED <<opts, profile, clientVars, wire, accepted, served>>
  BY Zenon DEF Exit
<1>2. ListenerTypes' /\ \A t \in Streams : handler'[t] = "check" => handler[t] = "check"
  BY <1>1, Zenon DEF Exit, IInv, ListenerTypes
<1>3. QED
  BY <1>1, <1>2, QuietListener, Zenon

LEMMA AdmitStep ==
    ASSUME IInv, NEW s \in Streams, Admit(s)
    PROVE  IInv'
<1>1. UNCHANGED <<opts, profile, clientVars, wire>>
  BY Zenon DEF Admit
<1>2. ListenerTypes' /\ Slot' /\ OneServed'
  BY <1>1, Zenon DEF Admit, IInv, ListenerTypes, Slot, OneServed
<1>3. ClientTypes' /\ WireTypes' /\ NoRace' /\ KeyShared'
  BY <1>1, Zenon DEF IInv, ClientTypes, WireTypes, NoRace, KeyShared, clientVars
<1>4. \A t \in Streams : Picked(t)' = Picked(t)
  BY <1>1, Zenon DEF Picked, clientVars
<1>5. \A t \in Streams : \/ handler'[t] # "check" /\ t \notin served'
                         \/ handler[t] = "check" \/ t \in served
  BY Zenon DEF Admit, IInv, ListenerTypes
<1>6. Vouched'
  BY <1>1, <1>4, <1>5, StillVouched, Zenon DEF IInv, Vouched
<1>7. QED
  BY <1>2, <1>3, <1>6, Zenon DEF IInv

------------------------------------------------------------------------------
\* Admission, on the client's side.
LEMMA ChosenStream ==
    ASSUME Routed, NEW c \in Clients, client[c].pc \in {"hello", "ack"}
    PROVE  Chosen(c) \in Streams
BY Zenon DEF Routed, Chosen, Streams, AllRoutes, Routes

LEMMA SendHelloStep ==
    ASSUME IInv, Routed, NEW c \in Clients, SendHello(c)
    PROVE  IInv'
<1> DEFINE s == Chosen(c)
<1>1. UNCHANGED <<opts, profile, att, nat, result, handler, accepted, served>>
  BY Zenon DEF SendHello, listenerVars
<1>2. /\ client' \in Race /\ client'[c].pc = "ack"
      /\ \A d \in Clients : /\ d # c => client'[d] = client[d]
                            /\ client'[d].stream = client[d].stream
                            /\ client'[d].expired = client[d].expired
                            /\ client'[d].pc = "race" <=> client[d].pc = "race"
  BY Zenon DEF SendHello, IInv, ClientTypes, Race
<1>3. s \in Streams /\ s[1] = c /\ Picked(s) /\ Hello(s) = CreateHello(profile[c], s)
  BY ChosenStream, Zenon DEF Chosen, Picked, Hello, SendHello
<1>4. ClientTypes' /\ NoRace'
  BY <1>1, <1>2, SMTT(20) DEF IInv, ClientTypes, NoRace, nativeWebRTCEnabled
<1>5. Hello(s) \in Frames
  BY <1>3 DEF IInv, WireTypes, Hellos, Frames
<1> HIDE DEF s
<1>6. /\ wire' \in [Streams -> [up : Frames, down : Frames]]
      /\ wire'[s].up = Hello(s) /\ wire'[s].down = wire[s].down
      /\ \A t \in Streams : t # s => wire'[t] = wire[t]
  <2>1. wire' = [wire EXCEPT ![s].up = Hello(s)] /\ s \in Streams
    BY <1>3, Zenon DEF SendHello, s
  <2>2. QED
    BY <2>1, <1>5, Zenon DEF IInv, WireTypes
<1>7. WireTypes' /\ ListenerTypes' /\ Slot' /\ OneServed'
  BY <1>1, <1>6, Zenon DEF IInv, WireTypes, ListenerTypes, Slot, OneServed
<1>8. KeyShared'
  BY <1>1, <1>2, Zenon DEF IInv, KeyShared
<1>9. \A t \in Streams : Picked(t)' = Picked(t)
  BY <1>2, StreamFacts, Zenon DEF Picked
<1>10. \A t \in Streams : Hello(t)' = Hello(t) /\ AckOf(t)' = AckOf(t) /\ Fits(t[1])' = Fits(t[1])
  BY <1>1, Zenon DEF Hello, AckOf, Fits
<1>11. Vouched'
  <2>1. ASSUME NEW t \in Streams PROVE FramesVouch(t)'
    <3>1. CASE t = s
      BY <1>3, <1>6, <1>9, <1>10, <3>1, Zenon DEF FramesVouch, IInv, Vouched
    <3>2. CASE t # s
      BY <1>6, <1>9, <1>10, <3>2, Zenon DEF FramesVouch, IInv, Vouched
    <3>3. QED
      BY <3>1, <3>2, Zenon
  <2>2. ASSUME NEW t \in Streams PROVE ListenerVouches(t)'
    BY <1>1, <1>9, <1>10, Zenon DEF ListenerVouches, IInv, Vouched
  <2>3. QED
    BY <2>1, <2>2, Zenon DEF Vouched
<1>12. QED
  BY <1>4, <1>7, <1>8, <1>11, Zenon DEF IInv

\* The client stops reading: an ack that is under way is gone.
LEMMA ReadingStep ==
    ASSUME IInv, NEW c \in Clients, client[c].pc # "race",
           NEW pc \in {"session", "done", "failed"},
           client' = [client EXCEPT ![c].pc = pc],
           wire' = [wire EXCEPT ![Chosen(c)].down = NoFrame],
           pc = "session" /\ opts.token => profile[c].key = Key,
           UNCHANGED <<opts, profile, att, nat, result, handler, accepted, served>>
    PROVE  IInv'
<1>1. /\ client' \in Race /\ client'[c].pc = pc
      /\ \A d \in Clients : /\ d # c => client'[d] = client[d]
                            /\ client'[d].stream = client[d].stream
                            /\ client'[d].expired = client[d].expired
                            /\ client'[d].pc = "race" <=> client[d].pc = "race"
  BY DEF IInv, ClientTypes, Race
<1>2. ClientTypes' /\ NoRace'
  BY <1>1, Zenon DEF IInv, ClientTypes, NoRace, nativeWebRTCEnabled
<1>3. /\ wire' \in [Streams -> [up : Frames, down : Frames]]
      /\ \A t \in Streams : wire'[t].up = wire[t].up /\ wire'[t].down \in {wire[t].down, NoFrame}
  <2>1. NoFrame \in Frames
    BY DEF Frames
  <2> DEFINE x == Chosen(c)
  <2>2. wire' = [wire EXCEPT ![x].down = NoFrame]
    BY Zenon
  <2> HIDE DEF x
  <2>3. wire \in [Streams -> [up : Frames, down : Frames]]
    BY Zenon DEF IInv, WireTypes
  <2>4. \A t \in Streams : wire'[t] \in {wire[t], [wire[t] EXCEPT !.down = NoFrame]}
    BY <2>2, <2>3, Zenon
  <2>5. wire' = [t \in Streams |-> wire'[t]]
    BY <2>2, <2>3, Zenon
  <2>6. \A t \in Streams : /\ wire'[t] \in [up : Frames, down : Frames]
                            /\ wire'[t].up = wire[t].up /\ wire'[t].down \in {wire[t].down, NoFrame}
    BY <2>1, <2>3, <2>4
  <2>7. QED
    BY <2>5, <2>6, Zenon
<1>4. WireTypes' /\ ListenerTypes' /\ Slot' /\ OneServed'
  BY <1>3, Zenon DEF IInv, WireTypes, ListenerTypes, Slot, OneServed
<1>5. KeyShared'
  BY <1>1, Zenon DEF IInv, KeyShared
<1>6. \A t \in Streams : Picked(t)' = Picked(t)
  BY <1>1, StreamFacts, Zenon DEF Picked
<1>7. \A t \in Streams : Hello(t)' = Hello(t) /\ AckOf(t)' = AckOf(t) /\ Fits(t[1])' = Fits(t[1])
  BY Zenon DEF Hello, AckOf, Fits
<1>8. \A t \in Streams : FramesVouch(t)'
  BY <1>3, <1>6, <1>7, Zenon DEF FramesVouch, IInv, Vouched
<1>9. \A t \in Streams : ListenerVouches(t)'
  BY <1>6, <1>7, Zenon DEF ListenerVouches, IInv, Vouched
<1>10. QED
  BY <1>2, <1>4, <1>5, <1>8, <1>9, Zenon DEF IInv, Vouched

LEMMA ReadAckStep ==
    ASSUME IInv, Routed, NEW c \in Clients, ReadAck(c)
    PROVE  IInv'
<1> DEFINE f == wire[Chosen(c)].down
<1>1. UNCHANGED <<opts, profile, att, nat, result, handler, accepted, served>>
      /\ client[c].pc = "ack" /\ f # NoFrame
  BY Zenon DEF ReadAck, listenerVars
<1>2. wire' = [wire EXCEPT ![Chosen(c)].down = NoFrame]
  BY Zenon DEF ReadAck, Shut
<1>3. CASE VerifyAck(profile[c], Chosen(c), f)
  <2>1. f = AckOf(Chosen(c))
    BY <1>1, ChosenStream, Zenon DEF IInv, Vouched, FramesVouch
  <2>2. f.mac.key = Key /\ f.mac.key = profile[c].key
    BY <1>3, <2>1 DEF AckOf, CreateAck, encode, calculateMAC, VerifyAck
  <2>3. client' = [client EXCEPT ![c].pc = "session"]
    BY <1>3, Zenon DEF ReadAck
  <2>4. QED
    BY <1>1, <1>2, <2>2, <2>3, ReadingStep, Zenon
<1>4. CASE ~VerifyAck(profile[c], Chosen(c), f)
  <2>1. client' = [client EXCEPT ![c].pc = "failed"]
    BY <1>4, Zenon DEF ReadAck, Shut
  <2>2. QED
    BY <1>1, <1>2, <2>1, ReadingStep, Zenon
<1>5. QED
  BY <1>3, <1>4, Zenon

LEMMA LeavingSteps ==
    ASSUME IInv, NEW c \in Clients, NoAck(c) \/ ClientLeaves(c)
    PROVE  IInv'
<1>1. UNCHANGED <<opts, profile, att, nat, result, handler, accepted, served>>
      /\ client[c].pc # "race" /\ wire' = [wire EXCEPT ![Chosen(c)].down = NoFrame]
  BY Zenon DEF NoAck, ClientLeaves, Shut, listenerVars
<1>2. \E pc \in {"done", "failed"} : client' = [client EXCEPT ![c].pc = pc]
  BY Zenon DEF NoAck, ClientLeaves, Shut
<1>3. QED
  BY <1>1, <1>2, ReadingStep, Zenon

------------------------------------------------------------------------------
\* The listener reads the hello of s, which is the one its client wrote.
LEMMA ServerAuthStep ==
    ASSUME IInv, NEW s \in Streams, ServerAuth(s)
    PROVE  IInv'
<1>1. UNCHANGED <<opts, profile, clientVars, accepted, served>>
  BY Zenon DEF ServerAuth, listenerVars
<1>2. wire[s].up = Hello(s) /\ Picked(s)
  BY Zenon DEF ServerAuth, IInv, Vouched, FramesVouch
<1>3. VerifyHello(Hello(s)) => Fits(s[1])
  <2>1. profile[s[1]].clock \in Int
    BY StreamFacts, SetupsAssumption DEF IInv, WireTypes, Profiles
  <2>2. Hello(s).ts = profile[s[1]].clock /\ Hello(s).mac.key = profile[s[1]].key
    BY Zenon DEF Hello, CreateHello, encode, calculateMAC
  <2>3. VerifyHello(Hello(s)) => /\ Hello(s).ts >= -MaxClockSkew /\ Hello(s).ts <= MaxClockSkew
                                 /\ Hello(s).mac.key = Key
    <3>1. VerifyHello(Hello(s)) => Hello(s).ts >= -MaxClockSkew /\ Hello(s).ts <= MaxClockSkew
      BY Zenon DEF VerifyHello
    <3>2. VerifyHello(Hello(s)) => Hello(s).mac.key = Key
      <4>1. \A k, o, ts, cn, sn : calculateMAC(k, o, ts, cn, sn).key = k
        BY Zenon DEF calculateMAC
      <4>2. VerifyHello(Hello(s)) =>
                \E ts, cn, sn : Hello(s).mac = calculateMAC(Key, "client", ts, cn, sn)
        BY Zenon DEF VerifyHello
      <4>3. QED
        BY <4>1, <4>2
    <3>3. QED
      BY <3>1, <3>2, Zenon
  <2>4. QED
    BY <2>1, <2>2, <2>3, SkewAssumption DEF Fits
<1>4. Hello(s) \in Hellos /\ NoFrame \in Frames
  BY StreamFacts DEF Hello, Hellos, IInv, WireTypes, Frames
<1>5. AckOf(s) \in Frames
  BY <1>4 DEF AckOf, Frames
<1>6. /\ wire' \in [Streams -> [up : Frames, down : Frames]]
      /\ wire'[s].up = NoFrame /\ wire'[s].down \in {NoFrame, AckOf(s)}
      /\ \A t \in Streams : t # s => wire'[t] = wire[t]
  <2> DEFINE a == IF VerifyHello(wire[s].up) /\ end[s] = "open"
                  THEN CreateAck(wire[s].up, s) ELSE NoFrame
  <2>1. wire' = [wire EXCEPT ![s] = [up |-> NoFrame, down |-> a]]
    BY Zenon DEF ServerAuth
  <2>2. a \in {NoFrame, AckOf(s)} /\ a \in Frames
    BY <1>2, <1>4, <1>5, Zenon DEF AckOf
  <2> HIDE DEF a
  <2>3. QED
    BY <2>1, <2>2, <1>4, Zenon DEF IInv, WireTypes
<1>7. /\ handler' \in [Streams -> {"none", "auth", "check", "session", "close", "closed"}]
      /\ handler'[s] = "check" => VerifyHello(Hello(s))
      /\ \A t \in Streams : t # s => handler'[t] = handler[t]
  BY <1>2, Zenon DEF ServerAuth, IInv, ListenerTypes
<1>8. ClientTypes' /\ NoRace' /\ WireTypes' /\ ListenerTypes' /\ Slot' /\ OneServed' /\ KeyShared'
  BY <1>1, <1>6, <1>7, Zenon
     DEF IInv, ClientTypes, NoRace, WireTypes, ListenerTypes, Slot, OneServed, KeyShared, clientVars
<1>9. \A t \in Streams : /\ Picked(t)' = Picked(t) /\ Hello(t)' = Hello(t)
                         /\ AckOf(t)' = AckOf(t) /\ Fits(t[1])' = Fits(t[1])
  BY <1>1, Zenon DEF Picked, Hello, AckOf, Fits, clientVars
<1>10. ASSUME NEW t \in Streams PROVE FramesVouch(t)' /\ ListenerVouches(t)'
  <2>1. CASE t = s
    <3>1. FramesVouch(s)'
      BY <1>6, <1>9, Zenon DEF FramesVouch
    <3>2. ListenerVouches(s)'
      BY <1>1, <1>2, <1>3, <1>7, <1>9, Zenon DEF ListenerVouches, IInv, Vouched
    <3>3. QED
      BY <2>1, <3>1, <3>2, Zenon
  <2>2. CASE t # s
    BY <1>1, <1>6, <1>7, <1>9, <2>2, Zenon DEF FramesVouch, ListenerVouches, IInv, Vouched
  <2>3. QED
    BY <2>1, <2>2, Zenon
<1>11. QED
  BY <1>8, <1>10, Zenon DEF IInv, Vouched

------------------------------------------------------------------------------
LEMMA RoutedStep ==
    ASSUME IInv, Routed, Next
    PROVE  Routed'
<1>1. ASSUME NEW c \in Clients, Libp2pUp(c) \/ (\E r \in Routes(c) : DialFails(<<c, r>>)) \/ RaceExpires(c)
      PROVE  Routed'
  <2>1. UNCHANGED <<nat, result>>
    BY <1>1, Zenon DEF Libp2pUp, DialFails, RaceExpires
  <2>2. UNCHANGED client \/ Return(c, "failed", "none") \/ Return(c, AfterOpen, Libp2p)
    BY <1>1, Zenon DEF Libp2pUp, DialFails, RaceExpires
  <2>3. QED
    BY <2>1, <2>2, SMTT(30) DEF Routed, Return, IInv, ClientTypes, Race, Routes
<1>2. ASSUME NEW c \in Clients, NEW r \in Sessions[c], SessionUp(<<c, r>>)
      PROVE  Routed'
  <2>1. /\ UNCHANGED <<client, nat>> /\ r # "none"
        /\ result' = result \/ result' = [result EXCEPT ![c] = r]
    BY <1>2, NamesAssumption, Zenon DEF SessionUp
  <2>2. CASE result' = result
    BY <2>1, <2>2, Zenon DEF Routed
  <2>3. CASE result' = [result EXCEPT ![c] = r]
    BY <2>1, <2>3, Zenon DEF Routed, IInv, ClientTypes
  <2>4. QED
    BY <2>1, <2>2, <2>3, Zenon
<1>3. ASSUME NEW c \in Clients,
             ConnectWins(c) \/ ConnectFails(c) \/ ConnectExpires(c) \/ NativeLoses(c) \/ Libp2pLoses(c)
      PROVE  Routed'
  BY <1>3, Zenon DEF ConnectWins, ConnectFails, ConnectExpires, NativeLoses, Libp2pLoses, Routed, IInv, ClientTypes
<1>4. ASSUME NEW c \in Clients, ReceiveLibp2p(c) \/ ReceiveNative(c) \/ DialExpires(c)
      PROVE  Routed'
  <2>1. UNCHANGED result /\ (nat' = nat \/ nat' = [nat EXCEPT ![c] = "end"])
    BY <1>4, Zenon DEF ReceiveLibp2p, ReceiveNative, DialExpires
  <2>2. \/ client' = [client EXCEPT ![c].failures = @ + 1]
        \/ client' = [client EXCEPT ![c].expired = TRUE, ![c].raced = TRUE]
        \/ \E r \in Routes(c) \cup {"none"} :
              Return(c, "failed", "none") \/ (r # "none" /\ Return(c, AfterOpen, r))
    BY <1>4, Zenon DEF ReceiveLibp2p, ReceiveNative, DialExpires, OneFailure, Routed, Routes, Libp2p
  <2>3. CASE \/ client' = [client EXCEPT ![c].failures = @ + 1]
             \/ client' = [client EXCEPT ![c].expired = TRUE, ![c].raced = TRUE]
    <3>1. \A d \in Clients : client'[d].pc = client[d].pc /\ client'[d].stream = client[d].stream
      BY <2>3 DEF IInv, ClientTypes, Race
    <3>2. \A d \in Clients : nat'[d] = "up" => nat[d] = "up"
      BY <2>1 DEF IInv, ClientTypes
    <3>3. QED
      BY <2>1, <3>1, <3>2, Zenon DEF Routed
  <2>4. CASE \E r \in Routes(c) \cup {"none"} :
                Return(c, "failed", "none") \/ (r # "none" /\ Return(c, AfterOpen, r))
    <3>1. \A d \in Clients : d # c => client'[d] = client[d]
      BY <2>4, Zenon DEF Return, IInv, ClientTypes, Race
    <3>2. client'[c].pc = "failed" \/ client'[c].stream \in Routes(c)
      BY <2>4 DEF Return, IInv, ClientTypes, Race
    <3>3. QED
      BY <2>1, <3>1, <3>2, Zenon DEF Routed, IInv, ClientTypes
  <2>5. QED
    BY <2>2, <2>3, <2>4, Zenon
<1>5. ASSUME NEW c \in Clients, Authenticating(c) \/ ClientLeaves(c)
      PROVE  Routed'
  <2>1. UNCHANGED <<nat, result>>
    BY <1>5, Zenon DEF Authenticating, SendHello, ReadAck, NoAck, ClientLeaves
  <2>2. client[c].pc \in {"hello", "ack", "session"}
        /\ \E pc \in {"ack", "session", "failed", "done"} :
              (pc = "ack" => client[c].pc = "hello") /\ client' = [client EXCEPT ![c].pc = pc]
    BY <1>5, Zenon DEF Authenticating, SendHello, ReadAck, NoAck, ClientLeaves, Shut
  <2>3. QED
    BY <2>1, <2>2 DEF Routed, IInv, ClientTypes, Race
<1>6. ASSUME UNCHANGED clientVars
      PROVE  Routed'
  BY <1>6, Zenon DEF Routed, clientVars
<1>7. ASSUME NEW s \in Streams, Serving(s) \/ SessionEnds(s)
      PROVE  UNCHANGED clientVars
  BY <1>7, Zenon DEF Serving, SessionEnds, ServerAuth, AuthFails, Admit, CloseStream
<1>8. QED
  BY <1>1, <1>2, <1>3, <1>4, <1>5, <1>6, <1>7, Zenon
     DEF Next, Dialling, Racing, ListenerReturns, ListenerCancelled, Exit

LEMMA Initial == Init => IInv /\ Routed
<1> SUFFICES ASSUME Init PROVE IInv /\ Routed
  BY Zenon
<1>1. PICK u \in Setups : opts = u.opts /\ profile = u.profile
  BY Zenon DEF Init
<1>2. ClientTypes /\ ListenerTypes
  <2>1. client \in Race
    BY DEF Init, Race, Names
  <2>2. /\ result \in [Clients -> Names]
        /\ nat \in [Clients -> {"off", "connect", "up", "err", "end"}]
        /\ att \in [Streams -> {"dial", "up", "err", "end"}]
    BY Zenon DEF Init, Names
  <2>3. ListenerTypes
    BY Zenon DEF Init, ListenerTypes
  <2>4. QED
    BY <2>1, <2>2, <2>3, Zenon DEF ClientTypes
<1>7. NoRace /\ Routed
  BY StreamFacts, Zenon DEF Init, NoRace, Routed, nativeWebRTCEnabled
<1>3. WireTypes
  BY <1>1, SetupsAssumption DEF Init, WireTypes, Frames, Profiles
<1>4. Vouched
  BY Zenon DEF Init, Vouched, FramesVouch, ListenerVouches
<1>5. Slot /\ OneServed /\ KeyShared
  BY Zenon DEF Init, Slot, OneServed, KeyShared
<1>6. QED
  BY <1>2, <1>3, <1>4, <1>5, <1>7, Zenon DEF IInv

LEMMA Inductive == IInv /\ Routed /\ [Next]_vars => (IInv /\ Routed)'
<1> SUFFICES ASSUME IInv, Routed, [Next]_vars PROVE (IInv /\ Routed)'
  BY Zenon
<1>1. CASE UNCHANGED vars
  <2>1. \A t \in Streams : /\ Picked(t)' = Picked(t) /\ Hello(t)' = Hello(t)
                           /\ AckOf(t)' = AckOf(t) /\ Fits(t[1])' = Fits(t[1])
    BY <1>1, Zenon DEF vars, Picked, Hello, AckOf, Fits, clientVars
  <2>2. QED
    BY <1>1, <2>1, ZenonT(30) DEF vars, clientVars, listenerVars, IInv, Routed, ClientTypes, ListenerTypes,
       WireTypes, NoRace, Vouched, FramesVouch, ListenerVouches, Slot, OneServed, KeyShared
<1>2. CASE Next
  <2>1. ASSUME NEW c \in Clients, Dialling(c) PROVE IInv'
    BY <2>1, Libp2pUpStep, SessionUpStep, DialFailsStep, ConnectSteps, Zenon DEF Dialling
  <2>2. ASSUME NEW c \in Clients, Racing(c) PROVE IInv'
    BY <2>2, RacingSteps, ConnectSteps, Zenon DEF Racing
  <2>3. ASSUME NEW c \in Clients, Authenticating(c) \/ ClientLeaves(c) PROVE IInv'
    BY <2>3, SendHelloStep, ReadAckStep, LeavingSteps, Zenon DEF Authenticating
  <2>4. ASSUME NEW s \in Streams, Serving(s) \/ SessionEnds(s) PROVE IInv'
    BY <2>4, ServerAuthStep, ListenerSteps, AdmitStep, Zenon DEF Serving
  <2>5. ASSUME ListenerReturns \/ ListenerCancelled PROVE IInv'
    BY <2>5, ExitStep, Zenon DEF ListenerReturns, ListenerCancelled
  <2>6. IInv'
    BY <1>2, <2>1, <2>2, <2>3, <2>4, <2>5, Zenon DEF Next
  <2>7. QED
    BY <1>2, <2>6, RoutedStep, Zenon
<1>3. QED
  BY <1>1, <1>2, Zenon

LEMMA Invariance == Spec => [](IInv /\ Routed)
BY Initial, Inductive, PTL DEF Spec

------------------------------------------------------------------------------
\* ChosenServed: runListener, with a token, serves only streams that their clients
\* chose, of clients that hold the token and whose clocks agree with the listener's.
THEOREM ChosenServedHolds == Spec => []ChosenServed
<1>1. IInv => ChosenServed
  BY Zenon DEF IInv, ListenerTypes, Vouched, ListenerVouches, Picked, Fits, ChosenServed
<1>2. QED
  BY <1>1, Invariance, PTL

\* SlotNotLost: accepted, the one session of a listener that is not persistent, is
\* set only together with a session that is served.
THEOREM SlotNotLostHolds == Spec => []SlotNotLost
<1>1. IInv => SlotNotLost
  BY Zenon DEF IInv, Slot, SlotNotLost
<1>2. QED
  BY <1>1, Invariance, PTL

\* OneServed: a listener without -k serves at most one stream, however many reach
\* handleStream at once.
THEOREM OneServedHolds == Spec => []OneServed
BY Invariance, PTL DEF IInv

\* KeyShared: with a token, a client whose admission succeeded shares the key of
\* the listener: authentication is mutual.
THEOREM KeySharedHolds == Spec => []KeyShared
BY Invariance, PTL DEF IInv
==============================================================================
