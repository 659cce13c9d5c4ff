------------------------------ MODULE MCStartup ------------------------------
(* Two processes with port locks, A (two goroutines) and B, and commands of *)
(* their own processes.                                                     *)
EXTENDS Startup, TLC

CONSTANTS a1, a2, b1, A, B

MCProcOf == (a1 :> A) @@ (a2 :> A) @@ (b1 :> B)
MCCmds == {"listen", "tunnel", "id", "token", "token2", "unlock"}
MCCallerOf == [c \in MCCmds |-> CASE c = "listen" -> b1 [] c = "tunnel" -> a1 [] OTHER -> None]

Password(t) == [from |-> "file", text |-> t, again |-> t]
Typed(t, u) == [from |-> "terminal", text |-> t, again |-> u]
Piped == [from |-> "pipe", text |-> "pw", again |-> "pw"]
Plain(k) == [kind |-> k, service |-> None, inline |-> None, env |-> None,
             fromFile |-> FALSE, expiring |-> FALSE, password |-> Password("pw")]
Token(k, s) == [peer |-> k, service |-> s, secret |-> "old", expiring |-> FALSE]
File(d) == [is |-> "whole", data |-> d, by |-> None]

NoFiles == [p \in Paths |-> Absent]
OldKey == [NoFiles EXCEPT !["identity"] = File("old")]
OldToken == [OldKey EXCEPT !["tok"] = File([Token("old", 2) EXCEPT !.expiring = TRUE])]
Base == [run |-> <<>>, flags |-> {"listen"}, stored |-> NoFiles, free |-> {}, expires |-> FALSE]

\* Goroutines that take and close ports at will.
Ports == [Base EXCEPT !.free = Callers]

\* First start: every command wants the identity at once.
FirstStart == [Base EXCEPT !.run = [c \in {"listen", "tunnel", "id"} |-> [Plain(c) EXCEPT !.service = 1]]]

\* A token is issued and unlocked while a listener and a tunnel wait for it.
Pairing(listener, service, s, t, exp) ==
    [Base EXCEPT !.run = [c \in {listener, "token", "unlock"} |->
        [Plain(c) EXCEPT !.service = IF c = "token" THEN 2 ELSE service, !.fromFile = TRUE,
                         !.expiring = exp, !.password = IF c = "token" THEN s ELSE t]],
                 !.expires = exp, !.flags = {"listen", "port", "token"}]
Pairings ==
    {Pairing(l, v, Password("pw"), Typed("pw", "other"), e) : l \in {"listen"}, v \in {1, None}, e \in BOOLEAN}
    \cup {Pairing("tunnel", 2, Password("pw"), Password("pw"), TRUE)}
    \cup {Pairing("listen", None, s, t, FALSE) : s \in {Typed("pw", "pw")}, t \in {Password("other"), Piped}}
    \cup {Pairing("listen", None, s, Password("pw"), FALSE) :
             s \in {Password("short"), Password("long"), Typed("pw", "other"), Piped}}

\* Two issuers for one file, and an unlock onto a file that exists.
Rivals == {[Base EXCEPT !.run = [c \in {"token", "token2", "unlock"} |->
                [Plain(IF c = "token2" THEN "token" ELSE c) EXCEPT !.service = 2,
                    !.password = Password(IF c = "token2" THEN "other" ELSE "pw")]], !.stored = f] :
              f \in {NoFiles, OldToken}}

\* Tokens from three sources, and at times a second goroutine at the tunnel's port.
Sources ==
    {[Base EXCEPT !.run = [c \in {"listen", "tunnel"} |->
         [Plain(c) EXCEPT !.service = IF c = "tunnel" THEN 2 ELSE v, !.inline = i, !.env = e, !.fromFile = f]],
                  !.stored = OldToken, !.free = IF i = None THEN {a2} ELSE {}, !.expires = TRUE,
                  !.flags = IF f \/ i # None \/ e # None THEN {"listen", "token"} ELSE {"listen"}] :
        v \in {2, None}, f \in BOOLEAN, e \in {None, Token("old", 2)},
        i \in {None, Damaged, Token("old", 2), Token("old", 1), Token("id", 2)}}

\* An empty token file, as a command that died leaves it, beside the other sources.
EmptyToken == [OldKey EXCEPT !["tok"] = [is |-> "empty", data |-> None, by |-> None]]
EmptySources ==
    {[Base EXCEPT !.run = [c \in {"listen"} |-> [Plain(c) EXCEPT !.inline = i, !.env = e, !.fromFile = TRUE]],
                  !.stored = EmptyToken, !.expires = TRUE, !.flags = {"listen", "token"}] :
        i \in {None, Token("old", 2)}, e \in {None, [Token("old", 2) EXCEPT !.expiring = TRUE]}}

\* Everything a user may ask of validateOptions.
ModeFlags == {"keepOpen", "zero", "exec", "destination", "socks", "interactive", "udp",
              "port", "quitDelay", "token", "allow"}
OtherFlags == {"tor", "relay", "relayUDP", "upstream", "ipv4", "ipv6", "noWebRTC",
               "allowNative", "udpIdle", "outOfRange", "secondArg"}
Asked == {m \cup l : m \in SUBSET ModeFlags, l \in {{}, {"listen"}}}
            \cup {m \cup l : m \in SUBSET OtherFlags, l \in {{}, {"listen"}}}
Options == {[Base EXCEPT !.run = [c \in {"listen"} |-> [Plain(c) EXCEPT !.fromFile = "token" \in o]], !.flags = o] : o \in Asked}

AllScenarios == {Ports, FirstStart} \cup Pairings \cup Rivals \cup Sources \cup EmptySources \cup Options
==============================================================================
