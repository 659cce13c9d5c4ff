------------------------------- MODULE Startup -------------------------------
(***************************************************************************)
(* internal/cli, internal/identity and internal/daemon: commands of one    *)
(* user that start at the same time and share the identity file, the       *)
(* encrypted and the unlocked token file and the logical ports of          *)
(* ListenerLock.  A listener, a tunnel of the daemon, `id`, `token         *)
(* --encrypt-to` and `token unlock` each run their stages in the order of  *)
(* the code; any of them may fail at a system call or die between two.     *)
(***************************************************************************)
EXTENDS ListenerLock, Naturals, Sequences, FiniteSets

CONSTANTS Cmds,        \* names of commands; also the keys and secrets they make
          CallerOf,    \* the goroutine that holds a command's port lock, or None
          Scenarios,   \* which commands run, with which arguments and files
          MaxFaults    \* system calls that fail, and commands that die

ASSUME ScenariosAssumption ==
    \A s \in Scenarios :
        /\ DOMAIN s.run \subseteq Cmds
        /\ DOMAIN s.stored = {"identity", "enc", "tok"}
        /\ s.stored["identity"].is # "whole" => s.stored["identity"].data = None

VARIABLES
    scn,      \* the scenario: [run, flags, stored, free, expires]
    files,    \* files[p]: the file at path p
    cmd,      \* cmd[c]: where command c is and what it has loaded
    expired,  \* the expiration time of the expiring tokens has passed
    late,     \* history: the listeners that had their last check before them by then
    faults    \* failures so far

svars == <<mutex, paths, flock, pc, want, lock, scn, files, cmd, expired, late, faults>>
own == <<scn, files, cmd, expired, late, faults>>

Paths == {"identity", "enc", "tok"}
Absent == [is |-> "absent", data |-> None, by |-> None]
Program == [listen |-> <<"options", "load", "acquire", "key", "check", "node", "serve">>,
            tunnel |-> <<"key", "load", "acquire", "serve">>,
            id     |-> <<"key">>,
            token  |-> <<"key", "issue", "write">>,
            unlock |-> <<"open", "write">>]
Stages == UNION {{Program[k][i] : i \in 1..Len(Program[k])} : k \in DOMAIN Program}
             \cup {"closing", "ended", "dead"}

\* A token text that names no port is one that Decode refuses.
Damaged == [peer |-> None, service |-> None, secret |-> None, expiring |-> FALSE]
Named(text) == text = Damaged \/ text.service \in Services

\* A listener or a tunnel has a goroutine of its own; ports are given as the
\* options and the token files give them.
ASSUME PortsAssumption ==
    /\ 1 \in Services
    /\ CallerOf \in [Cmds -> Callers \cup {None}]
    /\ \A c, d \in Cmds : CallerOf[c] # None /\ CallerOf[c] = CallerOf[d] => c = d
    /\ \A s \in Scenarios :
          /\ s.free \subseteq Callers
          /\ s.stored["tok"].is = "whole" => Named(s.stored["tok"].data)
          /\ s.stored["enc"].is = "whole" => Named(s.stored["enc"].data.token)
          /\ \A c \in DOMAIN s.run :
                /\ s.run[c].kind \in DOMAIN Program
                /\ CallerOf[c] # None <=> s.run[c].kind \in {"listen", "tunnel"}
                /\ CallerOf[c] \notin s.free
                /\ s.run[c].service \in Services \cup {None}
                /\ s.run[c].kind \in {"tunnel", "token"} => s.run[c].service # None
                /\ \A t \in {s.run[c].inline, s.run[c].env} : t = None \/ Named(t)

Running == {c \in DOMAIN scn.run : cmd[c].at \notin {"ended", "dead"}}
Arg(c) == scn.run[c]
Holders == {c \in DOMAIN scn.run : CallerOf[c] # None}

------------------------------------------------------------------------------
\* validateOptions, over the set of flags that were given.
Needs(o, f, S) == f \in o => S \cap o # {}
Excludes(o, f, S) == f \in o => S \cap o = {}

RangesOK(o) ==
    /\ "outOfRange" \notin o
    /\ Needs(o, "udpIdle", {"udp"})
    /\ Excludes(o, "ipv4", {"ipv6"})

ModesOKLoose(o) ==
    /\ Needs(o, "udp", {"port"})
    /\ Excludes(o, "udp", {"socks", "interactive", "zero", "exec", "quitDelay"})
    /\ \A f \in {"keepOpen", "exec", "destination", "socks"} : Needs(o, f, {"listen"})
    /\ Excludes(o, "exec", {"port", "destination"})
    /\ Needs(o, "destination", {"port"})
    /\ Excludes(o, "interactive", {"exec", "socks", "port", "destination"})
    /\ Excludes(o, "zero", {"listen", "port"})
    /\ Excludes(o, "quitDelay", {"port", "socks", "interactive", "zero", "exec"})

ModesOK(o) ==
    /\ Needs(o, "udp", {"port"})
    /\ Excludes(o, "udp", {"socks", "interactive", "zero", "exec", "quitDelay"})
    /\ \A f \in {"keepOpen", "exec", "destination", "socks"} : Needs(o, f, {"listen"})
    /\ Excludes(o, "exec", {"port", "destination", "socks"})
    /\ Needs(o, "destination", {"port"})
    /\ Excludes(o, "socks", {"destination", "port"})
    /\ Excludes(o, "interactive", {"exec", "socks", "port", "destination"})
    /\ Excludes(o, "zero", {"listen", "port"})
    /\ Excludes(o, "quitDelay", {"port", "socks", "interactive", "zero", "exec"})

TransportOK(o) ==
    /\ Excludes(o, "tor", {"listen", "relayUDP", "upstream"}) /\ Needs(o, "tor", {"relay"})
    /\ Excludes(o, "allowNative", {"noWebRTC", "tor"})
    /\ Excludes(o, "secondArg", {"listen"})

privilegedListenerMode(o) == o \cap {"interactive", "exec", "socks", "port"} # {}

AccessOK(o) ==
    /\ "allow" \in o => "listen" \in o /\ privilegedListenerMode(o)
    /\ "listen" \in o /\ privilegedListenerMode(o) => o \cap {"token", "allow"} # {}

validateOptions(o) == RangesOK(o) /\ ModesOK(o) /\ TransportOK(o) /\ AccessOK(o)

\* The order of runServerSession's switch decides what a listener serves.
runServerSession(o) ==
    IF "udp" \in o              THEN "UDPForward"
    ELSE IF "interactive" \in o THEN "PTYServer"
    ELSE IF "socks" \in o       THEN "SOCKS"
    ELSE IF "port" \in o        THEN "TCPForward"
    ELSE IF "exec" \in o        THEN "Exec"
    ELSE "Bridge"

------------------------------------------------------------------------------
\* The stages of a command.
After(c) ==
    LET p == Program[Arg(c).kind]
        i == CHOOSE j \in 1..Len(p) : p[j] = cmd[c].at
    IN  IF i = Len(p) THEN "ended" ELSE p[i + 1]

Put(c, r) == cmd' = [cmd EXCEPT ![c] = r]
Go(c, r) == Put(c, [r EXCEPT !.at = After(c), !.sub = ""])
Sub(c, s) == Put(c, [cmd[c] EXCEPT !.sub = s])
\* A return with an error runs the deferred Close of a lock that was taken.
Left(c) == IF CallerOf[c] # None /\ lock[CallerOf[c]] # None THEN "closing" ELSE "ended"
Return(c) == Put(c, [cmd[c] EXCEPT !.at = Left(c), !.sub = ""])
ReturnUnlocked(c) == Put(c, [cmd[c] EXCEPT !.at = "ended", !.sub = ""])

Fault == faults < MaxFaults /\ faults' = faults + 1
Quiet == UNCHANGED <<vars, scn, expired, late>>

ReadOptions(c) ==
    /\ cmd[c].at = "options"
    /\ IF validateOptions(scn.flags) /\ "listen" \in scn.flags
       THEN Go(c, cmd[c]) ELSE Return(c)
    /\ Quiet /\ UNCHANGED <<files, faults>>

\* LoadOrCreate: the file is opened and read, or found missing.  An empty or
\* unreadable file is an error, never a reason to create a new key.
OpenIdentity(c) ==
    /\ cmd[c].at = "key" /\ cmd[c].sub = ""
    /\ CASE files["identity"].is = "whole" -> Go(c, [cmd[c] EXCEPT !.key = files["identity"].data])
         [] files["identity"].is = "empty" -> Return(c)
         [] OTHER -> Sub(c, "create")
    /\ Quiet /\ UNCHANGED <<files, faults>>

IdentityUnreadable(c) ==
    /\ cmd[c].at = "key" /\ cmd[c].sub \in {"", "create"}
    /\ Fault /\ Return(c)
    /\ Quiet /\ UNCHANGED files

CreateIdentityKeeping(c) ==
    /\ cmd[c].at = "key" /\ cmd[c].sub = "create"
    /\ IF files["identity"].is = "absent"
       THEN /\ files' = [files EXCEPT !["identity"] = [is |-> "empty", data |-> None, by |-> c]]
            /\ Sub(c, "write")
       ELSE Go(c, [cmd[c] EXCEPT !.key = c]) /\ UNCHANGED files
    /\ Quiet /\ UNCHANGED faults

CreateIdentityInsisting(c) ==
    /\ cmd[c].at = "key" /\ cmd[c].sub = "create"
    /\ files["identity"].is = "absent"
    /\ files' = [files EXCEPT !["identity"] = [is |-> "empty", data |-> None, by |-> c]]
    /\ Sub(c, "write")
    /\ Quiet /\ UNCHANGED faults

\* O_CREATE|O_EXCL: who loses the race starts LoadOrCreate again.
CreateIdentity(c) ==
    /\ cmd[c].at = "key" /\ cmd[c].sub = "create"
    /\ IF files["identity"].is = "absent"
       THEN /\ files' = [files EXCEPT !["identity"] = [is |-> "empty", data |-> None, by |-> c]]
            /\ Sub(c, "write")
       ELSE Sub(c, "") /\ UNCHANGED files
    /\ Quiet /\ UNCHANGED faults

WriteIdentity(c) ==
    /\ cmd[c].at = "key" /\ cmd[c].sub = "write"
    /\ \/ /\ files' = [files EXCEPT !["identity"] = [is |-> "whole", data |-> c, by |-> c]]
          /\ Sub(c, "protect")
          /\ UNCHANGED faults
       \/ /\ Fault
          /\ files' = [files EXCEPT !["identity"] = Absent]
          /\ Return(c)
    /\ Quiet

\* Protect and Close.  When one fails the key is withdrawn although another
\* command may have read it.
ProtectIdentity(c) ==
    /\ cmd[c].at = "key" /\ cmd[c].sub = "protect"
    /\ \/ Go(c, [cmd[c] EXCEPT !.key = c]) /\ UNCHANGED <<files, faults>>
       \/ /\ Fault
          /\ files' = [files EXCEPT !["identity"] = Absent]
          /\ Put(c, [cmd[c] EXCEPT !.at = Left(c), !.sub = "", !.withdrew = TRUE])
    /\ Quiet

------------------------------------------------------------------------------
Validate(token) == ~(token.expiring /\ expired)

\* readPairingTokenFile and the daemon's readTokenFile: the text of a file that
\* was opened, or nothing when it is missing.
readPairingTokenFile == IF files["tok"].is = "absent" THEN None ELSE files["tok"]
TextOf(file) == IF file.is = "whole" THEN file.data ELSE Damaged

\* loadToken: the sources that are there must agree before the one text is decoded.
\* They are compared in the random order of a map, and the first one with nothing:
\* an empty file beside another source passes when it comes first.
LoadToken(c) ==
    LET a     == Arg(c)
        file  == readPairingTokenFile
        empty == a.fromFile /\ file # None /\ file.is = "empty"
        texts == ({a.inline, a.env} \ {None})
                    \cup (IF a.fromFile /\ file # None /\ ~empty THEN {TextOf(file)} ELSE {})
    IN  /\ a.kind = "listen" /\ cmd[c].at = "load"
        /\ \/ /\ \/ a.fromFile /\ file = None
                 \/ empty
                 \/ Cardinality(texts) > 1
                 \/ \E t \in texts : t = Damaged \/ ~Validate(t)
              /\ Return(c)
           \/ /\ texts = {} /\ ~a.fromFile
              /\ Go(c, [cmd[c] EXCEPT !.service = IF a.service # None THEN a.service ELSE 1])
           \/ \E t \in texts :
                 /\ ~(a.fromFile /\ file = None) /\ texts = {t} /\ t # Damaged /\ Validate(t)
                 /\ Go(c, [cmd[c] EXCEPT !.token = t,
                                         !.service = IF a.service # None THEN a.service ELSE t.service])
        /\ Quiet /\ UNCHANGED <<files, faults>>

\* loadTunnelToken: the daemon's server tunnel names its port itself.
loadTunnelToken(c) ==
    LET file == readPairingTokenFile
    IN  /\ Arg(c).kind = "tunnel" /\ cmd[c].at = "load"
        /\ CASE ~Arg(c).fromFile -> Go(c, [cmd[c] EXCEPT !.service = Arg(c).service])
             [] Arg(c).fromFile /\ (file = None \/ TextOf(file) = Damaged) -> Return(c)
             [] OTHER -> IF Validate(TextOf(file))
                         THEN Go(c, [cmd[c] EXCEPT !.token = TextOf(file), !.service = Arg(c).service])
                         ELSE Return(c)
        /\ Quiet /\ UNCHANGED <<files, faults>>

\* Acquire, in the steps of ListenerLock; a port the process already lists is
\* refused at once.
AcquirePort(c) ==
    /\ cmd[c].at = "acquire"
    /\ \/ AcquireEnter(CallerOf[c], cmd[c].service) /\ UNCHANGED cmd
       \/ /\ pc[CallerOf[c]] = "idle" /\ mutex[ProcOf[CallerOf[c]]] = None
          /\ cmd[c].service \in paths[ProcOf[CallerOf[c]]]
          /\ Return(c) /\ UNCHANGED vars
       \/ AcquireFlock(CallerOf[c]) /\ UNCHANGED cmd
       \/ AcquireFail(CallerOf[c]) /\ Return(c)
       \/ AcquireInsert(CallerOf[c]) /\ Go(c, cmd[c])
    /\ UNCHANGED <<scn, files, expired, late, faults>>

validateOwner(c) == cmd[c].token.peer = cmd[c].key /\ Validate(cmd[c].token)

validateTokenFor(c) ==
    /\ cmd[c].token.peer = cmd[c].key
    /\ cmd[c].token.service = cmd[c].service
    /\ Validate(cmd[c].token)

CheckToken(c) ==
    /\ cmd[c].at = "check"
    /\ IF cmd[c].token # None /\ ~validateTokenFor(c) THEN Return(c) ELSE Go(c, cmd[c])
    /\ Quiet /\ UNCHANGED <<files, faults>>

StartNodeLeaking(c) ==
    /\ cmd[c].at = "node"
    /\ \/ Go(c, cmd[c]) /\ UNCHANGED faults
       \/ Fault /\ ReturnUnlocked(c)
    /\ Quiet /\ UNCHANGED files

StartNode(c) ==
    /\ cmd[c].at = "node"
    /\ \/ Go(c, cmd[c]) /\ UNCHANGED faults
       \/ Fault /\ Return(c)
    /\ Quiet /\ UNCHANGED files

StopServing(c) ==
    /\ cmd[c].at = "serve"
    /\ Return(c)
    /\ Quiet /\ UNCHANGED <<files, faults>>

ClosePort(c) ==
    /\ cmd[c].at = "closing"
    /\ \/ CloseEnter(CallerOf[c]) /\ UNCHANGED cmd
       \/ CloseUnlock(CallerOf[c]) /\ UNCHANGED cmd
       \/ CloseDelete(CallerOf[c]) /\ ReturnUnlocked(c)
    /\ UNCHANGED <<scn, files, expired, late, faults>>

------------------------------------------------------------------------------
validateTokenPasswordSize(text) == text \notin {"short", "long"}

\* readTokenPassword: a size within the limits and, when confirmed at the
\* terminal, typed twice alike.
readTokenPassword(p, confirm) ==
    /\ validateTokenPasswordSize(p.text)
    /\ p.from = "terminal" /\ confirm => p.again = p.text
    /\ p.from # "pipe"

\* pairing.New: a fresh secret for the key that was loaded.
New(c) == [peer |-> cmd[c].key, service |-> Arg(c).service, secret |-> c,
           expiring |-> Arg(c).expiring]

\* tokenfile.Encrypt and Decrypt: the envelope opens with the password it was
\* made with, and only as a whole.
Encrypt(token, password) == [token |-> token, password |-> password]
Decrypts(file, password) == file.is = "whole" /\ file.data.password = password

IssueToken(c) ==
    /\ cmd[c].at = "issue"
    /\ IF Validate(New(c)) /\ readTokenPassword(Arg(c).password, TRUE)
       THEN Go(c, [cmd[c] EXCEPT !.out = Encrypt(New(c), Arg(c).password.text)])
       ELSE Return(c)
    /\ Quiet /\ UNCHANGED <<files, faults>>

readEncryptedTokenFile == IF files["enc"].is = "absent" THEN None ELSE files["enc"]

OpenEncrypted(c) ==
    /\ cmd[c].at = "open"
    /\ IF /\ readEncryptedTokenFile # None
          /\ readTokenPassword(Arg(c).password, FALSE)
          /\ Decrypts(readEncryptedTokenFile, Arg(c).password.text)
       THEN Go(c, [cmd[c] EXCEPT !.out = files["enc"].data.token])
       ELSE Return(c)
    /\ Quiet /\ UNCHANGED <<files, faults>>

OutPath(c) == IF Arg(c).kind = "token" THEN "enc" ELSE "tok"

\* writeExclusiveTokenFile: a file that exists is never touched.
CreateTokenFile(c) ==
    /\ cmd[c].at = "write" /\ cmd[c].sub = ""
    /\ IF files[OutPath(c)].is = "absent"
       THEN /\ files' = [files EXCEPT ![OutPath(c)] = [is |-> "empty", data |-> None, by |-> c]]
            /\ Sub(c, "write")
       ELSE Return(c) /\ UNCHANGED files
    /\ Quiet /\ UNCHANGED faults

WriteTokenFile(c) ==
    /\ cmd[c].at = "write" /\ cmd[c].sub \in {"write", "protect"}
    /\ \/ /\ cmd[c].sub = "write"
          /\ files' = [files EXCEPT ![OutPath(c)] = [is |-> "whole", data |-> cmd[c].out, by |-> c]]
          /\ Sub(c, "protect")
          /\ UNCHANGED faults
       \/ cmd[c].sub = "protect" /\ Go(c, cmd[c]) /\ UNCHANGED <<files, faults>>
       \/ /\ Fault
          /\ files' = [files EXCEPT ![OutPath(c)] = Absent]
          /\ Return(c)
    /\ Quiet

------------------------------------------------------------------------------
\* A command dies with its process: the kernel drops its port, files stay.
Crash(c) ==
    LET gone == IF CallerOf[c] = None THEN {c}
                ELSE {d \in Holders : ProcOf[CallerOf[d]] = ProcOf[CallerOf[c]]}
    IN  /\ Fault
        /\ cmd' = [d \in Cmds |-> IF d \in gone \cap Running
                                  THEN [cmd[d] EXCEPT !.at = "dead", !.sub = ""] ELSE cmd[d]]
        /\ IF CallerOf[c] = None THEN UNCHANGED vars ELSE Die(ProcOf[CallerOf[c]])
        /\ UNCHANGED <<scn, files, expired, late>>

\* The other goroutines that take and close ports.
OtherCaller ==
    /\ \/ \E k \in scn.free : Step(k)
       \/ \E p \in Procs : /\ \A c \in Holders : ProcOf[CallerOf[c]] # p
                           /\ Die(p)
    /\ UNCHANGED own

Expire ==
    /\ ~expired /\ scn.expires
    /\ expired' = TRUE
    /\ late' = {c \in Running : Arg(c).kind = "listen" /\ cmd[c].at \notin {"node", "serve", "closing"}}
    /\ UNCHANGED <<vars, scn, files, cmd, faults>>

SInit ==
    /\ Init
    /\ scn \in Scenarios
    /\ files = [p \in Paths |-> scn.stored[p]]
    /\ cmd = [c \in Cmds |-> [at |-> IF c \in DOMAIN scn.run THEN Program[scn.run[c].kind][1] ELSE "ended",
                              sub |-> "", key |-> None, token |-> None, service |-> None,
                              out |-> None, withdrew |-> FALSE]]
    /\ expired = FALSE /\ late = {} /\ faults = 0

Work(c) ==
    \/ ReadOptions(c)
    \/ OpenIdentity(c)
    \/ CreateIdentity(c)
    \/ WriteIdentity(c)
    \/ ProtectIdentity(c)
    \/ LoadToken(c)
    \/ loadTunnelToken(c)
    \/ AcquirePort(c)
    \/ CheckToken(c)
    \/ StartNode(c)
    \/ ClosePort(c)
    \/ IssueToken(c)
    \/ OpenEncrypted(c)
    \/ CreateTokenFile(c)
    \/ WriteTokenFile(c)

SNext ==
    \/ \E c \in Running : Work(c) \/ IdentityUnreadable(c) \/ StopServing(c) \/ Crash(c)
    \/ OtherCaller
    \/ Expire

SafeSpec == SInit /\ [][SNext]_svars

\* A runnable goroutine runs, a call inside the mutex ends, and sync.Mutex lets
\* a waiter in even while others keep taking it.  Serving need never stop.
SSpec ==
    /\ SafeSpec
    /\ \A c \in Cmds : SF_svars(c \in Running /\ Work(c))
    /\ \A k \in Callers :
          WF_svars(k \in scn.free /\ pc[k] # "idle" /\ Step(k) /\ UNCHANGED own)

------------------------------------------------------------------------------
\* Commands are at a stage of their program, files are as their writers leave
\* them and a file under construction belongs to the command that creates it.
StartupTypeOK ==
    /\ expired \in BOOLEAN /\ late \subseteq Cmds /\ faults \in 0..MaxFaults
    /\ \A p \in Paths : /\ files[p].is \in {"absent", "empty", "whole"}
                        /\ files[p].is = "whole" <=> files[p].data # None
    /\ \A c \in Cmds : /\ cmd[c].at \in Stages
                       /\ cmd[c].sub \in {"", "create", "write", "protect"}
                       /\ cmd[c].key \in Cmds \cup {"old", None}
                       /\ cmd[c].service \in Services \cup {None}
    /\ \A c \in Running : cmd[c].sub \in {"write", "protect"} =>
           files[IF cmd[c].at = "key" THEN "identity" ELSE OutPath(c)].by = c

\* However many commands make their first start together, all of them use one
\* identity, and it is the one on disk (identity.go:42-119): a key that differs
\* was withdrawn by its maker, whose Protect or Close failed after another
\* command had read it.
KeysAgree ==
    \A c \in Cmds : cmd[c].key # None =>
        \/ files["identity"].data = cmd[c].key
        \/ cmd[c].key \in Cmds /\ cmd[cmd[c].key].withdrew

\* A listener serves only with the lock of its logical port, and with a token
\* only if the token was made for its own key and for that port and did not expire
\* while the listener waited for its port and its key, whichever of the three
\* sources it came from and whatever the token file went through
\* (root.go:265-310, 735-770).
TokenServed ==
    \A c \in Running : Arg(c).kind = "listen" /\ cmd[c].at = "serve" =>
        /\ lock[CallerOf[c]] = cmd[c].service
        /\ cmd[c].token # None => /\ cmd[c].token.peer = cmd[c].key
                                  /\ cmd[c].token.service = cmd[c].service
                                  /\ c \in late => ~cmd[c].token.expiring

\* A command that returned holds no port, whichever stage refused it
\* (root.go:279-309: the deferred Close runs on every return).
PortGivenBack ==
    \A c \in Holders : cmd[c].at = "ended" =>
        lock[CallerOf[c]] = None /\ pc[CallerOf[c]] = "idle"

\* An accepted listener was asked for one mode, runServerSession serves that one
\* although its switch orders the modes differently, and a privileged mode has a
\* token or the explicit consent of the user (root.go:170-263, 660-702).
ModeClear ==
    LET o == scn.flags
        modes == {m \in {"udp", "interactive", "socks", "exec"} : m \in o}
                    \cup (IF "port" \in o /\ "udp" \notin o THEN {"tcp"} ELSE {})
        serves == [udp |-> "UDPForward", interactive |-> "PTYServer", socks |-> "SOCKS",
                   tcp |-> "TCPForward", exec |-> "Exec"]
    IN  validateOptions(o) /\ "listen" \in o =>
            /\ {runServerSession(o)} = IF modes = {} THEN {"Bridge"} ELSE {serves[m] : m \in modes}
            /\ "quitDelay" \in o => modes = {}
            /\ modes # {} => o \cap {"token", "allow"} # {}

\* A file that its creator finished is never changed or removed by a command
\* that comes later, succeeds or fails (identity.go:97, token_files.go:178).
FilesStable ==
    [][\A p \in Paths : files[p].is = "whole" /\ (files[p].by \in Cmds => cmd[files[p].by].sub # "protect")
                            => files'[p] = files[p]]_svars

\* No command waits for another for ever: each ends or comes to serve, although
\* commands race for the same files and ports.
Terminates == \A c \in Cmds : <>(cmd[c].at \in {"serve", "ended", "dead"})
==============================================================================
