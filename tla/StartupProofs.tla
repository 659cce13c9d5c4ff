---------------------------- MODULE StartupProofs ----------------------------
(***************************************************************************)
(* Proofs about the listener lock and about the commands that use it, for  *)
(* any number of processes, goroutines, ports, commands, scenarios and     *)
(* failures: first the lock alone (ListenerLock), then the files the       *)
(* commands share, then the ports they ask for.  The lock's inductive      *)
(* invariant ties the map, the kernel lock and the calls in progress       *)
(* together.  The files' one adds who owns a file under construction:      *)
(* between its exclusive creation and the end of Protect a file is changed *)
(* by its creator only.  The ports' one says at which stages a command has *)
(* no port, asks for one, has it or is giving it back.                     *)
(***************************************************************************)
EXTENDS Startup, TLAPS

\* The kernel lock of s belongs to c.
Holds(c, s) == lock[c] = s \/ (want[c] = s /\ pc[c] \in {"insert", "unlock"})

\* c accounts for s being listed by its process.
Lists(c, s) == lock[c] = s \/ (want[c] = s /\ pc[c] \in {"unlock", "delete"})

\* The kernel lock and the map say who is where in which call; within one
\* process the map keeps two calls for one port apart.
Linked ==
    /\ \A c \in Callers, s \in Services : flock[s] = c <=> Holds(c, s)
    /\ \A p \in Procs, s \in Services :
          s \in paths[p] <=> \E c \in Callers : ProcOf[c] = p /\ Lists(c, s)
    /\ \A c \in Callers :
          pc[c] \in {"flock", "insert"} => want[c] \notin paths[ProcOf[c]]
    /\ \A c, d \in Callers, s \in Services :
          ProcOf[c] = ProcOf[d] /\ Lists(c, s) /\ Lists(d, s) => c = d

LockInv == TypeOK /\ Linked

\* No call is under way and no port is listed when the processes start.
LEMMA LockInit == Init => LockInv
BY ProcOfAssumption, NoneAssumption DEF Init, LockInv, TypeOK, Linked, Steps, Holds, Lists

\* Each step of Acquire and Close keeps the mutex discipline and the agreement
\* of map, kernel lock and calls in progress.
LEMMA LockStep ==
    ASSUME LockInv, NEW c \in Callers, Step(c)
    PROVE  LockInv'
<1> USE ProcOfAssumption, NoneAssumption DEF LockInv, TypeOK, Linked, Steps, Holds, Lists, Enter, Leave
<1>1. CASE \E s \in Services : AcquireEnter(c, s)
  BY <1>1 DEF AcquireEnter
<1>2. CASE AcquireFlock(c)
  BY <1>2 DEF AcquireFlock
<1>3. CASE AcquireFail(c)
  BY <1>3 DEF AcquireFail
<1>4. CASE AcquireInsert(c)
  BY <1>4 DEF AcquireInsert
<1>5. CASE CloseEnter(c)
  BY <1>5 DEF CloseEnter
<1>6. CASE CloseUnlock(c)
  BY <1>6 DEF CloseUnlock
<1>7. CASE CloseDelete(c)
  BY <1>7 DEF CloseDelete
<1>8. QED
  BY <1>1, <1>2, <1>3, <1>4, <1>5, <1>6, <1>7, Zenon DEF Step

\* A process that dies takes its calls, its map and its kernel locks with it.
LEMMA LockDie ==
    ASSUME LockInv, NEW p \in Procs, Die(p)
    PROVE  LockInv'
BY ProcOfAssumption, NoneAssumption DEF LockInv, TypeOK, Linked, Steps, Holds, Lists, Die

\* LockInv is an invariant of the lock.
LEMMA LockNext ==
    ASSUME LockInv, [Next]_vars PROVE LockInv'
<1>1. CASE Next
  BY <1>1, LockStep, LockDie, Zenon DEF Next
<1>2. CASE UNCHANGED vars
  BY <1>2 DEF LockInv, TypeOK, Linked, Holds, Lists, vars
<1>3. QED
  BY <1>1, <1>2, Zenon

LEMMA LockInvariance == Spec => []LockInv
BY LockInit, LockNext, PTL DEF Spec

\* Every variable keeps its type and every call its mutex.
THEOREM TypeCorrect == Spec => []TypeOK
<1>1. LockInv => TypeOK
  BY Zenon DEF LockInv
<1>2. QED
  BY <1>1, LockInvariance, PTL

\* Acquire never hands out two open Locks for one logical port, whichever
\* processes ask and wherever they are interrupted (lock.go:35-70).
THEOREM Exclusive == Spec => []MutualExclusion
<1>1. LockInv => MutualExclusion
  BY ProcOfAssumption, NoneAssumption DEF LockInv, TypeOK, Linked, Holds, MutualExclusion
<1>2. QED
  BY <1>1, LockInvariance, PTL

\* A failed Acquire and a finished Close leave no trace in the map or in the
\* kernel (lock.go:58-69, 77-82).
THEOREM Clean == Spec => []NothingLeftBehind
<1>1. LockInv => NothingLeftBehind
  BY ProcOfAssumption, NoneAssumption DEF LockInv, TypeOK, Linked, Holds, Lists, NothingLeftBehind, Steps
<1>2. QED
  BY <1>1, LockInvariance, PTL

Claims == {k \in Callers \X Services : lock[k[1]] = k[2]}

\* Taking the Lock is Claim, entering Close is Release, and every other step of a
\* call is invisible.
LEMMA LockRefines ==
    ASSUME LockInv, LockInv', [Next]_vars
    PROVE  [Promise!Next]_Claims
<1> SUFFICES Promise!Next \/ Claims' = Claims
  BY Zenon
<1> USE ProcOfAssumption, NoneAssumption DEF LockInv, TypeOK
<1>1. ASSUME NEW c \in Callers, AcquireInsert(c)
      PROVE  Promise!Next
  <2>1. want[c] \in Services
    BY <1>1 DEF AcquireInsert
  <2>2. \A d \in Callers : lock[d] # want[c]
    BY <1>1, <2>1 DEF AcquireInsert, Linked, Holds
  <2>3. Claims' = Claims \cup {<<c, want[c]>>}
    BY <1>1, <2>1 DEF AcquireInsert, Claims
  <2>4. QED
    BY <2>1, <2>2, <2>3 DEF Promise!Next, Promise!Claim, Claims
<1>2. ASSUME NEW c \in Callers, CloseEnter(c)
      PROVE  Promise!Next
  <2>1. lock[c] \in Services
    BY <1>2 DEF CloseEnter
  <2>2. Claims' = Claims \ {<<c, lock[c]>>}
    BY <1>2, <2>1 DEF CloseEnter, Claims
  <2>3. <<c, lock[c]>> \in Claims
    BY <2>1, Zenon DEF Claims
  <2>4. QED
    BY <2>1, <2>2, <2>3, Zenon DEF Promise!Next, Promise!Release, Claims
<1>3. ASSUME NEW p \in Procs, Die(p)
      PROVE  Promise!Die(p)
  BY <1>3 DEF Die, Promise!Die
<1>4. ASSUME NEW c \in Callers, Step(c), ~ AcquireInsert(c), ~ CloseEnter(c)
      PROVE  lock' = lock
  BY <1>4, Zenon DEF Step, AcquireEnter, AcquireFlock, AcquireFail, CloseUnlock, CloseDelete
<1>5. CASE UNCHANGED vars
  BY <1>5 DEF vars, Claims
<1>6. CASE \E c \in Callers : Step(c)
  <2>1. PICK c \in Callers : Step(c)
    BY <1>6, Zenon
  <2>2. CASE AcquireInsert(c)
    BY <1>1, <2>2, Zenon
  <2>3. CASE CloseEnter(c)
    BY <1>2, <2>3, Zenon
  <2>4. CASE ~ AcquireInsert(c) /\ ~ CloseEnter(c)
    BY <1>4, <2>1, <2>4 DEF Claims
  <2>5. QED
    BY <2>2, <2>3, <2>4, Zenon
<1>7. CASE \E p \in Procs : Die(p)
  BY <1>3, <1>7, Zenon DEF Promise!Next
<1>8. QED
  BY <1>5, <1>6, <1>7, Zenon DEF Next

LEMMA NoClaims == Init => Promise!Init
BY ProcOfAssumption, NoneAssumption DEF Init, Promise!Init

\* Acquire and Close implement PortClaim.
THEOREM Implements == Spec => Refinement
BY NoClaims, LockRefines, LockInvariance, PTL DEF Spec, Refinement, Promise!Spec, Claims

------------------------------------------------------------------------------
\* The files.
CmdFields == {"at", "sub", "key", "token", "service", "out", "withdrew"}
IsCmd(r) == r = [f \in CmdFields |-> r[f]]

\* The file a command is creating.
Under(c) == IF cmd[c].at = "key" THEN "identity" ELSE OutPath(c)

Shape ==
    /\ DOMAIN scn.run \subseteq Cmds
    /\ files = [p \in Paths |-> files[p]]
    /\ cmd = [c \in Cmds |-> cmd[c]]
    /\ \A c \in Cmds : IsCmd(cmd[c])

Owned ==
    \A c \in Cmds : cmd[c].sub \in {"write", "protect"} =>
        /\ files[Under(c)].by = c
        /\ files[Under(c)].is = IF cmd[c].sub = "write" THEN "empty" ELSE "whole"
        /\ cmd[c].at = "key" /\ cmd[c].sub = "protect" => files["identity"].data = c

NoKeyWithoutFile == files["identity"].is # "whole" => files["identity"].data = None

IInv == Shape /\ Owned /\ NoKeyWithoutFile /\ KeysAgree

StableStep ==
    \A p \in Paths : files[p].is = "whole" /\ (files[p].by \in Cmds => cmd[files[p].by].sub # "protect")
                         => files'[p] = files[p]

------------------------------------------------------------------------------
\* A command moves on without holding or taking a file: the invariant stays.
LEMMA Passive ==
    ASSUME IInv, NEW c \in Cmds, NEW r, Put(c, r), IsCmd(r), UNCHANGED <<scn, files>>,
           r.sub \in {"", "create"}, r.withdrew = cmd[c].withdrew,
           r.key = cmd[c].key \/ r.key = files["identity"].data
    PROVE  IInv' /\ StableStep
<1>1. /\ cmd'[c] = r
      /\ \A d \in Cmds : d # c => cmd'[d] = cmd[d]
      /\ cmd' = [d \in Cmds |-> cmd'[d]]
  BY Zenon DEF IInv, Shape, Put
<1>2. Shape'
  BY <1>1, Zenon DEF IInv, Shape
<1>3. Owned'
  <2> SUFFICES ASSUME NEW d \in Cmds, cmd'[d].sub \in {"write", "protect"}
               PROVE  /\ files'[Under(d)'].by = d
                      /\ files'[Under(d)'].is = IF cmd'[d].sub = "write" THEN "empty" ELSE "whole"
                      /\ cmd'[d].at = "key" /\ cmd'[d].sub = "protect" => files'["identity"].data = d
    BY Zenon DEF Owned
  <2>1. d # c /\ cmd'[d] = cmd[d]
    <3>1. d # c
      BY <1>1, Zenon
    <3>2. QED
      BY <1>1, <3>1, Zenon
  <2>2. Under(d)' = Under(d)
    BY <2>1, Zenon DEF Under, OutPath, Arg
  <2>3. QED
    BY <2>1, <2>2, Zenon DEF IInv, Owned
<1>4. \A d \in Cmds : cmd'[d].withdrew = cmd[d].withdrew
  BY <1>1, Zenon
<1>5. KeysAgree'
  BY <1>1, <1>4, Zenon DEF IInv, KeysAgree
<1>6. QED
  BY <1>2, <1>3, <1>5, Zenon DEF IInv, NoKeyWithoutFile, StableStep

------------------------------------------------------------------------------
\* The three ways in which a command leaves the files alone.
LEMMA Goes ==
    ASSUME IInv, NEW c \in Cmds, NEW r, IsCmd(r), Go(c, r), UNCHANGED <<scn, files>>,
           r.withdrew = cmd[c].withdrew,
           r.key = cmd[c].key \/ r.key = files["identity"].data
    PROVE  IInv' /\ StableStep
<1> DEFINE q == [r EXCEPT !.at = After(c), !.sub = ""]
<1>1. IsCmd(q) /\ q.sub = "" /\ q.withdrew = r.withdrew /\ q.key = r.key
  BY Zenon DEF IsCmd, CmdFields
<1>2. Put(c, q)
  BY Zenon DEF Go
<1> HIDE DEF q
<1> QED BY <1>1, <1>2, Passive, Zenon

LEMMA Advances ==
    ASSUME IInv, NEW c \in Cmds, Go(c, cmd[c]), UNCHANGED <<scn, files>>
    PROVE  IInv' /\ StableStep
BY Goes, Zenon DEF IInv, Shape

LEMMA Returns ==
    ASSUME IInv, NEW c \in Cmds, Return(c), UNCHANGED <<scn, files>>
    PROVE  IInv' /\ StableStep
<1> DEFINE q == [cmd[c] EXCEPT !.at = Left(c), !.sub = ""]
<1>1. IsCmd(cmd[c])
  BY Zenon DEF IInv, Shape
<1>2. IsCmd(q) /\ q.sub = "" /\ q.withdrew = cmd[c].withdrew /\ q.key = cmd[c].key
  BY <1>1, Zenon DEF IsCmd, CmdFields
<1>3. Put(c, q)
  BY Zenon DEF Return
<1> HIDE DEF q
<1> QED BY <1>2, <1>3, Passive, Zenon

LEMMA Stays ==
    ASSUME IInv, UNCHANGED <<scn, files, cmd>>
    PROVE  IInv' /\ StableStep
<1>1. \A d : Under(d)' = Under(d)
  BY Zenon DEF Under, OutPath, Arg
<1>2. Owned'
  BY <1>1, Zenon DEF IInv, Owned
<1> QED BY <1>2, Zenon DEF IInv, Shape, NoKeyWithoutFile, KeysAgree, StableStep

------------------------------------------------------------------------------
\* A file that is absent is created, empty, by the command that then owns it.
LEMMA Creates ==
    ASSUME IInv, NEW c \in Cmds, NEW p \in Paths, p = Under(c), files[p].is = "absent",
           files' = [files EXCEPT ![p] = [is |-> "empty", data |-> None, by |-> c]],
           Sub(c, "write"), UNCHANGED scn
    PROVE  IInv' /\ StableStep
<1> DEFINE q == [cmd[c] EXCEPT !.sub = "write"]
<1>1. IsCmd(cmd[c])
  BY Zenon DEF IInv, Shape
<1>2. /\ IsCmd(q) /\ q.sub = "write" /\ q.at = cmd[c].at
      /\ q.withdrew = cmd[c].withdrew /\ q.key = cmd[c].key
  BY <1>1, Zenon DEF IsCmd, CmdFields
<1>3. /\ cmd'[c] = q
      /\ \A d \in Cmds : d # c => cmd'[d] = cmd[d]
      /\ cmd' = [d \in Cmds |-> cmd'[d]]
  BY Zenon DEF IInv, Shape, Put, Sub
<1> HIDE DEF q
<1>4. /\ files'[p] = [is |-> "empty", data |-> None, by |-> c]
      /\ \A x \in Paths : x # p => files'[x] = files[x]
      /\ files' = [x \in Paths |-> files'[x]]
  BY Zenon DEF IInv, Shape
<1>5. Shape'
  BY <1>2, <1>3, <1>4, Zenon DEF IInv, Shape
<1>6. \A d \in Cmds : Under(d)' = Under(d) /\ Under(d) \in Paths
  BY <1>2, <1>3 DEF Under, OutPath, Arg, Paths
<1>7. \A d \in Cmds : d # c /\ cmd[d].sub \in {"write", "protect"} => Under(d) # p
  BY Zenon DEF IInv, Owned
<1>8. Owned'
  BY <1>2, <1>3, <1>4, <1>6, <1>7 DEF IInv, Owned, Under
<1>9. NoKeyWithoutFile'
  BY <1>4, Zenon DEF IInv, NoKeyWithoutFile, Paths
<1>10. KeysAgree'
  BY <1>2, <1>3, <1>4 DEF IInv, NoKeyWithoutFile, KeysAgree, Paths
<1> QED BY <1>4, <1>5, <1>8, <1>9, <1>10, Zenon DEF IInv, StableStep

\* The owner of an empty file fills it.
LEMMA Fills ==
    ASSUME IInv, NEW c \in Cmds, NEW p \in Paths, p = Under(c), NEW x, cmd[c].sub = "write",
           p = "identity" => x = c, p = "identity" <=> cmd[c].at = "key",
           files' = [files EXCEPT ![p] = [is |-> "whole", data |-> x, by |-> c]],
           Sub(c, "protect"), UNCHANGED scn
    PROVE  IInv' /\ StableStep
<1> DEFINE q == [cmd[c] EXCEPT !.sub = "protect"]
<1>1. IsCmd(cmd[c])
  BY Zenon DEF IInv, Shape
<1>2. /\ IsCmd(q) /\ q.sub = "protect" /\ q.at = cmd[c].at
      /\ q.withdrew = cmd[c].withdrew /\ q.key = cmd[c].key
  BY <1>1, Zenon DEF IsCmd, CmdFields
<1>3. /\ cmd'[c] = q
      /\ \A d \in Cmds : d # c => cmd'[d] = cmd[d]
      /\ cmd' = [d \in Cmds |-> cmd'[d]]
  BY Zenon DEF IInv, Shape, Put, Sub
<1> HIDE DEF q
<1>4. /\ files'[p] = [is |-> "whole", data |-> x, by |-> c]
      /\ \A y \in Paths : y # p => files'[y] = files[y]
      /\ files' = [y \in Paths |-> files'[y]]
  BY Zenon DEF IInv, Shape
<1>5. Shape'
  BY <1>2, <1>3, <1>4, Zenon DEF IInv, Shape
<1>6. \A d \in Cmds : Under(d)' = Under(d) /\ Under(d) \in Paths
  BY <1>2, <1>3 DEF Under, OutPath, Arg, Paths
<1>7. files[p].is = "empty" /\ files[p].by = c
  BY Zenon DEF IInv, Owned
<1>8. \A d \in Cmds : d # c /\ cmd[d].sub \in {"write", "protect"} => Under(d) # p
  BY <1>7 DEF IInv, Owned
<1>9. Owned'
  BY <1>2, <1>3, <1>4, <1>6, <1>8 DEF IInv, Owned, Under
<1>10. NoKeyWithoutFile'
  BY <1>4, Zenon DEF IInv, NoKeyWithoutFile, Paths
<1>11. KeysAgree'
  BY <1>2, <1>3, <1>4, <1>7 DEF IInv, NoKeyWithoutFile, KeysAgree, Paths
<1>12. StableStep
  <2> SUFFICES ASSUME NEW y \in Paths, files[y].is = "whole",
                      files[y].by \in Cmds => cmd[files[y].by].sub # "protect"
               PROVE  files'[y] = files[y]
    BY Zenon DEF StableStep
  <2>1. y # p
    BY <1>7, Zenon
  <2>2. QED
    BY <1>4, <2>1, Zenon
<1> QED BY <1>5, <1>9, <1>10, <1>11, <1>12, Zenon DEF IInv

\* The owner removes what it could not finish, and withdraws a key it wrote.
LEMMA Drops ==
    ASSUME IInv, NEW c \in Cmds, NEW p \in Paths, p = Under(c), NEW q, IsCmd(q),
           cmd[c].sub \in {"write", "protect"}, p = "identity" <=> cmd[c].at = "key",
           files' = [files EXCEPT ![p] = Absent],
           Put(c, q), q.sub = "", q.key = cmd[c].key, UNCHANGED scn,
           q.withdrew = cmd[c].withdrew \/ q.withdrew = TRUE,
           p = "identity" /\ cmd[c].sub = "protect" => q.withdrew = TRUE
    PROVE  IInv' /\ StableStep
<1>3. /\ cmd'[c] = q
      /\ \A d \in Cmds : d # c => cmd'[d] = cmd[d]
      /\ cmd' = [d \in Cmds |-> cmd'[d]]
  BY Zenon DEF IInv, Shape, Put
<1>4. /\ files'[p] = Absent /\ Absent.is = "absent" /\ Absent.data = None
      /\ \A y \in Paths : y # p => files'[y] = files[y]
      /\ files' = [y \in Paths |-> files'[y]]
  BY Zenon DEF IInv, Shape, Absent
<1>5. Shape'
  BY <1>3, <1>4, Zenon DEF IInv, Shape
<1>6. \A d \in Cmds : Under(d) \in Paths /\ (d # c => Under(d)' = Under(d))
  BY <1>3, Zenon DEF Under, OutPath, Arg, Paths
<1>7. files[p].by = c /\ files[p].is = IF cmd[c].sub = "write" THEN "empty" ELSE "whole"
  BY Zenon DEF IInv, Owned
<1>8. \A d \in Cmds : d # c /\ cmd[d].sub \in {"write", "protect"} => Under(d) # p
  <2> SUFFICES ASSUME NEW d \in Cmds, cmd[d].sub \in {"write", "protect"}, Under(d) = p PROVE d = c
    BY Zenon
  <2>1. files[Under(d)].by = d
    BY Zenon DEF IInv, Owned
  <2> QED BY <1>7, <2>1, Zenon
<1>9. Owned'
  <2> SUFFICES ASSUME NEW d \in Cmds, cmd'[d].sub \in {"write", "protect"}
               PROVE  /\ files'[Under(d)'].by = d
                      /\ files'[Under(d)'].is = IF cmd'[d].sub = "write" THEN "empty" ELSE "whole"
                      /\ cmd'[d].at = "key" /\ cmd'[d].sub = "protect" => files'["identity"].data = d
    BY Zenon DEF Owned
  <2>1. d # c /\ cmd'[d] = cmd[d] /\ Under(d)' = Under(d) /\ Under(d) # p
    BY <1>3, <1>6, <1>8, Zenon
  <2>2. files'[Under(d)] = files[Under(d)]
    BY <2>1, <1>4, <1>6, Zenon
  <2>3. cmd[d].at = "key" => Under(d) = "identity"
    BY Zenon DEF Under
  <2>4. /\ files[Under(d)].by = d
        /\ files[Under(d)].is = IF cmd[d].sub = "write" THEN "empty" ELSE "whole"
        /\ cmd[d].at = "key" /\ cmd[d].sub = "protect" => files["identity"].data = d
    BY <2>1, Zenon DEF IInv, Owned
  <2>5. files'[Under(d)'] = files[Under(d)]
    BY <2>1, <2>2, Zenon
  <2>6. cmd[d].at = "key" => files'["identity"] = files["identity"]
    BY <2>2, <2>3, Zenon
  <2> QED BY <2>1, <2>4, <2>5, <2>6, Zenon
<1>10. NoKeyWithoutFile'
  BY <1>4, Zenon DEF IInv, NoKeyWithoutFile, Paths
<1>11. KeysAgree'
  <2> SUFFICES ASSUME NEW d \in Cmds, cmd'[d].key # None
               PROVE  \/ files'["identity"].data = cmd'[d].key
                      \/ cmd'[d].key \in Cmds /\ cmd'[cmd'[d].key].withdrew
    BY Zenon DEF KeysAgree
  <2>1. cmd'[d].key = cmd[d].key
    BY <1>3, Zenon
  <2>2. \A e \in Cmds : cmd[e].withdrew => cmd'[e].withdrew
    BY <1>3, Zenon
  <2>3. CASE cmd[d].key \in Cmds /\ cmd[cmd[d].key].withdrew
    BY <2>1, <2>2, <2>3, Zenon
  <2>4. CASE files["identity"].data = cmd[d].key
    <3>1. CASE p # "identity"
      BY <3>1, <1>4, <2>1, <2>4, Zenon DEF Paths
    <3>2. CASE p = "identity" /\ cmd[c].sub = "protect"
      BY <3>2, <1>3, <2>1, <2>4, Zenon DEF IInv, Owned
    <3>3. CASE p = "identity" /\ cmd[c].sub = "write"
      BY <3>3, <1>7, <2>1, <2>4, Zenon DEF IInv, NoKeyWithoutFile
    <3> QED BY <3>1, <3>2, <3>3, Zenon
  <2> QED BY <2>1, <2>3, <2>4, Zenon DEF IInv, KeysAgree
<1>12. StableStep
  <2> SUFFICES ASSUME NEW y \in Paths, files[y].is = "whole",
                      files[y].by \in Cmds => cmd[files[y].by].sub # "protect"
               PROVE  files'[y] = files[y]
    BY Zenon DEF StableStep
  <2>1. y # p
    BY <1>7, Zenon
  <2>2. QED
    BY <1>4, <2>1, Zenon
<1> QED BY <1>5, <1>9, <1>10, <1>11, <1>12, Zenon DEF IInv

------------------------------------------------------------------------------
\* One lemma per action, or per group of actions that only move a command on.
LEMMA LoadSteps ==
    ASSUME IInv, NEW c \in Cmds, LoadToken(c) \/ loadTunnelToken(c)
    PROVE  IInv' /\ StableStep
<1> DEFINE s(v) == [cmd[c] EXCEPT !.service = v]
           t(x, v) == [cmd[c] EXCEPT !.token = x, !.service = v]
<1>1. IsCmd(cmd[c]) /\ UNCHANGED <<scn, files>>
  BY Zenon DEF IInv, Shape, LoadToken, loadTunnelToken, Quiet
<1>2. \A v : IsCmd(s(v)) /\ s(v).withdrew = cmd[c].withdrew /\ s(v).key = cmd[c].key
  BY <1>1, Zenon DEF IsCmd, CmdFields
<1>3. \A x, v : IsCmd(t(x, v)) /\ t(x, v).withdrew = cmd[c].withdrew /\ t(x, v).key = cmd[c].key
  BY <1>1, Zenon DEF IsCmd, CmdFields
<1>4. Return(c) \/ (\E v : Go(c, s(v))) \/ (\E x, v : Go(c, t(x, v)))
  <2>1. CASE LoadToken(c)
    BY <2>1, Zenon DEF LoadToken
  <2>2. CASE loadTunnelToken(c)
    BY <2>2, Zenon DEF loadTunnelToken
  <2> QED BY <2>1, <2>2, Zenon
<1> HIDE DEF s, t
<1>5. CASE Return(c)
  BY <1>1, <1>5, Returns, Zenon
<1>6. CASE \E v : Go(c, s(v))
  BY <1>1, <1>2, <1>6, Goes, Zenon
<1>7. CASE \E x, v : Go(c, t(x, v))
  BY <1>1, <1>3, <1>7, Goes, Zenon
<1> QED BY <1>4, <1>5, <1>6, <1>7, Zenon

LEMMA TokenSteps ==
    ASSUME IInv, NEW c \in Cmds, IssueToken(c) \/ OpenEncrypted(c)
    PROVE  IInv' /\ StableStep
<1> DEFINE o(v) == [cmd[c] EXCEPT !.out = v]
<1>1. IsCmd(cmd[c]) /\ UNCHANGED <<scn, files>>
  BY Zenon DEF IInv, Shape, IssueToken, OpenEncrypted, Quiet
<1>2. \A v : IsCmd(o(v)) /\ o(v).withdrew = cmd[c].withdrew /\ o(v).key = cmd[c].key
  BY <1>1, Zenon DEF IsCmd, CmdFields
<1>3. Return(c) \/ \E v : Go(c, o(v))
  BY Zenon DEF IssueToken, OpenEncrypted
<1> HIDE DEF o
<1> QED BY <1>1, <1>2, <1>3, Returns, Goes, Zenon

LEMMA ListenSteps ==
    ASSUME IInv, NEW c \in Cmds,
           ReadOptions(c) \/ CheckToken(c) \/ StartNode(c) \/ StopServing(c) \/ IdentityUnreadable(c)
    PROVE  IInv' /\ StableStep
<1>1. UNCHANGED <<scn, files>> /\ (Go(c, cmd[c]) \/ Return(c))
  BY Zenon DEF ReadOptions, CheckToken, StartNode, StopServing, IdentityUnreadable, Quiet
<1> QED BY <1>1, Advances, Returns, Zenon

LEMMA PortSteps ==
    ASSUME IInv, NEW c \in Cmds, AcquirePort(c) \/ ClosePort(c)
    PROVE  IInv' /\ StableStep
<1>1. UNCHANGED <<scn, files>>
  BY Zenon DEF AcquirePort, ClosePort
<1>2. CASE AcquirePort(c)
  <2>1. UNCHANGED cmd \/ Return(c) \/ Go(c, cmd[c])
    BY <1>2, Zenon DEF AcquirePort
  <2> QED BY <1>1, <2>1, Stays, Returns, Advances, Zenon
<1>3. CASE ClosePort(c)
  <2> DEFINE q == [cmd[c] EXCEPT !.at = "ended", !.sub = ""]
  <2>1. UNCHANGED cmd \/ Put(c, q)
    BY <1>3, Zenon DEF ClosePort, ReturnUnlocked
  <2>2. IsCmd(q) /\ q.sub = "" /\ q.withdrew = cmd[c].withdrew /\ q.key = cmd[c].key
    BY Zenon DEF IInv, Shape, IsCmd, CmdFields
  <2> HIDE DEF q
  <2> QED BY <1>1, <2>1, <2>2, Stays, Passive, Zenon
<1> QED BY <1>2, <1>3, Zenon

LEMMA IdentitySteps ==
    ASSUME IInv, NEW c \in Cmds,
           OpenIdentity(c) \/ CreateIdentity(c) \/ WriteIdentity(c) \/ ProtectIdentity(c)
    PROVE  IInv' /\ StableStep
<1> DEFINE k(v) == [cmd[c] EXCEPT !.key = v]
           u(v) == [cmd[c] EXCEPT !.sub = v]
           q == [cmd[c] EXCEPT !.at = Left(c), !.sub = "", !.withdrew = TRUE]
           r == [cmd[c] EXCEPT !.at = Left(c), !.sub = ""]
<1>1. /\ IsCmd(cmd[c]) /\ UNCHANGED scn /\ cmd[c].at = "key"
      /\ Under(c) = "identity" /\ "identity" \in Paths
  BY Zenon DEF IInv, Shape, OpenIdentity, CreateIdentity, WriteIdentity, ProtectIdentity, Quiet, Under, Paths
<1>2. \A v : IsCmd(k(v)) /\ k(v).withdrew = cmd[c].withdrew /\ k(v).key = v
  BY <1>1, Zenon DEF IsCmd, CmdFields
<1>3. \A v : IsCmd(u(v)) /\ u(v).sub = v /\ u(v).withdrew = cmd[c].withdrew /\ u(v).key = cmd[c].key
  BY <1>1, Zenon DEF IsCmd, CmdFields
<1>4. IsCmd(q) /\ q.sub = "" /\ q.withdrew = TRUE /\ q.key = cmd[c].key
  BY <1>1, Zenon DEF IsCmd, CmdFields
<1>5. IsCmd(r) /\ r.sub = "" /\ r.withdrew = cmd[c].withdrew /\ r.key = cmd[c].key
  BY <1>1, Zenon DEF IsCmd, CmdFields
<1>6. CASE OpenIdentity(c)
  <2>1. UNCHANGED <<scn, files>> /\ (Go(c, k(files["identity"].data)) \/ Return(c) \/ Put(c, u("create")))
    BY <1>6, Zenon DEF OpenIdentity, Quiet, Sub
  <2> HIDE DEF k, u
  <2> QED BY <2>1, <1>2, <1>3, Goes, Returns, Passive, Zenon
<1>7. CASE CreateIdentity(c)
  <2>1. CASE files["identity"].is = "absent"
    BY <1>1, <1>7, <2>1, Creates, Zenon DEF CreateIdentity
  <2>2. CASE files["identity"].is # "absent"
    <3>1. UNCHANGED <<scn, files>> /\ Put(c, u(""))
      BY <1>7, <2>2, Zenon DEF CreateIdentity, Quiet, Sub
    <3> HIDE DEF u
    <3> QED BY <3>1, <1>3, Passive, Zenon
  <2> QED BY <2>1, <2>2, Zenon
<1>8. CASE WriteIdentity(c)
  <2>1. cmd[c].sub = "write"
    BY <1>8, Zenon DEF WriteIdentity
  <2>2. CASE /\ files' = [files EXCEPT !["identity"] = [is |-> "whole", data |-> c, by |-> c]]
             /\ Sub(c, "protect")
    BY <1>1, <2>1, <2>2, Fills, Zenon
  <2>3. CASE files' = [files EXCEPT !["identity"] = Absent] /\ Return(c)
    <3>1. Put(c, r)
      BY <2>3, Zenon DEF Return
    <3> HIDE DEF r
    <3> QED BY <1>1, <1>5, <2>1, <2>3, <3>1, Drops, Zenon
  <2> QED BY <1>8, <2>2, <2>3, Zenon DEF WriteIdentity
<1>9. CASE ProtectIdentity(c)
  <2>1. cmd[c].sub = "protect" /\ files["identity"].data = c
    BY <1>1, <1>9, Zenon DEF ProtectIdentity, IInv, Owned
  <2>2. CASE Go(c, k(c)) /\ UNCHANGED files
    <3> HIDE DEF k
    <3> QED BY <1>1, <1>2, <2>1, <2>2, Goes
  <2>3. CASE files' = [files EXCEPT !["identity"] = Absent] /\ Put(c, q)
    <3> HIDE DEF q
    <3> QED BY <1>1, <1>4, <2>1, <2>3, Drops, Zenon
  <2> QED BY <1>9, <2>2, <2>3, Zenon DEF ProtectIdentity
<1> QED BY <1>6, <1>7, <1>8, <1>9, Zenon

LEMMA TokenFileSteps ==
    ASSUME IInv, NEW c \in Cmds, CreateTokenFile(c) \/ WriteTokenFile(c)
    PROVE  IInv' /\ StableStep
<1> DEFINE r == [cmd[c] EXCEPT !.at = Left(c), !.sub = ""]
<1>1. /\ IsCmd(cmd[c]) /\ UNCHANGED scn /\ cmd[c].at = "write"
      /\ Under(c) = OutPath(c) /\ OutPath(c) \in Paths /\ OutPath(c) # "identity"
  BY Zenon DEF IInv, Shape, CreateTokenFile, WriteTokenFile, Quiet, Under, OutPath, Paths
<1>2. IsCmd(r) /\ r.sub = "" /\ r.withdrew = cmd[c].withdrew /\ r.key = cmd[c].key
  BY <1>1, Zenon DEF IsCmd, CmdFields
<1>3. CASE CreateTokenFile(c)
  <2>1. CASE files[OutPath(c)].is = "absent"
    BY <1>1, <1>3, <2>1, Creates, Zenon DEF CreateTokenFile
  <2>2. CASE files[OutPath(c)].is # "absent"
    BY <1>1, <1>3, <2>2, Returns, Zenon DEF CreateTokenFile
  <2> QED BY <2>1, <2>2, Zenon
<1>4. CASE WriteTokenFile(c)
  <2>1. cmd[c].sub \in {"write", "protect"}
    BY <1>4, Zenon DEF WriteTokenFile
  <2>2. CASE /\ cmd[c].sub = "write" /\ Sub(c, "protect")
             /\ files' = [files EXCEPT ![OutPath(c)] = [is |-> "whole", data |-> cmd[c].out, by |-> c]]
    BY <1>1, <2>2, Fills, Zenon
  <2>3. CASE Go(c, cmd[c]) /\ UNCHANGED files
    BY <1>1, <2>3, Advances, Zenon
  <2>4. CASE files' = [files EXCEPT ![OutPath(c)] = Absent] /\ Return(c)
    <3>1. Put(c, r)
      BY <2>4, Zenon DEF Return
    <3> HIDE DEF r
    <3> QED BY <1>1, <1>2, <2>1, <2>4, <3>1, Drops, Zenon
  <2> QED BY <1>4, <2>2, <2>3, <2>4, Zenon DEF WriteTokenFile
<1> QED BY <1>3, <1>4, Zenon

\* Files outlive the commands that die, finished or not.
LEMMA CrashStep ==
    ASSUME IInv, NEW c \in Cmds, Crash(c)
    PROVE  IInv' /\ StableStep
<1> DEFINE q(d) == [cmd[d] EXCEPT !.at = "dead", !.sub = ""]
<1>1. UNCHANGED <<scn, files>>
  BY Zenon DEF Crash
<1>2. \A d \in Cmds : IsCmd(q(d)) /\ q(d).sub = "" /\ q(d).withdrew = cmd[d].withdrew /\ q(d).key = cmd[d].key
  BY ZenonT(30) DEF IInv, Shape, IsCmd, CmdFields
<1>3. \A d \in Cmds : cmd'[d] = cmd[d] \/ cmd'[d] = q(d)
  BY Zenon DEF Crash
<1>4. cmd' = [d \in Cmds |-> cmd'[d]]
  BY Zenon DEF Crash
<1> HIDE DEF q
<1>5. Shape'
  BY <1>1, <1>2, <1>3, <1>4, Zenon DEF IInv, Shape
<1>6. Owned'
  <2> SUFFICES ASSUME NEW d \in Cmds, cmd'[d].sub \in {"write", "protect"}
               PROVE  /\ files'[Under(d)'].by = d
                      /\ files'[Under(d)'].is = IF cmd'[d].sub = "write" THEN "empty" ELSE "whole"
                      /\ cmd'[d].at = "key" /\ cmd'[d].sub = "protect" => files'["identity"].data = d
    BY Zenon DEF Owned
  <2>1. cmd'[d] = cmd[d]
    BY <1>2, <1>3, Zenon
  <2>2. Under(d)' = Under(d)
    BY <1>1, <2>1, Zenon DEF Under, OutPath, Arg
  <2> QED BY <1>1, <2>1, <2>2, Zenon DEF IInv, Owned
<1>7. \A d \in Cmds : cmd'[d].key = cmd[d].key /\ cmd'[d].withdrew = cmd[d].withdrew
  BY <1>2, <1>3, Zenon
<1>8. KeysAgree'
  BY <1>1, <1>7, Zenon DEF IInv, KeysAgree
<1> QED BY <1>1, <1>5, <1>6, <1>8, Zenon DEF IInv, NoKeyWithoutFile, StableStep

------------------------------------------------------------------------------
LEMMA Begin == SInit => IInv
<1> SUFFICES ASSUME SInit PROVE IInv
  BY Zenon
<1>1. scn \in Scenarios /\ files = [p \in Paths |-> scn.stored[p]]
  BY Zenon DEF SInit
<1>2. /\ cmd = [c \in Cmds |-> cmd[c]]
      /\ \A c \in Cmds : IsCmd(cmd[c]) /\ cmd[c].sub = "" /\ cmd[c].key = None
  BY Zenon DEF SInit, IsCmd, CmdFields
<1>3. DOMAIN scn.run \subseteq Cmds
  BY <1>1, ScenariosAssumption, Zenon
<1>4. files["identity"] = scn.stored["identity"]
  BY <1>1, Zenon DEF Paths
<1>5. NoKeyWithoutFile
  BY <1>1, <1>4, ScenariosAssumption, Zenon DEF NoKeyWithoutFile
<1> QED BY <1>1, <1>2, <1>3, <1>5, Zenon DEF IInv, Shape, Owned, KeysAgree

LEMMA Preserved == IInv /\ [SNext]_svars => IInv' /\ StableStep
<1> SUFFICES ASSUME IInv, [SNext]_svars PROVE IInv' /\ StableStep
  BY Zenon
<1>1. ASSUME NEW c \in Running, Work(c) PROVE IInv' /\ StableStep
  <2>1. c \in Cmds
    BY Zenon DEF IInv, Shape, Running
  <2> QED BY <1>1, <2>1, ListenSteps, IdentitySteps, LoadSteps, PortSteps, TokenSteps, TokenFileSteps, Zenon DEF Work
<1>2. ASSUME NEW c \in Running, IdentityUnreadable(c) \/ StopServing(c) \/ Crash(c) PROVE IInv' /\ StableStep
  <2>1. c \in Cmds
    BY Zenon DEF IInv, Shape, Running
  <2> QED BY <1>2, <2>1, ListenSteps, CrashStep, Zenon
<1>3. CASE OtherCaller \/ Expire \/ UNCHANGED svars
  <2>1. UNCHANGED <<scn, files, cmd>>
    BY <1>3, Zenon DEF OtherCaller, Expire, own, svars
  <2> QED BY <2>1, Stays, Zenon
<1> QED BY <1>1, <1>2, <1>3, Zenon DEF SNext

\* For any commands started together, whatever fails: the keys they use agree
\* with the identity file unless their maker withdrew them (LoadOrCreate).
THEOREM OneIdentity == SafeSpec => []KeysAgree
<1>1. IInv => KeysAgree
  BY Zenon DEF IInv
<1> QED BY <1>1, Begin, Preserved, PTL DEF SafeSpec

\* For any commands: an identity or token file whose creator has finished is
\* never changed or removed (LoadOrCreate, writeExclusiveTokenFile).
THEOREM FinishedFilesStay == SafeSpec => FilesStable
<1>1. IInv /\ [SNext]_svars => [StableStep]_svars
  BY Preserved, Zenon
<1> QED BY <1>1, Begin, Preserved, PTL DEF SafeSpec, FilesStable, StableStep

------------------------------------------------------------------------------
\* ModeClear: validateOptions refuses every combination of flags in which the
\* switch of runServerSession would have a choice.
LEMMA Modes == ModeClear
<1> DEFINE o == scn.flags
           modes == {m \in {"udp", "interactive", "socks", "exec"} : m \in o}
                       \cup (IF "port" \in o /\ "udp" \notin o THEN {"tcp"} ELSE {})
           serves == [udp |-> "UDPForward", interactive |-> "PTYServer", socks |-> "SOCKS",
                      tcp |-> "TCPForward", exec |-> "Exec"]
<1> SUFFICES ASSUME validateOptions(o), "listen" \in o
             PROVE  /\ {runServerSession(o)} = IF modes = {} THEN {"Bridge"} ELSE {serves[m] : m \in modes}
                    /\ "quitDelay" \in o => modes = {}
                    /\ modes # {} => o \cap {"token", "allow"} # {}
  BY Zenon DEF ModeClear
<1>1. ModesOK(o) /\ AccessOK(o)
  BY Zenon DEF validateOptions
<1> HIDE DEF o
<1>2. "udp" \in o => "port" \in o /\ "socks" \notin o /\ "interactive" \notin o /\ "exec" \notin o
  BY <1>1, Zenon DEF ModesOK, Needs, Excludes
<1>3. "exec" \in o => "port" \notin o /\ "socks" \notin o
  BY <1>1, Zenon DEF ModesOK, Excludes
<1>4. "socks" \in o => "port" \notin o
  BY <1>1, Zenon DEF ModesOK, Excludes
<1>5. "interactive" \in o => "exec" \notin o /\ "socks" \notin o /\ "port" \notin o
  BY <1>1, Zenon DEF ModesOK, Excludes
<1>6. "quitDelay" \in o => "port" \notin o /\ "socks" \notin o /\ "interactive" \notin o /\ "exec" \notin o
  BY <1>1, Zenon DEF ModesOK, Excludes
<1>7. "port" \in o \/ "socks" \in o \/ "interactive" \in o \/ "exec" \in o => o \cap {"token", "allow"} # {}
  BY <1>1, Zenon DEF AccessOK, privilegedListenerMode
<1>8. CASE "udp" \in o
  <2>1. modes = {"udp"}
    BY <1>2, <1>8, Zenon
  <2>2. runServerSession(o) = "UDPForward"
    BY <1>2, <1>8, Zenon DEF runServerSession
  <2> QED BY <1>2, <1>6, <1>7, <2>1, <2>2
<1>9. CASE "interactive" \in o
  <2>1. modes = {"interactive"} /\ runServerSession(o) = "PTYServer"
    BY <1>2, <1>5, <1>9, Zenon DEF runServerSession
  <2> QED BY <1>6, <1>7, <1>9, <2>1
<1>10. CASE "socks" \in o
  <2>1. modes = {"socks"} /\ runServerSession(o) = "SOCKS"
    BY <1>2, <1>3, <1>4, <1>5, <1>10, Zenon DEF runServerSession
  <2> QED BY <1>6, <1>7, <1>10, <2>1
<1>11. CASE "exec" \in o
  <2>1. modes = {"exec"} /\ runServerSession(o) = "Exec"
    BY <1>2, <1>3, <1>5, <1>11, Zenon DEF runServerSession
  <2> QED BY <1>6, <1>7, <1>11, <2>1
<1>12. CASE "port" \in o /\ "udp" \notin o
  <2>1. modes = {"tcp"} /\ runServerSession(o) = "TCPForward"
    BY <1>3, <1>4, <1>5, <1>12, Zenon DEF runServerSession
  <2> QED BY <1>6, <1>7, <1>12, <2>1
<1>13. CASE o \cap {"udp", "interactive", "socks", "exec", "port"} = {}
  <2>1. modes = {} /\ runServerSession(o) = "Bridge"
    BY <1>13, Zenon DEF runServerSession
  <2> QED BY <2>1, Zenon
<1> QED BY <1>8, <1>9, <1>10, <1>11, <1>12, <1>13, Zenon

------------------------------------------------------------------------------
\* Where a command stands with its port, and what it has in hand, when its record
\* is r: c has not asked for the port yet or is done with it, is asking for it, has
\* it, or is giving it back.
Free(c, r) ==
    /\ \/ Arg(c).kind = "listen" /\ r.at \in {"options", "load"}
       \/ Arg(c).kind = "tunnel" /\ r.at \in {"key", "load"}
       \/ r.at \in {"ended", "dead"}
    /\ lock[CallerOf[c]] = None /\ pc[CallerOf[c]] = "idle"

Asking(c, r) ==
    /\ r.at = "acquire" /\ r.service \in Services
    /\ lock[CallerOf[c]] = None
    /\ \/ pc[CallerOf[c]] = "idle"
       \/ pc[CallerOf[c]] \in {"flock", "insert"} /\ want[CallerOf[c]] = r.service

Checked(r) == r.token # None => r.token.peer = r.key /\ r.token.service = r.service

\* A token that expires is not the one of a listener that was still to check it.
Timely(c, r) == c \in late /\ r.token # None => ~r.token.expiring

Having(c, r) ==
    /\ \/ Arg(c).kind = "listen" /\ r.at \in {"key", "check"}
       \/ Arg(c).kind = "listen" /\ r.at \in {"node", "serve"} /\ Checked(r) /\ Timely(c, r)
       \/ Arg(c).kind = "tunnel" /\ r.at = "serve"
    /\ r.service \in Services
    /\ lock[CallerOf[c]] = r.service /\ pc[CallerOf[c]] = "idle"

Returning(c, r) ==
    /\ r.at = "closing"
    /\ \/ lock[CallerOf[c]] # None /\ pc[CallerOf[c]] = "idle"
       \/ lock[CallerOf[c]] = None /\ pc[CallerOf[c]] \in {"unlock", "delete"}

\* A command without a port, and the text it is going to write.
Portless(c, r) ==
    \/ r.at \in {"ended", "dead"}
    \/ Arg(c).kind \in {"id", "token"} /\ r.at = "key"
    \/ Arg(c).kind = "token" /\ r.at = "issue"
    \/ Arg(c).kind = "unlock" /\ r.at = "open"
    \/ Arg(c).kind = "token" /\ r.at = "write" /\ Named(r.out.token)
    \/ Arg(c).kind = "unlock" /\ r.at = "write" /\ Named(r.out)

Placed(c, r) ==
    IF CallerOf[c] # None THEN Free(c, r) \/ Asking(c, r) \/ Having(c, r) \/ Returning(c, r)
    ELSE Portless(c, r)

NamedFiles ==
    /\ files["tok"].is = "whole" => Named(files["tok"].data)
    /\ files["enc"].is = "whole" => Named(files["enc"].data.token)

Ports ==
    /\ scn \in Scenarios
    /\ NamedFiles
    /\ late = {} \/ expired = TRUE
    /\ \A c \in DOMAIN scn.run : Placed(c, cmd[c])

\* What PortsAssumption says of a command of the scenario.
LEMMA Command ==
    ASSUME scn \in Scenarios, NEW c \in DOMAIN scn.run
    PROVE  /\ c \in Cmds /\ Arg(c) = scn.run[c]
           /\ CallerOf[c] # None => CallerOf[c] \in Callers
           /\ CallerOf[c] # None <=> Arg(c).kind \in {"listen", "tunnel"}
           /\ CallerOf[c] \notin scn.free /\ scn.free \subseteq Callers
           /\ Arg(c).service \in Services \cup {None}
           /\ Arg(c).kind \in {"tunnel", "token"} => Arg(c).service \in Services
           /\ \A t \in {Arg(c).inline, Arg(c).env} : t = None \/ Named(t)
           /\ \A d \in DOMAIN scn.run : CallerOf[c] # None /\ CallerOf[c] = CallerOf[d] => c = d
<1>1. DOMAIN scn.run \subseteq Cmds
  BY ScenariosAssumption, Zenon
<1>2. c \in Cmds /\ Arg(c) = scn.run[c]
  BY <1>1, Zenon DEF Arg
<1>3. CallerOf[c] \in Callers \cup {None}
  BY <1>2, PortsAssumption, Zenon
<1>4. /\ CallerOf[c] # None <=> Arg(c).kind \in {"listen", "tunnel"}
      /\ CallerOf[c] \notin scn.free /\ scn.free \subseteq Callers
      /\ Arg(c).service \in Services \cup {None}
  BY <1>2, PortsAssumption, Zenon
<1>5. Arg(c).kind \in {"tunnel", "token"} => Arg(c).service \in Services
  BY <1>2, PortsAssumption, Zenon
<1>6. \A t \in {Arg(c).inline, Arg(c).env} : t = None \/ Named(t)
  BY <1>2, PortsAssumption
<1>7. \A d \in DOMAIN scn.run : CallerOf[c] # None /\ CallerOf[c] = CallerOf[d] => c = d
  BY <1>1, <1>2, PortsAssumption, Zenon
<1>8. CallerOf[c] # None => CallerOf[c] \in Callers
  BY <1>3, Zenon
<1> QED BY <1>2, <1>4, <1>5, <1>6, <1>7, <1>8, Zenon

------------------------------------------------------------------------------
\* The order of the stages.
LEMMA Stage ==
    ASSUME NEW c, NEW p, p = Program[Arg(c).kind], \E i \in 1..Len(p) : p[i] = cmd[c].at
    PROVE  \E i \in 1..Len(p) : p[i] = cmd[c].at /\ After(c) = IF i = Len(p) THEN "ended" ELSE p[i + 1]
<1> DEFINE q == Program[Arg(c).kind]
           i == CHOOSE j \in 1..Len(q) : q[j] = cmd[c].at
<1>1. i \in 1..Len(q) /\ q[i] = cmd[c].at
  BY Zenon
<1>2. After(c) = IF i = Len(q) THEN "ended" ELSE q[i + 1]
  BY Zenon DEF After
<1> HIDE DEF i, q
<1>3. p = q
  BY Zenon DEF q
<1> QED BY <1>1, <1>2, <1>3, Zenon

LEMMA Listens ==
    ASSUME NEW c, Arg(c).kind = "listen"
    PROVE  /\ cmd[c].at = "options" => After(c) = "load"
           /\ cmd[c].at = "load" => After(c) = "acquire"
           /\ cmd[c].at = "acquire" => After(c) = "key"
           /\ cmd[c].at = "key" => After(c) = "check"
           /\ cmd[c].at = "check" => After(c) = "node"
           /\ cmd[c].at = "node" => After(c) = "serve"
<1>1. /\ Program[Arg(c).kind] = <<"options", "load", "acquire", "key", "check", "node", "serve">>
      /\ Len(Program[Arg(c).kind]) = 7
  BY DEF Program
<1>2. PICK p : p = Program[Arg(c).kind]
  BY Zenon
<1>3. p[1] = "options" /\ p[2] = "load" /\ p[3] = "acquire" /\ p[4] = "key" /\ p[5] = "check" /\ p[6] = "node" /\ p[7] = "serve"
  BY <1>1, <1>2
<1>4. Len(p) = 7
  BY <1>1, <1>2, Zenon
<1>5. CASE cmd[c].at \in {"options", "load", "acquire", "key", "check", "node"}
  <2>1. \E i \in 1..Len(p) : p[i] = cmd[c].at
    BY <1>3, <1>4, <1>5
  <2>2. \E i \in 1..Len(p) : p[i] = cmd[c].at /\ After(c) = IF i = Len(p) THEN "ended" ELSE p[i + 1]
    BY <1>2, <2>1, Stage
  <2> QED BY <1>3, <1>4, <1>5, <2>2
<1> QED BY <1>5, Zenon

LEMMA Tunnels ==
    ASSUME NEW c, Arg(c).kind = "tunnel"
    PROVE  /\ cmd[c].at = "key" => After(c) = "load"
           /\ cmd[c].at = "load" => After(c) = "acquire"
           /\ cmd[c].at = "acquire" => After(c) = "serve"
<1>1. /\ Program[Arg(c).kind] = <<"key", "load", "acquire", "serve">>
      /\ Len(Program[Arg(c).kind]) = 4
  BY DEF Program
<1>2. PICK p : p = Program[Arg(c).kind]
  BY Zenon
<1>3. p[1] = "key" /\ p[2] = "load" /\ p[3] = "acquire" /\ p[4] = "serve"
  BY <1>1, <1>2
<1>4. Len(p) = 4
  BY <1>1, <1>2, Zenon
<1>5. CASE cmd[c].at \in {"key", "load", "acquire"}
  <2>1. \E i \in 1..Len(p) : p[i] = cmd[c].at
    BY <1>3, <1>4, <1>5
  <2>2. \E i \in 1..Len(p) : p[i] = cmd[c].at /\ After(c) = IF i = Len(p) THEN "ended" ELSE p[i + 1]
    BY <1>2, <2>1, Stage
  <2> QED BY <1>3, <1>4, <1>5, <2>2
<1> QED BY <1>5, Zenon

LEMMA Identifies ==
    ASSUME NEW c, Arg(c).kind = "id"
    PROVE  /\ cmd[c].at = "key" => After(c) = "ended"
<1>1. /\ Program[Arg(c).kind] = <<"key">>
      /\ Len(Program[Arg(c).kind]) = 1
  BY DEF Program
<1>2. PICK p : p = Program[Arg(c).kind]
  BY Zenon
<1>3. p[1] = "key"
  BY <1>1, <1>2
<1>4. Len(p) = 1
  BY <1>1, <1>2, Zenon
<1>5. CASE cmd[c].at \in {"key"}
  <2>1. \E i \in 1..Len(p) : p[i] = cmd[c].at
    BY <1>3, <1>4, <1>5
  <2>2. \E i \in 1..Len(p) : p[i] = cmd[c].at /\ After(c) = IF i = Len(p) THEN "ended" ELSE p[i + 1]
    BY <1>2, <2>1, Stage
  <2> QED BY <1>3, <1>4, <1>5, <2>2
<1> QED BY <1>5, Zenon

LEMMA Issues ==
    ASSUME NEW c, Arg(c).kind = "token"
    PROVE  /\ cmd[c].at = "key" => After(c) = "issue"
           /\ cmd[c].at = "issue" => After(c) = "write"
           /\ cmd[c].at = "write" => After(c) = "ended"
<1>1. /\ Program[Arg(c).kind] = <<"key", "issue", "write">>
      /\ Len(Program[Arg(c).kind]) = 3
  BY DEF Program
<1>2. PICK p : p = Program[Arg(c).kind]
  BY Zenon
<1>3. p[1] = "key" /\ p[2] = "issue" /\ p[3] = "write"
  BY <1>1, <1>2
<1>4. Len(p) = 3
  BY <1>1, <1>2, Zenon
<1>5. CASE cmd[c].at \in {"key", "issue", "write"}
  <2>1. \E i \in 1..Len(p) : p[i] = cmd[c].at
    BY <1>3, <1>4, <1>5
  <2>2. \E i \in 1..Len(p) : p[i] = cmd[c].at /\ After(c) = IF i = Len(p) THEN "ended" ELSE p[i + 1]
    BY <1>2, <2>1, Stage
  <2> QED BY <1>3, <1>4, <1>5, <2>2
<1> QED BY <1>5, Zenon

LEMMA Unlocks ==
    ASSUME NEW c, Arg(c).kind = "unlock"
    PROVE  /\ cmd[c].at = "open" => After(c) = "write"
           /\ cmd[c].at = "write" => After(c) = "ended"
<1>1. /\ Program[Arg(c).kind] = <<"open", "write">>
      /\ Len(Program[Arg(c).kind]) = 2
  BY DEF Program
<1>2. PICK p : p = Program[Arg(c).kind]
  BY Zenon
<1>3. p[1] = "open" /\ p[2] = "write"
  BY <1>1, <1>2
<1>4. Len(p) = 2
  BY <1>1, <1>2, Zenon
<1>5. CASE cmd[c].at \in {"open", "write"}
  <2>1. \E i \in 1..Len(p) : p[i] = cmd[c].at
    BY <1>3, <1>4, <1>5
  <2>2. \E i \in 1..Len(p) : p[i] = cmd[c].at /\ After(c) = IF i = Len(p) THEN "ended" ELSE p[i + 1]
    BY <1>2, <2>1, Stage
  <2> QED BY <1>3, <1>4, <1>5, <2>2
<1> QED BY <1>5, Zenon

------------------------------------------------------------------------------
\* What a step does not touch stays in its place.
LEMMA Kept ==
    ASSUME NEW d, NEW r, UNCHANGED <<scn, late>>, Placed(d, r),
           CallerOf[d] # None => /\ lock'[CallerOf[d]] = lock[CallerOf[d]]
                                 /\ pc'[CallerOf[d]] = pc[CallerOf[d]]
                                 /\ want'[CallerOf[d]] = want[CallerOf[d]]
    PROVE  Placed(d, r)'
<1>1. Arg(d)' = Arg(d)
  BY Zenon DEF Arg
<1>2. CASE CallerOf[d] = None
  BY <1>1, <1>2, Zenon DEF Placed, Portless
<1>3. CASE CallerOf[d] # None
  <2>1. Free(d, r) => Free(d, r)'
    BY <1>1, <1>3, Zenon DEF Free
  <2>2. Asking(d, r) => Asking(d, r)'
    BY <1>3, Zenon DEF Asking
  <2>3. Having(d, r) => Having(d, r)'
    BY <1>1, <1>3, Zenon DEF Having, Timely
  <2>4. Returning(d, r) => Returning(d, r)'
    BY <1>3, Zenon DEF Returning
  <2> QED BY <1>3, <2>1, <2>2, <2>3, <2>4, Zenon DEF Placed
<1> QED BY <1>2, <1>3, Zenon

\* A command that gets a new record and leaves the locks alone.
LEMMA Puts ==
    ASSUME Shape, Ports, NEW c \in DOMAIN scn.run, NEW r, Put(c, r), Placed(c, r),
           UNCHANGED <<vars, scn, expired, late>>, NamedFiles'
    PROVE  Ports'
<1>1. lock' = lock /\ pc' = pc /\ want' = want /\ scn' = scn /\ expired' = expired /\ late' = late
  BY Zenon DEF vars
<1>2. c \in Cmds
  BY Command, Zenon DEF Ports
<1>3. cmd'[c] = r /\ \A d \in DOMAIN scn.run : d # c => cmd'[d] = cmd[d]
  BY <1>2, Zenon DEF Put, Shape
<1>4. \A d \in DOMAIN scn.run : Placed(d, cmd[d])'
  <2> SUFFICES ASSUME NEW d \in DOMAIN scn.run PROVE Placed(d, cmd[d])'
    BY Zenon
  <2>1. PICK x : x = cmd'[d]
    BY Zenon
  <2>2. Placed(d, x)
    BY <1>3, <2>1, Zenon DEF Ports
  <2>3. Placed(d, x)'
    BY <1>1, <2>2, Kept, Zenon
  <2> QED BY <2>1, <2>3, Zenon
<1>5. (late = {} \/ expired = TRUE)'
  BY <1>1, Zenon DEF Ports
<1> QED BY <1>1, <1>4, <1>5, Zenon DEF Ports

LEMMA ReturnPlaced ==
    ASSUME Ports, NEW c \in DOMAIN scn.run, NEW r, r.at = Left(c),
           cmd[c].at \notin {"acquire", "closing"}
    PROVE  Placed(c, r)
<1>1. Placed(c, cmd[c])
  BY Zenon DEF Ports
<1>2. CASE CallerOf[c] = None
  BY <1>2, Zenon DEF Left, Placed, Portless
<1>3. CASE CallerOf[c] # None
  <2>1. CASE Free(c, cmd[c])
    BY <1>3, <2>1, Zenon DEF Left, Placed, Free
  <2>2. CASE Having(c, cmd[c])
    BY <1>3, <2>2, NoneAssumption, Zenon DEF Left, Placed, Having, Returning
  <2> QED BY <1>1, <1>3, <2>1, <2>2, Zenon DEF Placed, Asking, Returning
<1> QED BY <1>2, <1>3, Zenon

LEMMA ReturnKeeps ==
    ASSUME Shape, Ports, NEW c \in DOMAIN scn.run, Return(c), UNCHANGED <<vars, scn, expired, late>>, NamedFiles',
           cmd[c].at \notin {"acquire", "closing"}
    PROVE  Ports'
<1>1. PICK r : r = [cmd[c] EXCEPT !.at = Left(c), !.sub = ""]
  BY Zenon
<1>2. IsCmd(cmd[c])
  BY Command, Zenon DEF Ports, Shape
<1>3. r.at = Left(c)
  BY <1>1, <1>2, Zenon DEF IsCmd, CmdFields
<1>4. Put(c, r)
  BY <1>1, Zenon DEF Return
<1> QED BY <1>3, <1>4, ReturnPlaced, Puts, Zenon

\* The next stage, with what r has loaded.
Onto(r, a) == [r EXCEPT !.at = a, !.sub = ""]

LEMMA Carries ==
    ASSUME NEW r, NEW a, IsCmd(r)
    PROVE  /\ Onto(r, a).at = a /\ Onto(r, a).service = r.service
           /\ Onto(r, a).token = r.token /\ Onto(r, a).key = r.key
           /\ Onto(r, a).out = r.out
BY Zenon DEF Onto, IsCmd, CmdFields

LEMMA GoKeeps ==
    ASSUME Shape, Ports, NEW c \in DOMAIN scn.run, NEW r, Go(c, r),
           Placed(c, Onto(r, After(c))), UNCHANGED <<vars, scn, expired, late>>, NamedFiles'
    PROVE  Ports'
<1>1. PICK q : q = Onto(r, After(c))
  BY Zenon
<1>2. Put(c, q) /\ Placed(c, q)
  BY <1>1, Zenon DEF Go, Onto
<1> QED BY <1>2, Puts, Zenon

------------------------------------------------------------------------------
\* The stages of a listener that need no port lock of their own.
LEMMA ListenKeeps ==
    ASSUME Shape, Ports, NEW c \in DOMAIN scn.run,
           ReadOptions(c) \/ CheckToken(c) \/ StartNode(c) \/ StopServing(c)
    PROVE  Ports'
<1>1. /\ UNCHANGED <<vars, scn, expired, late>> /\ files' = files
      /\ cmd[c].at \in {"options", "check", "node", "serve"}
      /\ \/ Return(c)
         \/ /\ Go(c, cmd[c]) /\ cmd[c].at # "serve"
            /\ cmd[c].at = "check" => Checked(cmd[c]) /\ Timely(c, cmd[c])
  BY Zenon DEF ReadOptions, CheckToken, StartNode, StopServing, Quiet, validateTokenFor, Checked,
                Timely, Validate, Ports
<1>2. NamedFiles'
  BY <1>1, Zenon DEF Ports, NamedFiles
<1>3. CASE Return(c)
  BY <1>1, <1>2, <1>3, ReturnKeeps, Zenon
<1>4. CASE /\ Go(c, cmd[c]) /\ cmd[c].at # "serve"
           /\ cmd[c].at = "check" => Checked(cmd[c]) /\ Timely(c, cmd[c])
  <2>1. PICK q : q = Onto(cmd[c], After(c))
    BY Zenon
  <2>2. /\ q.at = After(c) /\ q.service = cmd[c].service
        /\ q.token = cmd[c].token /\ q.key = cmd[c].key
    BY <2>1, Command, Carries DEF Ports, Shape
  <2>3. Placed(c, cmd[c]) /\ CallerOf[c] # None
    BY <1>1, <1>4, Zenon DEF Ports, Placed, Portless
  <2>4. CASE cmd[c].at = "options"
    <3>1. Free(c, cmd[c]) /\ Arg(c).kind = "listen"
      BY <2>3, <2>4, Zenon DEF Placed, Free, Asking, Having, Returning
    <3>2. Free(c, q)
      BY <2>2, <2>4, <3>1, Listens, Zenon DEF Free
    <3> QED BY <1>1, <1>2, <1>4, <2>1, <2>3, <3>2, GoKeeps, Zenon DEF Placed
  <2>5. CASE cmd[c].at \in {"check", "node"}
    <3>1. /\ Having(c, cmd[c]) /\ Arg(c).kind = "listen"
          /\ cmd[c].at = "node" => Checked(cmd[c]) /\ Timely(c, cmd[c])
      BY <2>3, <2>5, Zenon DEF Placed, Free, Asking, Having, Returning
    <3>2. Checked(cmd[c]) /\ Timely(c, cmd[c])
      BY <1>4, <2>5, <3>1, Zenon
    <3>3. Having(c, q)
      BY <2>2, <2>5, <3>1, <3>2, Listens, Zenon DEF Having, Checked, Timely
    <3> QED BY <1>1, <1>2, <1>4, <2>1, <2>3, <3>3, GoKeeps, Zenon DEF Placed
  <2> QED BY <1>1, <1>4, <2>4, <2>5, Zenon
<1> QED BY <1>1, <1>3, <1>4, Zenon

\* A command at its identity file: a listener has its port by then, a tunnel has
\* not asked for it yet.
LEMMA KeyPlaced ==
    ASSUME Shape, Ports, NEW c \in DOMAIN scn.run, cmd[c].at = "key", NEW r,
           r.service = cmd[c].service, r.at \in {"key", After(c)}
    PROVE  Placed(c, r)
<1>1. Placed(c, cmd[c])
  BY Zenon DEF Ports
<1>2. CASE CallerOf[c] = None
  <2>1. Arg(c).kind \in {"id", "token"}
    BY <1>1, <1>2, Zenon DEF Placed, Portless
  <2>2. r.at \in {"key", "ended"} \/ (Arg(c).kind = "token" /\ r.at = "issue")
    BY <2>1, Tunnels, Identifies, Issues, Unlocks, Zenon
  <2> QED BY <1>2, <2>1, <2>2, Zenon DEF Placed, Portless
<1>3. CASE CallerOf[c] # None
  <2>1. CASE Free(c, cmd[c])
    BY <1>3, <2>1, Tunnels, Identifies, Issues, Unlocks, Zenon DEF Placed, Free
  <2>2. CASE Having(c, cmd[c])
    BY <1>3, <2>2, Listens, Zenon DEF Placed, Having
  <2> QED BY <1>1, <1>3, <2>1, <2>2, Zenon DEF Placed, Asking, Returning
<1> QED BY <1>2, <1>3, Zenon

LEMMA IdentityKeeps ==
    ASSUME Shape, Ports, NEW c \in DOMAIN scn.run,
           OpenIdentity(c) \/ CreateIdentity(c) \/ WriteIdentity(c) \/ ProtectIdentity(c) \/ IdentityUnreadable(c)
    PROVE  Ports'
<1>1. cmd[c].at = "key" /\ UNCHANGED <<vars, scn, expired, late>>
  BY Zenon DEF OpenIdentity, CreateIdentity, WriteIdentity, ProtectIdentity, IdentityUnreadable, Quiet
<1>2. IsCmd(cmd[c])
  BY Command, Zenon DEF Ports, Shape
<1>3. files'["tok"] = files["tok"] /\ files'["enc"] = files["enc"]
  <2>1. \/ UNCHANGED files
        \/ \E x : files' = [files EXCEPT !["identity"] = x]
    BY Zenon DEF OpenIdentity, CreateIdentity, WriteIdentity, ProtectIdentity, IdentityUnreadable
  <2> QED BY <2>1, Zenon DEF Shape, Paths
<1>4. NamedFiles'
  BY <1>3, Zenon DEF Ports, NamedFiles
<1>5. \E r : /\ Put(c, r)
             /\ \/ r.service = cmd[c].service /\ r.at \in {"key", After(c)}
                \/ r.at = Left(c)
  <2>1. \A s : /\ [cmd[c] EXCEPT !.sub = s].at = "key"
               /\ [cmd[c] EXCEPT !.sub = s].service = cmd[c].service
    BY <1>1, <1>2, Zenon DEF IsCmd, CmdFields
  <2>2. \A k : /\ Onto([cmd[c] EXCEPT !.key = k], After(c)).at = After(c)
               /\ Onto([cmd[c] EXCEPT !.key = k], After(c)).service = cmd[c].service
    BY <1>2, Zenon DEF IsCmd, CmdFields, Onto
  <2>3. /\ [cmd[c] EXCEPT !.at = Left(c), !.sub = ""].at = Left(c)
        /\ [cmd[c] EXCEPT !.at = Left(c), !.sub = "", !.withdrew = TRUE].at = Left(c)
    BY <1>2, Zenon DEF IsCmd, CmdFields
  <2>4. \/ \E s : Sub(c, s)
        \/ \E k : Go(c, [cmd[c] EXCEPT !.key = k])
        \/ Return(c)
        \/ Put(c, [cmd[c] EXCEPT !.at = Left(c), !.sub = "", !.withdrew = TRUE])
    BY Zenon DEF OpenIdentity, CreateIdentity, WriteIdentity, ProtectIdentity, IdentityUnreadable
  <2>5. CASE \E s : Sub(c, s)
    BY <2>1, <2>5, Zenon DEF Sub
  <2>6. CASE \E k : Go(c, [cmd[c] EXCEPT !.key = k])
    BY <2>2, <2>6, Zenon DEF Go, Onto
  <2>7. CASE Return(c) \/ Put(c, [cmd[c] EXCEPT !.at = Left(c), !.sub = "", !.withdrew = TRUE])
    BY <2>3, <2>7, Zenon DEF Return
  <2> QED BY <2>4, <2>5, <2>6, <2>7, Zenon
<1>6. PICK r : /\ Put(c, r)
               /\ \/ r.service = cmd[c].service /\ r.at \in {"key", After(c)}
                  \/ r.at = Left(c)
  BY <1>5, Zenon
<1>7. Placed(c, r)
  BY <1>1, <1>6, KeyPlaced, ReturnPlaced, Zenon
<1> QED BY <1>1, <1>4, <1>6, <1>7, Puts, Zenon

------------------------------------------------------------------------------
\* Whatever its source, the token that is loaded names a port.
LEMMA TextNamed ==
    ASSUME Ports, NEW f, f = readPairingTokenFile, f # None
    PROVE  Named(TextOf(f))
BY Zenon DEF readPairingTokenFile, TextOf, Named, Ports, NamedFiles

LEMMA LoadPlaced ==
    ASSUME Ports, NEW c \in DOMAIN scn.run, cmd[c].at = "load", NEW r,
           r.at = After(c), r.service \in Services
    PROVE  Placed(c, r)
<1>1. Placed(c, cmd[c]) /\ CallerOf[c] # None
  BY Zenon DEF Ports, Placed, Portless
<1>2. Free(c, cmd[c]) /\ After(c) = "acquire"
  BY <1>1, Listens, Tunnels, Identifies, Issues, Unlocks, Zenon DEF Placed, Free, Asking, Having, Returning
<1> QED BY <1>1, <1>2, Zenon DEF Placed, Free, Asking

LEMMA LoadKeeps ==
    ASSUME Shape, Ports, NEW c \in DOMAIN scn.run, LoadToken(c) \/ loadTunnelToken(c)
    PROVE  Ports'
<1>1. cmd[c].at = "load" /\ UNCHANGED <<vars, scn, expired, late>> /\ files' = files
  BY Zenon DEF LoadToken, loadTunnelToken, Quiet
<1>2. IsCmd(cmd[c])
  BY Command, Zenon DEF Ports, Shape
<1>3. NamedFiles'
  BY <1>1, Zenon DEF Ports, NamedFiles
<1>4. CASE Return(c)
  BY <1>1, <1>3, <1>4, ReturnKeeps, Zenon
<1> DEFINE s(v) == [cmd[c] EXCEPT !.service = v]
           t(x, v) == [cmd[c] EXCEPT !.token = x, !.service = v]
<1>5. \/ Return(c)
      \/ \E v \in Services : Go(c, s(v))
      \/ \E x, v : v \in Services /\ Go(c, t(x, v))
  <2>1. CASE loadTunnelToken(c)
    <3>1. Arg(c).service \in Services
      BY <2>1, Command, Zenon DEF loadTunnelToken, Ports
    <3> QED BY <2>1, <3>1, Zenon DEF loadTunnelToken
  <2>2. CASE LoadToken(c)
    <3> DEFINE a     == Arg(c)
               f     == readPairingTokenFile
               empty == a.fromFile /\ f # None /\ f.is = "empty"
               texts == ({a.inline, a.env} \ {None})
                           \cup (IF a.fromFile /\ f # None /\ ~empty THEN {TextOf(f)} ELSE {})
               v     == IF a.service # None THEN a.service ELSE 1
               w(y)  == IF a.service # None THEN a.service ELSE y.service
    <3>1. v \in Services
      BY Command, PortsAssumption, Zenon DEF Ports
    <3>2. \A x \in texts : Named(x)
      <4>1. f # None => Named(TextOf(f))
        BY TextNamed, Zenon
      <4>2. \A x \in {a.inline, a.env} : x = None \/ Named(x)
        BY Command, Zenon DEF Ports
      <4> HIDE DEF a, f, empty
      <4> QED BY <4>1, <4>2, Zenon
    <3>3. \A y \in texts : y # Damaged => w(y) \in Services
      <4>1. a.service \in Services \cup {None}
        BY Command, Zenon DEF Ports
      <4> HIDE DEF a, texts
      <4> QED BY <3>2, <4>1, Zenon DEF Named
    <3>4. Return(c) \/ Go(c, s(v)) \/ \E y \in texts : y # Damaged /\ Go(c, t(y, w(y)))
      BY <2>2, Zenon DEF LoadToken
    <3> HIDE DEF v, w, texts, s, t
    <3> QED BY <3>1, <3>3, <3>4, Zenon
  <2> QED BY <2>1, <2>2, Zenon
<1>6. \A v : IsCmd(s(v)) /\ s(v).service = v
  BY <1>2, Zenon DEF IsCmd, CmdFields
<1>7. \A x, v : IsCmd(t(x, v)) /\ t(x, v).service = v
  BY <1>2, Zenon DEF IsCmd, CmdFields
<1> HIDE DEF s, t
<1>8. \A r : IsCmd(r) /\ r.service \in Services /\ Go(c, r) => Ports'
  <2> SUFFICES ASSUME NEW r, IsCmd(r), r.service \in Services, Go(c, r) PROVE Ports'
    BY Zenon
  <2>1. Onto(r, After(c)).at = After(c) /\ Onto(r, After(c)).service = r.service
    BY Carries
  <2>2. Placed(c, Onto(r, After(c)))
    BY <1>1, <2>1, LoadPlaced, Zenon
  <2> QED BY <1>1, <1>3, <2>2, GoKeeps, Zenon
<1> QED BY <1>4, <1>5, <1>6, <1>7, <1>8, Zenon

------------------------------------------------------------------------------
\* token and unlock write what names a port.
LEMMA TokenKeeps ==
    ASSUME Shape, Ports, NEW c \in DOMAIN scn.run, IssueToken(c) \/ OpenEncrypted(c)
    PROVE  Ports'
<1>1. cmd[c].at \in {"issue", "open"} /\ UNCHANGED <<vars, scn, expired, late>> /\ files' = files
  BY Zenon DEF IssueToken, OpenEncrypted, Quiet
<1>2. IsCmd(cmd[c]) /\ Placed(c, cmd[c])
  BY Command, Zenon DEF Ports, Shape
<1>3. NamedFiles'
  BY <1>1, Zenon DEF Ports, NamedFiles
<1>4. CASE Return(c)
  BY <1>1, <1>3, <1>4, ReturnKeeps, Zenon
<1>5. CallerOf[c] = None /\ Portless(c, cmd[c])
  BY <1>1, <1>2, Zenon DEF Placed, Free, Asking, Having, Returning
<1> DEFINE o(v) == [cmd[c] EXCEPT !.out = v]
<1>6. \/ Return(c)
      \/ \E v : /\ Go(c, o(v))
                /\ \/ Arg(c).kind = "token" /\ After(c) = "write" /\ Named(v.token)
                   \/ Arg(c).kind = "unlock" /\ After(c) = "write" /\ Named(v)
  <2>1. CASE IssueToken(c)
    <3>1. Arg(c).kind = "token" /\ After(c) = "write"
      BY <1>5, <2>1, Tunnels, Identifies, Issues, Unlocks, Zenon DEF IssueToken, Portless
    <3>2. Arg(c).service \in Services
      BY <3>1, Command, Zenon DEF Ports
    <3>3. Encrypt(New(c), Arg(c).password.text).token = New(c) /\ New(c).service = Arg(c).service
      BY Zenon DEF Encrypt, New
    <3>4. Named(Encrypt(New(c), Arg(c).password.text).token)
      BY <3>2, <3>3, Zenon DEF Named
    <3> QED BY <2>1, <3>1, <3>4, Zenon DEF IssueToken
  <2>2. CASE OpenEncrypted(c)
    <3>1. Arg(c).kind = "unlock" /\ After(c) = "write"
      BY <1>5, <2>2, Tunnels, Identifies, Issues, Unlocks, Zenon DEF OpenEncrypted, Portless
    <3>2. CASE Go(c, o(files["enc"].data.token)) /\ Decrypts(readEncryptedTokenFile, Arg(c).password.text) /\ readEncryptedTokenFile # None
      BY <3>1, <3>2, Zenon DEF Decrypts, readEncryptedTokenFile, Ports, NamedFiles
    <3> QED BY <2>2, <3>2, Zenon DEF OpenEncrypted
  <2> QED BY <2>1, <2>2, Zenon
<1>7. \A v : IsCmd(o(v)) /\ o(v).out = v
  BY <1>2, Zenon DEF IsCmd, CmdFields
<1> HIDE DEF o
<1>8. \A v : IsCmd(o(v)) /\ Onto(o(v), After(c)).at = After(c) /\ Onto(o(v), After(c)).out = v
  BY <1>7, Carries
<1>9. ASSUME NEW v, Go(c, o(v)), \/ Arg(c).kind = "token" /\ After(c) = "write" /\ Named(v.token)
                                 \/ Arg(c).kind = "unlock" /\ After(c) = "write" /\ Named(v)
      PROVE  Ports'
  <2>1. Placed(c, Onto(o(v), After(c)))
    BY <1>5, <1>8, <1>9, Zenon DEF Placed, Portless
  <2> QED BY <1>1, <1>3, <1>9, <2>1, GoKeeps, Zenon
<1> QED BY <1>4, <1>6, <1>9, Zenon

LEMMA TokenFileKeeps ==
    ASSUME Shape, Ports, NEW c \in DOMAIN scn.run, CreateTokenFile(c) \/ WriteTokenFile(c)
    PROVE  Ports'
<1>1. cmd[c].at = "write" /\ UNCHANGED <<vars, scn, expired, late>>
  BY Zenon DEF CreateTokenFile, WriteTokenFile, Quiet
<1>2. IsCmd(cmd[c]) /\ Placed(c, cmd[c])
  BY Command, Zenon DEF Ports, Shape
<1>3. CallerOf[c] = None /\ Portless(c, cmd[c])
  BY <1>1, <1>2, Zenon DEF Placed, Free, Asking, Having, Returning
<1>4. \/ Arg(c).kind = "token" /\ OutPath(c) = "enc" /\ Named(cmd[c].out.token)
      \/ Arg(c).kind = "unlock" /\ OutPath(c) = "tok" /\ Named(cmd[c].out)
  BY <1>1, <1>3, Zenon DEF Portless, OutPath
<1>5. NamedFiles'
  <2>1. \/ UNCHANGED files
        \/ \E x : /\ files' = [files EXCEPT ![OutPath(c)] = x]
                  /\ x.is = "whole" => x.data = cmd[c].out
    <3>1. [is |-> "empty", data |-> None, by |-> c].is # "whole" /\ Absent.is # "whole"
      BY Zenon DEF Absent
    <3>2. [is |-> "whole", data |-> cmd[c].out, by |-> c].data = cmd[c].out
      BY Zenon
    <3>3. CASE CreateTokenFile(c)
      BY <3>1, <3>3, Zenon DEF CreateTokenFile
    <3>4. CASE WriteTokenFile(c)
      BY <3>1, <3>2, <3>4, Zenon DEF WriteTokenFile
    <3> QED BY <3>3, <3>4, Zenon
  <2>2. CASE UNCHANGED files
    BY <2>2, Zenon DEF Ports, NamedFiles
  <2>3. ASSUME NEW x, files' = [files EXCEPT ![OutPath(c)] = x], x.is = "whole" => x.data = cmd[c].out
        PROVE  NamedFiles'
    <3>1. CASE OutPath(c) = "enc"
      <4>1. files'["enc"] = x /\ files'["tok"] = files["tok"]
        BY <2>3, <3>1, Zenon DEF Shape, Paths
      <4> QED BY <1>4, <2>3, <3>1, <4>1, Zenon DEF Ports, NamedFiles
    <3>2. CASE OutPath(c) = "tok"
      <4>1. files'["tok"] = x /\ files'["enc"] = files["enc"]
        BY <2>3, <3>2, Zenon DEF Shape, Paths
      <4> QED BY <1>4, <2>3, <3>2, <4>1, Zenon DEF Ports, NamedFiles
    <3> QED BY <1>4, <3>1, <3>2, Zenon
  <2> QED BY <2>1, <2>2, <2>3, Zenon
<1>6. CASE Return(c)
  BY <1>1, <1>5, <1>6, ReturnKeeps, Zenon
<1>7. CASE Go(c, cmd[c])
  <2>1. Onto(cmd[c], After(c)).at = "ended"
    BY <1>1, <1>2, <1>4, Carries, Issues, Unlocks
  <2>2. Placed(c, Onto(cmd[c], After(c)))
    BY <1>3, <2>1, Zenon DEF Placed, Portless
  <2> QED BY <1>1, <1>5, <1>7, <2>2, GoKeeps, Zenon
<1>8. CASE \E x : Sub(c, x)
  <2>1. PICK x : Sub(c, x)
    BY <1>8, Zenon
  <2>2. PICK q : q = [cmd[c] EXCEPT !.sub = x]
    BY Zenon
  <2>3. Put(c, q) /\ q.at = cmd[c].at /\ q.out = cmd[c].out
    BY <1>2, <2>1, <2>2, Zenon DEF Sub, IsCmd, CmdFields
  <2>4. Placed(c, q)
    BY <1>3, <2>3, Zenon DEF Placed, Portless
  <2> QED BY <1>1, <1>5, <2>3, <2>4, Puts, Zenon
<1> QED BY <1>6, <1>7, <1>8, Zenon DEF CreateTokenFile, WriteTokenFile

------------------------------------------------------------------------------
\* A step of one call moves its own caller only.
LEMMA StepAlone ==
    ASSUME LockInv, NEW k \in Callers, Step(k), NEW d \in Callers, d # k
    PROVE  lock'[d] = lock[d] /\ pc'[d] = pc[d] /\ want'[d] = want[d]
BY DEF LockInv, TypeOK, Step, AcquireEnter, AcquireFlock, AcquireFail, AcquireInsert, CloseEnter,
       CloseUnlock, CloseDelete

LEMMA DieAlone ==
    ASSUME NEW p, Die(p), NEW d \in Callers, ProcOf[d] # p
    PROVE  lock'[d] = lock[d] /\ pc'[d] = pc[d] /\ want'[d] = want[d]
BY Zenon DEF Die

LEMMA DieTakes ==
    ASSUME NEW p, Die(p), NEW d \in Callers, ProcOf[d] = p
    PROVE  lock'[d] = None /\ pc'[d] = "idle"
BY Zenon DEF Die

\* A command inside Acquire or Close: the others stay where they are.
LEMMA CallKeeps ==
    ASSUME Shape, LockInv, Ports, NEW c \in DOMAIN scn.run, CallerOf[c] # None, Step(CallerOf[c]),
           NEW r, Put(c, r) \/ (r = cmd[c] /\ UNCHANGED cmd), Placed(c, r)', UNCHANGED <<scn, files, expired, late>>
    PROVE  Ports'
<1>1. c \in Cmds /\ CallerOf[c] \in Callers
  BY Command, Zenon DEF Ports
<1>2. cmd'[c] = r /\ \A d \in DOMAIN scn.run : d # c => cmd'[d] = cmd[d]
  BY <1>1, Zenon DEF Put, Shape
<1>3. \A d \in DOMAIN scn.run : Placed(d, cmd[d])'
  <2> SUFFICES ASSUME NEW d \in DOMAIN scn.run PROVE Placed(d, cmd[d])'
    BY Zenon
  <2>1. PICK x : x = cmd'[d]
    BY Zenon
  <2>2. CASE d = c
    BY <1>2, <2>1, <2>2, Zenon
  <2>3. CASE d # c
    <3>1. Placed(d, x)
      BY <1>2, <2>1, <2>3, Zenon DEF Ports
    <3>2. CallerOf[d] # None => CallerOf[d] \in Callers /\ CallerOf[d] # CallerOf[c]
      BY <2>3, Command, Zenon DEF Ports
    <3>3. Placed(d, x)'
      BY <1>1, <3>1, <3>2, Kept, StepAlone, Zenon
    <3> QED BY <2>1, <3>3, Zenon
  <2> QED BY <2>2, <2>3, Zenon
<1>4. NamedFiles'
  BY Zenon DEF Ports, NamedFiles
<1> QED BY <1>3, <1>4, Zenon DEF Ports

LEMMA AcquireKeeps ==
    ASSUME Shape, LockInv, Ports, NEW c \in DOMAIN scn.run, AcquirePort(c)
    PROVE  Ports' /\ [Next]_vars
<1>1. cmd[c].at = "acquire" /\ UNCHANGED <<scn, files, expired, late>> /\ IsCmd(cmd[c]) /\ Placed(c, cmd[c])
  BY Command, Zenon DEF AcquirePort, Ports, Shape
<1>2. CallerOf[c] # None /\ CallerOf[c] \in Callers /\ Asking(c, cmd[c])
  <2>1. CallerOf[c] # None
    BY <1>1, Zenon DEF Placed, Portless
  <2> QED BY <1>1, <2>1, Command, Zenon DEF Ports, Placed, Free, Having, Returning
<1>3. PICK k \in Callers : k = CallerOf[c]
  BY <1>2, Zenon
<1>4. Arg(c)' = Arg(c) /\ NamedFiles'
  BY <1>1, Zenon DEF Arg, Ports, NamedFiles
<1>5. ASSUME Step(k) PROVE [Next]_vars
  BY <1>5, Zenon DEF Next
<1>6. CASE AcquireEnter(k, cmd[c].service) /\ UNCHANGED cmd
  <2>1. Step(k)
    BY <1>2, <1>6, Zenon DEF Step, Asking
  <2>2. lock'[k] = None /\ pc'[k] = "flock" /\ want'[k] = cmd[c].service
    BY <1>2, <1>3, <1>6, Zenon DEF AcquireEnter, Asking, LockInv, TypeOK
  <2>3. PICK r : r = cmd[c]
    BY Zenon
  <2>4. Placed(c, r)'
    BY <1>1, <1>2, <1>3, <2>2, <2>3, Zenon DEF Placed, Asking
  <2> QED BY <1>1, <1>2, <1>3, <1>5, <1>6, <2>1, <2>3, <2>4, CallKeeps, Zenon
<1>7. CASE UNCHANGED vars /\ pc[k] = "idle" /\ Return(c)
  <2>1. PICK r : r = [cmd[c] EXCEPT !.at = Left(c), !.sub = ""]
    BY Zenon
  <2>2. Put(c, r) /\ r.at = "ended"
    BY <1>1, <1>2, <1>7, <2>1, Zenon DEF Return, IsCmd, CmdFields, Left, Asking
  <2>3. Placed(c, r)
    BY <1>2, <1>3, <1>7, <2>2, Zenon DEF Placed, Free, Asking
  <2> QED BY <1>1, <1>4, <1>7, <2>2, <2>3, Puts, Zenon
<1>8. CASE AcquireFlock(k) /\ UNCHANGED cmd
  <2>1. Step(k)
    BY <1>8, Zenon DEF Step
  <2>2. lock'[k] = None /\ pc'[k] = "insert" /\ want'[k] = cmd[c].service
    BY <1>2, <1>3, <1>8, Zenon DEF AcquireFlock, Asking, LockInv, TypeOK
  <2>3. PICK r : r = cmd[c]
    BY Zenon
  <2>4. Placed(c, r)'
    BY <1>1, <1>2, <1>3, <2>2, <2>3, Zenon DEF Placed, Asking
  <2> QED BY <1>1, <1>2, <1>3, <1>5, <1>8, <2>1, <2>3, <2>4, CallKeeps, Zenon
<1>9. CASE AcquireFail(k) /\ Return(c)
  <2>1. Step(k)
    BY <1>9, Zenon DEF Step
  <2>2. lock'[k] = None /\ pc'[k] = "idle"
    BY <1>2, <1>3, <1>9, Zenon DEF AcquireFail, Asking, LockInv, TypeOK
  <2>3. PICK r : r = [cmd[c] EXCEPT !.at = Left(c), !.sub = ""]
    BY Zenon
  <2>4. Put(c, r) /\ r.at = "ended"
    BY <1>1, <1>2, <1>9, <2>3, Zenon DEF Return, IsCmd, CmdFields, Left, Asking
  <2>5. Placed(c, r)'
    BY <1>2, <1>3, <2>2, <2>4, Zenon DEF Placed, Free
  <2> QED BY <1>1, <1>2, <1>3, <1>5, <2>1, <2>4, <2>5, CallKeeps, Zenon
<1>10. CASE AcquireInsert(k) /\ Go(c, cmd[c])
  <2>1. Step(k)
    BY <1>10, Zenon DEF Step
  <2>2. lock'[k] = cmd[c].service /\ pc'[k] = "idle"
    BY <1>2, <1>3, <1>10, Zenon DEF AcquireInsert, Asking, LockInv, TypeOK
  <2>3. PICK r : r = Onto(cmd[c], After(c))
    BY Zenon
  <2>4. Put(c, r) /\ r.at = After(c) /\ r.service = cmd[c].service
    BY <1>1, <1>10, <2>3, Carries DEF Go, Onto
  <2>5. (Arg(c).kind = "listen" /\ r.at = "key") \/ (Arg(c).kind = "tunnel" /\ r.at = "serve")
    BY <1>1, <1>2, <2>4, Command, Listens, Tunnels, Identifies, Issues, Unlocks, Zenon DEF Ports
  <2>6. Having(c, r)'
    BY <1>2, <1>3, <1>4, <2>2, <2>4, <2>5, Zenon DEF Having, Asking
  <2>7. Placed(c, r)'
    BY <1>2, <2>6, Zenon DEF Placed
  <2> QED BY <1>1, <1>2, <1>3, <1>5, <2>1, <2>4, <2>7, CallKeeps, Zenon
<1> QED BY <1>3, <1>6, <1>7, <1>8, <1>9, <1>10, Zenon DEF AcquirePort

LEMMA CloseKeeps ==
    ASSUME Shape, LockInv, Ports, NEW c \in DOMAIN scn.run, ClosePort(c)
    PROVE  Ports' /\ [Next]_vars
<1>1. cmd[c].at = "closing" /\ UNCHANGED <<scn, files, expired, late>> /\ IsCmd(cmd[c]) /\ Placed(c, cmd[c])
  BY Command, Zenon DEF ClosePort, Ports, Shape
<1>2. CallerOf[c] # None /\ CallerOf[c] \in Callers /\ Returning(c, cmd[c])
  <2>1. CallerOf[c] # None
    BY <1>1, Zenon DEF Placed, Portless
  <2> QED BY <1>1, <2>1, Command, Zenon DEF Ports, Placed, Free, Having, Asking
<1>3. PICK k \in Callers : k = CallerOf[c]
  BY <1>2, Zenon
<1>4. Step(k) /\ [Next]_vars
  BY <1>3, Zenon DEF ClosePort, Step, Next
<1>5. CASE (CloseEnter(k) \/ CloseUnlock(k)) /\ UNCHANGED cmd
  <2>1. lock'[k] = None /\ pc'[k] \in {"unlock", "delete"}
    BY <1>2, <1>3, <1>5 DEF CloseEnter, CloseUnlock, Returning, LockInv, TypeOK
  <2>2. PICK r : r = cmd[c]
    BY Zenon
  <2>3. Placed(c, r)'
    BY <1>1, <1>2, <1>3, <2>1, <2>2, Zenon DEF Placed, Returning
  <2> QED BY <1>1, <1>2, <1>3, <1>4, <1>5, <2>2, <2>3, CallKeeps, Zenon
<1>6. CASE CloseDelete(k) /\ ReturnUnlocked(c)
  <2>1. lock'[k] = None /\ pc'[k] = "idle"
    BY <1>2, <1>3, <1>6, Zenon DEF CloseDelete, Returning, LockInv, TypeOK
  <2>2. PICK r : r = [cmd[c] EXCEPT !.at = "ended", !.sub = ""]
    BY Zenon
  <2>3. Put(c, r) /\ r.at = "ended"
    BY <1>1, <1>6, <2>2, Zenon DEF ReturnUnlocked, IsCmd, CmdFields
  <2>4. Placed(c, r)'
    BY <1>2, <1>3, <2>1, <2>3, Zenon DEF Placed, Free
  <2> QED BY <1>1, <1>2, <1>3, <1>4, <2>3, <2>4, CallKeeps, Zenon
<1> QED BY <1>3, <1>5, <1>6, Zenon DEF ClosePort

\* A process that dies takes its commands, their calls and their ports with it.
LEMMA CrashKeeps ==
    ASSUME Shape, LockInv, Ports, NEW c \in Running, Crash(c)
    PROVE  Ports' /\ [Next]_vars
<1>1. /\ c \in DOMAIN scn.run /\ UNCHANGED <<scn, files, expired, late>>
      /\ \A d \in DOMAIN scn.run : d \in Cmds /\ IsCmd(cmd[d]) /\ Placed(d, cmd[d])
  BY Command, Zenon DEF Running, Crash, Ports, Shape
<1>2. NamedFiles'
  BY <1>1, Zenon DEF Ports, NamedFiles
<1> DEFINE q(d) == [cmd[d] EXCEPT !.at = "dead", !.sub = ""]
<1>3. \A d \in DOMAIN scn.run : q(d).at = "dead"
  BY <1>1, Zenon DEF IsCmd, CmdFields
<1> HIDE DEF q
<1>4. CASE CallerOf[c] = None
  <2>1. UNCHANGED vars
    BY <1>4, Zenon DEF Crash
  <2>2. lock' = lock /\ pc' = pc /\ want' = want
    BY <2>1, Zenon DEF vars
  <2>3. \A d \in DOMAIN scn.run : d # c => cmd'[d] = cmd[d]
    BY <1>1, <1>4, Zenon DEF Crash
  <2>4. cmd'[c] = q(c)
    BY <1>1, <1>4, Zenon DEF Crash, q
  <2>5. \A d \in DOMAIN scn.run : Placed(d, cmd[d])'
    <3> SUFFICES ASSUME NEW d \in DOMAIN scn.run PROVE Placed(d, cmd[d])'
      BY Zenon
    <3>1. PICK x : x = cmd'[d]
      BY Zenon
    <3>2. Placed(d, x)
      <4>1. CASE d = c
        BY <1>3, <1>4, <2>4, <3>1, <4>1, Zenon DEF Placed, Portless
      <4>2. CASE d # c
        BY <1>1, <2>3, <3>1, <4>2, Zenon
      <4> QED BY <4>1, <4>2, Zenon
    <3>3. Placed(d, x)'
      BY <1>1, <2>2, <3>2, Kept, Zenon
    <3> QED BY <3>1, <3>3, Zenon
  <2> QED BY <1>1, <1>2, <2>1, <2>5, Zenon DEF Ports
<1>5. CASE CallerOf[c] # None
  <2>1. CallerOf[c] \in Callers /\ ProcOf[CallerOf[c]] \in Procs
    BY <1>1, <1>5, Command, ProcOfAssumption, Zenon DEF Ports
  <2>2. PICK p \in Procs : p = ProcOf[CallerOf[c]]
    BY <2>1, Zenon
  <2>3. Die(p) /\ [Next]_vars
    BY <1>5, <2>2, Zenon DEF Crash, Next
  <2>4. \A d \in DOMAIN scn.run :
           IF CallerOf[d] # None /\ ProcOf[CallerOf[d]] = p
           THEN cmd'[d] = q(d) \/ (cmd'[d] = cmd[d] /\ cmd[d].at \in {"ended", "dead"})
           ELSE cmd'[d] = cmd[d]
    BY <1>1, <1>5, <2>2, Zenon DEF Crash, Holders, Running, q
  <2>5. \A d \in DOMAIN scn.run : Placed(d, cmd[d])'
    <3> SUFFICES ASSUME NEW d \in DOMAIN scn.run PROVE Placed(d, cmd[d])'
      BY Zenon
    <3>1. PICK x : x = cmd'[d]
      BY Zenon
    <3>2. CallerOf[d] # None => CallerOf[d] \in Callers
      BY Command, Zenon DEF Ports
    <3>3. CASE CallerOf[d] # None /\ ProcOf[CallerOf[d]] = p
      <4>1. x.at \in {"ended", "dead"}
        BY <1>3, <2>4, <3>1, <3>3, Zenon
      <4>2. lock'[CallerOf[d]] = None /\ pc'[CallerOf[d]] = "idle"
        BY <2>3, <3>2, <3>3, DieTakes, Zenon
      <4>3. Placed(d, x)'
        BY <3>3, <4>1, <4>2, Zenon DEF Placed, Free
      <4> QED BY <3>1, <4>3, Zenon
    <3>4. CASE ~(CallerOf[d] # None /\ ProcOf[CallerOf[d]] = p)
      <4>1. Placed(d, x)
        BY <1>1, <2>4, <3>1, <3>4, Zenon
      <4>2. ASSUME CallerOf[d] # None
            PROVE  /\ lock'[CallerOf[d]] = lock[CallerOf[d]]
                   /\ pc'[CallerOf[d]] = pc[CallerOf[d]]
                   /\ want'[CallerOf[d]] = want[CallerOf[d]]
        <5>1. CallerOf[d] \in Callers /\ ProcOf[CallerOf[d]] # p
          BY <3>2, <3>4, <4>2, Zenon
        <5> QED BY <2>3, <5>1, DieAlone, Zenon
      <4>3. Placed(d, x)'
        BY <1>1, <4>1, <4>2, Kept, Zenon
      <4> QED BY <3>1, <4>3, Zenon
    <3> QED BY <3>3, <3>4, Zenon
  <2> QED BY <1>1, <1>2, <2>3, <2>5, Zenon DEF Ports
<1> QED BY <1>4, <1>5, Zenon

LEMMA OtherKeeps ==
    ASSUME Shape, LockInv, Ports, OtherCaller
    PROVE  Ports' /\ [Next]_vars
<1>1. UNCHANGED <<scn, files, cmd, expired, late>>
  BY DEF OtherCaller, own
<1>2. NamedFiles'
  BY <1>1, Zenon DEF Ports, NamedFiles
<1>3. [Next]_vars
  BY PortsAssumption, Zenon DEF OtherCaller, Next, Ports
<1>4. ASSUME NEW d \in DOMAIN scn.run, CallerOf[d] # None
      PROVE  /\ lock'[CallerOf[d]] = lock[CallerOf[d]]
             /\ pc'[CallerOf[d]] = pc[CallerOf[d]]
             /\ want'[CallerOf[d]] = want[CallerOf[d]]
  <2>1. CallerOf[d] \in Callers /\ CallerOf[d] \notin scn.free /\ scn.free \subseteq Callers
    BY <1>4, Command, Zenon DEF Ports
  <2>2. CASE \E k \in scn.free : Step(k)
    BY <2>1, <2>2, StepAlone, Zenon
  <2>3. CASE \E p \in Procs : (\A e \in Holders : ProcOf[CallerOf[e]] # p) /\ Die(p)
    <3>1. PICK p \in Procs : (\A e \in Holders : ProcOf[CallerOf[e]] # p) /\ Die(p)
      BY <2>3, Zenon
    <3>2. d \in Holders
      BY <1>4, Zenon DEF Holders
    <3>3. ProcOf[CallerOf[d]] # p
      BY <3>1, <3>2, Zenon
    <3> QED BY <2>1, <3>1, <3>3, DieAlone, Zenon
  <2> QED BY <2>2, <2>3, Zenon DEF OtherCaller
<1>5. \A d \in DOMAIN scn.run : Placed(d, cmd[d])'
  <2> SUFFICES ASSUME NEW d \in DOMAIN scn.run PROVE Placed(d, cmd[d])'
    BY Zenon
  <2>1. PICK x : x = cmd'[d]
    BY Zenon
  <2>2. Placed(d, x)
    BY <1>1, <2>1, Zenon DEF Ports
  <2>3. Placed(d, x)'
    BY <1>1, <1>4, <2>2, Kept, Zenon
  <2> QED BY <2>1, <2>3, Zenon
<1> QED BY <1>1, <1>2, <1>3, <1>5, Zenon DEF Ports

LEMMA StutterKeeps ==
    ASSUME Ports, UNCHANGED <<vars, scn, files, cmd, expired, late>>
    PROVE  Ports' /\ [Next]_vars
<1>1. /\ UNCHANGED vars /\ lock' = lock /\ pc' = pc /\ want' = want
      /\ UNCHANGED <<scn, files, cmd, expired, late>>
  BY Zenon DEF vars
<1>2. NamedFiles'
  BY <1>1, Zenon DEF Ports, NamedFiles
<1>3. \A d \in DOMAIN scn.run : Placed(d, cmd[d])'
  <2> SUFFICES ASSUME NEW d \in DOMAIN scn.run PROVE Placed(d, cmd[d])'
    BY Zenon
  <2>1. PICK x : x = cmd'[d]
    BY Zenon
  <2>2. Placed(d, x)
    BY <1>1, <2>1, Zenon DEF Ports
  <2>3. Placed(d, x)'
    BY <1>1, <2>2, Kept, Zenon
  <2> QED BY <2>1, <2>3, Zenon
<1>4. (late = {} \/ expired = TRUE)'
  BY <1>1, Zenon DEF Ports
<1> QED BY <1>1, <1>2, <1>3, <1>4, Zenon DEF Ports

\* The tokens expire: only listeners that have yet to check theirs are late.
LEMMA ExpireKeeps ==
    ASSUME Ports, Expire
    PROVE  Ports' /\ [Next]_vars
<1>1. /\ UNCHANGED vars /\ lock' = lock /\ pc' = pc /\ want' = want
      /\ UNCHANGED <<scn, files, cmd>> /\ expired' = TRUE
  BY Zenon DEF vars, Expire
<1>4. \A d : cmd[d].at \in {"node", "serve"} => d \notin late'
  BY Zenon DEF Expire
<1>2. NamedFiles'
  BY <1>1, Zenon DEF Ports, NamedFiles
<1>3. \A d \in DOMAIN scn.run : Placed(d, cmd[d])'
  <2> SUFFICES ASSUME NEW d \in DOMAIN scn.run PROVE Placed(d, cmd[d])'
    BY Zenon
  <2>1. PICK x : x = cmd'[d] /\ x = cmd[d]
    BY <1>1, Zenon
  <2>2. Placed(d, x) /\ Arg(d)' = Arg(d)
    BY <1>1, <2>1, Zenon DEF Ports, Arg
  <2>3. x.at \in {"node", "serve"} => Timely(d, x)'
    <3>1. cmd[d].at \in {"node", "serve"} => d \notin late'
      BY <1>4, SMT
    <3> QED BY <2>1, <3>1, Zenon DEF Timely
  <2>4. Free(d, x) => Free(d, x)'
    BY <1>1, <2>2, Zenon DEF Free
  <2>5. Asking(d, x) => Asking(d, x)'
    BY <1>1, Zenon DEF Asking
  <2>6. Having(d, x) => Having(d, x)'
    BY <1>1, <2>2, <2>3, Zenon DEF Having
  <2>7. Returning(d, x) => Returning(d, x)'
    BY <1>1, Zenon DEF Returning
  <2>8. Portless(d, x) => Portless(d, x)'
    BY <2>2, Zenon DEF Portless
  <2>9. Placed(d, x)'
    BY <2>2, <2>4, <2>5, <2>6, <2>7, <2>8, Zenon DEF Placed
  <2> QED BY <2>1, <2>9, Zenon
<1> QED BY <1>1, <1>2, <1>3, Zenon DEF Ports

------------------------------------------------------------------------------
LEMMA PortsBegin == SInit => LockInv /\ Ports
<1> SUFFICES ASSUME SInit PROVE LockInv /\ Ports
  BY Zenon
<1>1. LockInv
  BY LockInit, Zenon DEF SInit
<1>2. /\ scn \in Scenarios /\ files["tok"] = scn.stored["tok"] /\ files["enc"] = scn.stored["enc"]
      /\ late = {}
  BY Zenon DEF SInit, Paths
<1>3. NamedFiles
  BY <1>2, PortsAssumption, Zenon DEF NamedFiles
<1>4. ASSUME NEW c \in DOMAIN scn.run PROVE Placed(c, cmd[c])
  <2>1. c \in Cmds /\ Arg(c) = scn.run[c] /\ Arg(c).kind \in DOMAIN Program
    BY <1>2, Command, PortsAssumption, Zenon
  <2>2. cmd[c].at = Program[Arg(c).kind][1]
    BY <2>1, Zenon DEF SInit
  <2>3. CASE CallerOf[c] # None
    <3>1. CallerOf[c] \in Callers /\ Arg(c).kind \in {"listen", "tunnel"}
      BY <1>2, <2>3, Command, Zenon
    <3>2. lock[CallerOf[c]] = None /\ pc[CallerOf[c]] = "idle"
      BY <3>1, Zenon DEF SInit, Init
    <3>3. Program["listen"][1] = "options" /\ Program["tunnel"][1] = "key"
      BY Zenon DEF Program
    <3> QED BY <2>2, <2>3, <3>1, <3>2, <3>3, Zenon DEF Placed, Free
  <2>4. CASE CallerOf[c] = None
    <3>1. Arg(c).kind \in {"id", "token", "unlock"}
      BY <1>2, <2>1, <2>4, Command, Zenon DEF Program
    <3>2. Program["id"][1] = "key" /\ Program["token"][1] = "key" /\ Program["unlock"][1] = "open"
      BY Zenon DEF Program
    <3> QED BY <2>2, <2>4, <3>1, <3>2, Zenon DEF Placed, Portless
  <2> QED BY <2>3, <2>4, Zenon
<1> QED BY <1>1, <1>2, <1>3, <1>4, Zenon DEF Ports

LEMMA PortsPreserved ==
    ASSUME IInv, LockInv, Ports, [SNext]_svars
    PROVE  LockInv' /\ Ports' /\ [Next]_vars
<1>1. Shape
  BY Zenon DEF IInv
<1>2. Ports' /\ [Next]_vars
  <2>1. ASSUME NEW c \in Running, Work(c) \/ IdentityUnreadable(c) \/ StopServing(c) \/ Crash(c)
        PROVE  Ports' /\ [Next]_vars
    <3>1. c \in DOMAIN scn.run
      BY Zenon DEF Running
    <3>2. CASE AcquirePort(c) \/ ClosePort(c) \/ Crash(c)
      BY <1>1, <3>1, <3>2, AcquireKeeps, CloseKeeps, CrashKeeps, Zenon
    <3>3. CASE ReadOptions(c) \/ CheckToken(c) \/ StartNode(c) \/ StopServing(c)
      BY <1>1, <3>1, <3>3, ListenKeeps, Zenon
               DEF ReadOptions, CheckToken, StartNode, StopServing, Quiet
    <3>4. CASE OpenIdentity(c) \/ CreateIdentity(c) \/ WriteIdentity(c) \/ ProtectIdentity(c) \/ IdentityUnreadable(c)
      BY <1>1, <3>1, <3>4, IdentityKeeps, Zenon
               DEF OpenIdentity, CreateIdentity, WriteIdentity, ProtectIdentity, IdentityUnreadable, Quiet
    <3>5. CASE LoadToken(c) \/ loadTunnelToken(c)
      BY <1>1, <3>1, <3>5, LoadKeeps, Zenon DEF LoadToken, loadTunnelToken, Quiet
    <3>6. CASE IssueToken(c) \/ OpenEncrypted(c)
      BY <1>1, <3>1, <3>6, TokenKeeps, Zenon DEF IssueToken, OpenEncrypted, Quiet
    <3>7. CASE CreateTokenFile(c) \/ WriteTokenFile(c)
      BY <1>1, <3>1, <3>7, TokenFileKeeps, Zenon DEF CreateTokenFile, WriteTokenFile, Quiet
    <3> QED BY <2>1, <3>2, <3>3, <3>4, <3>5, <3>6, <3>7, Zenon DEF Work
  <2>2. CASE OtherCaller
    BY <1>1, <2>2, OtherKeeps, Zenon
  <2>3. CASE Expire
    BY <2>3, ExpireKeeps, Zenon
  <2>4. CASE UNCHANGED svars
    <3>1. UNCHANGED <<vars, scn, files, cmd, expired, late>>
      BY <2>4, Zenon DEF svars, vars
    <3> QED BY <3>1, StutterKeeps, Zenon
  <2> QED BY <2>1, <2>2, <2>3, <2>4, Zenon DEF SNext
<1> QED BY <1>2, LockNext, Zenon

LEMMA PortsInvariance == SafeSpec => [](IInv /\ LockInv /\ Ports)
BY Begin, Preserved, PortsBegin, PortsPreserved, PTL DEF SafeSpec

\* TokenServed: whatever commands run, a listener that serves has the lock of its
\* port and, with a token, one made for its own key and that port that had not
\* expired before the listener's last check of it.
THEOREM TokenServedHolds == SafeSpec => []TokenServed
<1>1. Ports => TokenServed
  <2> SUFFICES ASSUME Ports, NEW c \in Running, Arg(c).kind = "listen", cmd[c].at = "serve"
               PROVE  /\ lock[CallerOf[c]] = cmd[c].service
                      /\ cmd[c].token # None => /\ cmd[c].token.peer = cmd[c].key
                                                /\ cmd[c].token.service = cmd[c].service
                                                /\ c \in late => ~cmd[c].token.expiring
    BY Zenon DEF TokenServed
  <2>1. Placed(c, cmd[c]) /\ CallerOf[c] # None
    BY Command, Zenon DEF Running, Ports
  <2>2. Having(c, cmd[c])
    BY <2>1, Zenon DEF Placed, Free, Asking, Returning
  <2> QED BY <2>2, Zenon DEF Having, Checked, Timely
<1> QED BY <1>1, PortsInvariance, PTL

\* PortGivenBack: a command that has returned, from whichever stage, holds no port
\* and is in no call of the lock.
THEOREM PortGivenBackHolds == SafeSpec => []PortGivenBack
<1>1. Ports => PortGivenBack
  <2> SUFFICES ASSUME Ports, NEW c \in Holders, cmd[c].at = "ended"
               PROVE  lock[CallerOf[c]] = None /\ pc[CallerOf[c]] = "idle"
    BY Zenon DEF PortGivenBack
  <2>1. Placed(c, cmd[c]) /\ CallerOf[c] # None
    BY Zenon DEF Holders, Ports
  <2> QED BY <2>1, Zenon DEF Placed, Free, Asking, Having, Returning
<1> QED BY <1>1, PortsInvariance, PTL

\* Refinement: the lock as the commands use it, with their failures, crashes and
\* the other goroutines of their processes, implements PortClaim.
THEOREM CommandsClaim == SafeSpec => Refinement
<1>1. SInit => Promise!Init
  BY NoClaims, Zenon DEF SInit
<1>2. ASSUME IInv, LockInv, Ports, [SNext]_svars
      PROVE  [Promise!Next]_Claims
  BY <1>2, PortsPreserved, LockRefines, Zenon
<1> QED BY <1>1, <1>2, PortsInvariance, PTL DEF SafeSpec, Refinement, Promise!Spec, Claims

\* ModeClear: of any set of flags that validateOptions accepts, runServerSession
\* serves the one mode that was asked for.
THEOREM ModeClearHolds == SafeSpec => []ModeClear
BY Modes, PTL
==============================================================================
