---------------------------- MODULE ListenerLock -----------------------------
(***************************************************************************)
(* internal/listenerlock: the two-level lock of a logical port.  Acquire   *)
(* and Close run under the process-wide mutex processLocks, consult the    *)
(* process-local map processLocks.paths and take or drop an advisory lock  *)
(* (flock) on <service>.lock.  Other processes interleave between any two  *)
(* system calls, and a process may die at any point.                       *)
(***************************************************************************)
CONSTANTS Callers,   \* goroutines that start listeners
          Procs,     \* operating-system processes of one user
          ProcOf,    \* the process a caller belongs to
          Services,  \* logical ports
          None       \* no caller, no service

ASSUME ProcOfAssumption == ProcOf \in [Callers -> Procs]
ASSUME NoneAssumption == None \notin Callers /\ None \notin Services

VARIABLES
    mutex,   \* mutex[p]: the caller inside processLocks.Mutex, or None
    paths,   \* paths[p]: processLocks.paths, the services p believes it owns
    flock,   \* flock[s]: the caller whose file holds the OS lock, or None
    pc,      \* pc[c]: the next step of the call c is inside
    want,    \* want[c]: the service of the call c is inside
    lock     \* lock[c]: service of c's open *Lock, None without one

vars == <<mutex, paths, flock, pc, want, lock>>

Steps == {"idle", "flock", "insert", "unlock", "delete"}

\* Every variable has its type, a caller is inside processLocks.Mutex exactly
\* while it is inside a call, and a call starts from no open Lock.
TypeOK ==
    /\ mutex \in [Procs -> Callers \cup {None}]
    /\ paths \in [Procs -> SUBSET Services]
    /\ flock \in [Services -> Callers \cup {None}]
    /\ pc \in [Callers -> Steps]
    /\ want \in [Callers -> Services \cup {None}]
    /\ lock \in [Callers -> Services \cup {None}]
    /\ \A c \in Callers :
          /\ pc[c] = "idle" <=> want[c] = None
          /\ pc[c] # "idle" <=> mutex[ProcOf[c]] = c
          /\ pc[c] # "idle" => lock[c] = None

Init ==
    /\ mutex = [p \in Procs |-> None]
    /\ paths = [p \in Procs |-> {}]
    /\ flock = [s \in Services |-> None]
    /\ pc = [c \in Callers |-> "idle"]
    /\ want = [c \in Callers |-> None]
    /\ lock = [c \in Callers |-> None]

Enter(c) == mutex[ProcOf[c]] = None /\ mutex' = [mutex EXCEPT ![ProcOf[c]] = c]
Leave(c) == mutex' = [mutex EXCEPT ![ProcOf[c]] = None]

------------------------------------------------------------------------------
\* Acquire refuses a service the process-local map already lists.  A refusal
\* changes nothing and is a stuttering step.
AcquireEnter(c, s) ==
    /\ pc[c] = "idle" /\ lock[c] = None
    /\ Enter(c)
    /\ s \notin paths[ProcOf[c]]
    /\ pc' = [pc EXCEPT ![c] = "flock"]
    /\ want' = [want EXCEPT ![c] = s]
    /\ UNCHANGED <<paths, flock, lock>>

\* tryLockFile: LOCK_EX|LOCK_NB on a freshly opened file description.
AcquireFlock(c) ==
    /\ pc[c] = "flock"
    /\ flock[want[c]] = None
    /\ flock' = [flock EXCEPT ![want[c]] = c]
    /\ pc' = [pc EXCEPT ![c] = "insert"]
    /\ UNCHANGED <<mutex, paths, want, lock>>

\* The file cannot be opened, flock reports an error, or it is held elsewhere.
AcquireFail(c) ==
    /\ pc[c] = "flock"
    /\ Leave(c)
    /\ pc' = [pc EXCEPT ![c] = "idle"]
    /\ want' = [want EXCEPT ![c] = None]
    /\ UNCHANGED <<paths, flock, lock>>

AcquireInsertReplacing(c) ==
    /\ pc[c] = "insert"
    /\ paths' = [paths EXCEPT ![ProcOf[c]] = {want[c]}]
    /\ lock' = [d \in Callers |-> IF d = c THEN want[c] ELSE IF ProcOf[d] = ProcOf[c] THEN None ELSE lock[d]]
    /\ Leave(c)
    /\ pc' = [pc EXCEPT ![c] = "idle"]
    /\ want' = [want EXCEPT ![c] = None]
    /\ flock' = [s \in Services |-> IF s \in paths[ProcOf[c]] THEN None ELSE flock[s]]

AcquireInsert(c) ==
    /\ pc[c] = "insert"
    /\ paths' = [paths EXCEPT ![ProcOf[c]] = @ \cup {want[c]}]
    /\ lock' = [lock EXCEPT ![c] = want[c]]
    /\ Leave(c)
    /\ pc' = [pc EXCEPT ![c] = "idle"]
    /\ want' = [want EXCEPT ![c] = None]
    /\ UNCHANGED flock

\* Close runs its body once per Lock: afterwards the caller owns nothing, and
\* a second Close is a stuttering step.
CloseEnter(c) ==
    /\ pc[c] = "idle" /\ lock[c] # None
    /\ Enter(c)
    /\ pc' = [pc EXCEPT ![c] = "unlock"]
    /\ want' = [want EXCEPT ![c] = lock[c]]
    /\ lock' = [lock EXCEPT ![c] = None]
    /\ UNCHANGED <<paths, flock>>

CloseUnlock(c) ==
    /\ pc[c] = "unlock"
    /\ flock' = [flock EXCEPT ![want[c]] = None]
    /\ pc' = [pc EXCEPT ![c] = "delete"]
    /\ UNCHANGED <<mutex, paths, want, lock>>

CloseDelete(c) ==
    /\ pc[c] = "delete"
    /\ paths' = [paths EXCEPT ![ProcOf[c]] = @ \ {want[c]}]
    /\ Leave(c)
    /\ pc' = [pc EXCEPT ![c] = "idle"]
    /\ want' = [want EXCEPT ![c] = None]
    /\ UNCHANGED <<flock, lock>>

\* The kernel drops the advisory locks of a dead process; its memory is gone.
Die(p) ==
    /\ mutex' = [mutex EXCEPT ![p] = None]
    /\ paths' = [paths EXCEPT ![p] = {}]
    /\ flock' = [s \in Services |->
                   IF flock[s] \in Callers /\ ProcOf[flock[s]] = p THEN None ELSE flock[s]]
    /\ pc' = [c \in Callers |-> IF ProcOf[c] = p THEN "idle" ELSE pc[c]]
    /\ want' = [c \in Callers |-> IF ProcOf[c] = p THEN None ELSE want[c]]
    /\ lock' = [c \in Callers |-> IF ProcOf[c] = p THEN None ELSE lock[c]]

Step(c) ==
    \/ \E s \in Services : AcquireEnter(c, s)
    \/ AcquireFlock(c)
    \/ AcquireFail(c)
    \/ AcquireInsert(c)
    \/ CloseEnter(c)
    \/ CloseUnlock(c)
    \/ CloseDelete(c)

Next ==
    \/ \E c \in Callers : Step(c)
    \/ \E p \in Procs : Die(p)

Spec == Init /\ [][Next]_vars

------------------------------------------------------------------------------
\* No two open Locks, of one process or of two, are for the same logical port:
\* "exclusively claims service" (lock.go:32).
MutualExclusion ==
    \A c, d \in Callers : lock[c] # None /\ lock[c] = lock[d] => c = d

\* The map and the kernel agree whenever no call is inside the mutex: a process
\* lists exactly the ports its open Locks are for, and holds the kernel lock of
\* exactly those.  A failed Acquire or a finished Close leaves nothing behind
\* that would refuse the next listener of the port.
NothingLeftBehind ==
    \A p \in Procs : mutex[p] = None =>
        LET open == {lock[c] : c \in {d \in Callers : ProcOf[d] = p}} \ {None}
        IN  /\ paths[p] = open
            /\ open = {s \in Services : flock[s] # None /\ ProcOf[flock[s]] = p}

Promise == INSTANCE PortClaim WITH
               claims <- {k \in Callers \X Services : lock[k[1]] = k[2]}

\* The implementation keeps the promise of PortClaim, step by step.
Refinement == Promise!Spec
==============================================================================
