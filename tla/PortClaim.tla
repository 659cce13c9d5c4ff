------------------------------ MODULE PortClaim ------------------------------
(***************************************************************************)
(* What internal/listenerlock promises its callers (lock.go:1-2, 32-34):   *)
(* a logical port is claimed by at most one caller on the machine, a claim *)
(* ends when its owner closes it, and a process that dies gives back every *)
(* claim it had.  A caller is one goroutine of one process.                *)
(***************************************************************************)
CONSTANTS Callers,   \* goroutines that start listeners
          Procs,     \* operating-system processes of one user
          ProcOf,    \* the process a caller belongs to
          Services   \* logical ports

VARIABLE claims      \* the set of <<caller, service>> pairs that are owned

Init == claims = {}

Claim(c, s) ==
    /\ \A d \in Callers : <<d, s>> \notin claims
    /\ claims' = claims \cup {<<c, s>>}

Release(c, s) ==
    /\ <<c, s>> \in claims
    /\ claims' = claims \ {<<c, s>>}

Die(p) == claims' = {k \in claims : ProcOf[k[1]] # p}

Next ==
    \/ \E c \in Callers, s \in Services : Claim(c, s) \/ Release(c, s)
    \/ \E p \in Procs : Die(p)

Spec == Init /\ [][Next]_claims
==============================================================================
