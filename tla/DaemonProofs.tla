----------------------------- MODULE DaemonProofs -----------------------------
(***************************************************************************)
(* Reload and Close: ReloadAccounted and CloseStopsAll of Daemon, for any  *)
(* tunnels, definitions and resources, and any edits and competitors.      *)
(*                                                                         *)
(* The daemon never holds more than the resources of its handles, of the   *)
(* tunnel it is about to enter, of the handles that stop has still to      *)
(* release and of overwritten handles (Covered), and before its context is *)
(* done each of them for one tunnel, so that stopping a tunnel releases    *)
(* nothing another one needs (Exact).  Where Run, Reload and Close are     *)
(* bounds what is in d.handles (Places); while no Reload has failed it is  *)
(* at every point of the two loops what the loop has made of d.cfg or      *)
(* newCfg so far (Runs), so that no handle is overwritten.                 *)
(***************************************************************************)
EXTENDS Daemon, TLAPS

\* A table without the tunnels of a set.
Without(table, set) == [n \in Names |-> IF n \in set THEN Absent ELSE table[n]]

\* Where the watcher, Reload, stop and Close are.
Places ==
    /\ phase \in {"run", "dead"} => watch = "tick"
    /\ stopping["Reload"] # Absent => rpc = "stop"
    /\ stopping["Close"] # Absent => phase = "closing"
    /\ phase \notin {"closing", "closed"} => ~overlap
    /\ phase \in {"closing", "closed"} /\ ~overlap => rpc = "idle" /\ In(handles) \subseteq names
    /\ phase = "closed" => names = {}
    /\ Cancelled => adverts = {}
    /\ rpc \in {"start", "insert"} => todo \subseteq In(new)
    /\ phase = "run" => todo \subseteq In(cfg) /\ lost = {} /\ handles = Without(cfg, todo)

Covered == HeldByDaemon \subseteq Owned \cup Inserting \cup Releasing \cup lost

Unique == \A m, n \in In(handles) : handles[m].res = handles[n].res => m = n
Exact ==
    phase \in {"run", "up"} =>
        /\ Owned \cup Inserting \cup Releasing \cup lost \subseteq HeldByDaemon
        /\ Unique
        /\ \A r \in Inserting \cup Releasing : r \notin Owned /\ r \notin lost
        /\ \A r \in lost : r \notin Owned

\* What runs, by the place of Reload.
Runs ==
    phase \in {"up", "cancelled"} =>
        /\ rpc = "idle" => handles = cfg
        /\ rpc = "stop" => todo \subseteq Dropped(new) /\ handles = Without(cfg, Dropped(new) \ todo)
        /\ rpc = "start" => handles = Without(new, todo)
        /\ rpc = "insert" => starting \notin todo /\ handles = Without(new, todo \cup {starting})

NoneLost == clean /\ ~overlap => lost = {} /\ Runs

IInv == TypeOK /\ Places /\ Covered /\ Exact /\ NoneLost

------------------------------------------------------------------------------
LEMMA ConfigFacts ==
    \A c \in Configs : c \in Tables /\ \A n \in Names : c[n] \in Defs \cup {Absent}
BY Zenon DEF Configs, Tables

\* A running tunnel has a definition, which names a resource.
LEMMA DefFacts ==
    ASSUME NEW t \in Tables, NEW n \in In(t)
    PROVE  n \in Names /\ t[n] \in Defs /\ t[n] # Absent /\ t[n].res \in Resources
BY DefsAssumption, Zenon DEF Tables, In

LEMMA NoNameFact == NoName \in Names
<1>1. PICK c \in Configs : Validate(c)
  BY BrokenAssumption, Zenon DEF Configs
<1>2. \E n \in Names : TRUE
  BY <1>1, Zenon DEF Validate, In
<1>3. QED
  BY <1>2, Zenon DEF NoName

\* A table in which one tunnel is set, or removed.
LEMMA WithoutSet ==
    ASSUME NEW t \in Tables, NEW S, NEW n \in S, n \in Names
    PROVE  /\ Without(t, S)[n] = Absent
           /\ [Without(t, S) EXCEPT ![n] = t[n]] = Without(t, S \ {n})
BY Zenon DEF Without, Tables

LEMMA WithoutRemoved ==
    ASSUME NEW t \in Tables, NEW S, NEW n \in Names
    PROVE  [Without(t, S) EXCEPT ![n] = Absent] = Without(t, S \cup {n})
BY Zenon DEF Without, Tables

LEMMA WithoutNothing ==
    ASSUME NEW t \in Tables
    PROVE  Without(t, {}) = t
BY Zenon DEF Without, Tables

\* d.handles gets an entry.
LEMMA Entry ==
    ASSUME handles \in Tables, NEW n \in Names, NEW d \in Defs, handles' = [handles EXCEPT ![n] = d]
    PROVE  /\ handles' \in Tables
           /\ In(handles)' = In(handles) \cup {n}
           /\ Owned' \subseteq Owned \cup {d.res}
           /\ \A r \in Owned : r \in Owned' \/ (n \in In(handles) /\ r = handles[n].res)
           /\ Unique /\ d.res \notin Owned =>
                Unique' /\ (n \in In(handles) => handles[n].res \notin Owned')
<1>1. handles' \in Tables /\ handles'[n] = d /\ \A m \in Names : m # n => handles'[m] = handles[m]
  BY Zenon DEF Tables
<1>2. d # Absent
  BY DefsAssumption, Zenon
<1>3. In(handles)' = In(handles) \cup {n}
  BY <1>1, <1>2, Zenon DEF In
<1>4. \A m \in In(handles) : m # n => handles'[m] = handles[m]
  BY <1>1, Zenon DEF In
<1>5. \A r : r \in Owned <=> \E m \in In(handles) : r = handles[m].res
  BY Zenon DEF Owned
<1>6. \A r : r \in Owned' <=> \E m \in In(handles)' : r = handles'[m].res
  BY Zenon DEF Owned
<1>7. ASSUME NEW r \in Owned' PROVE r \in Owned \cup {d.res}
  <2>1. PICK m \in In(handles)' : r = handles'[m].res
    BY <1>6, <1>7, Zenon
  <2>2. CASE m = n
    BY <1>1, <2>1, <2>2, Zenon
  <2>3. CASE m # n
    BY <1>3, <1>4, <1>5, <2>1, <2>3, Zenon
  <2>4. QED
    BY <2>2, <2>3, Zenon
<1>8. ASSUME NEW r \in Owned PROVE r \in Owned' \/ (n \in In(handles) /\ r = handles[n].res)
  <2>1. PICK m \in In(handles) : r = handles[m].res
    BY <1>5, <1>8, Zenon
  <2>2. CASE m = n
    BY <2>1, <2>2, Zenon
  <2>3. CASE m # n
    BY <1>3, <1>4, <1>6, <2>1, <2>3, Zenon
  <2>4. QED
    BY <2>2, <2>3, Zenon
<1>9. ASSUME Unique, d.res \notin Owned
      PROVE  Unique' /\ (n \in In(handles) => handles[n].res \notin Owned')
  <2>1. \A m \in In(handles) : handles[m].res # d.res
    BY <1>5, <1>9, Zenon
  <2>2. \A l, m \in In(handles)' : handles'[l].res = handles'[m].res => l = m
    <3> SUFFICES ASSUME NEW l \in In(handles)', NEW m \in In(handles)', handles'[l].res = handles'[m].res
                 PROVE  l = m
      BY Zenon
    <3>1. CASE l = n /\ m # n
      BY <1>1, <1>3, <1>4, <2>1, <3>1, Zenon
    <3>2. CASE l # n /\ m = n
      BY <1>1, <1>3, <1>4, <2>1, <3>2, Zenon
    <3>3. CASE l # n /\ m # n
      BY <1>3, <1>4, <1>9, <3>3, Zenon DEF Unique
    <3>4. QED
      BY <3>1, <3>2, <3>3, Zenon
  <2>3. ASSUME n \in In(handles), NEW m \in In(handles)' PROVE handles'[m].res # handles[n].res
    <3>1. CASE m = n
      BY <1>1, <2>1, <2>3, <3>1, Zenon
    <3>2. CASE m # n
      BY <1>3, <1>4, <1>9, <2>3, <3>2, Zenon DEF Unique
    <3>3. QED
      BY <3>1, <3>2, Zenon
  <2>4. n \in In(handles) => handles[n].res \notin Owned'
    BY <1>6, <2>3, Zenon
  <2>5. QED
    BY <2>2, <2>4, Zenon DEF Unique
<1>10. QED
  BY <1>1, <1>3, <1>7, <1>8, <1>9, Zenon

\* stop takes a handle out of d.handles.
LEMMA Removal ==
    ASSUME TypeOK, NEW n \in Names, NEW c \in Callers, Stop(n, c)
    PROVE  /\ handles' \in Tables /\ stopping' \in [Callers -> Defs \cup {Absent}]
           /\ In(handles)' = In(handles) \ {n} /\ stopping'[c] = handles[n]
           /\ \A b \in Callers : b # c => stopping'[b] = stopping[b]
           /\ Owned' \subseteq Owned
           /\ Owned \subseteq Owned' \cup Releasing' /\ Releasing \subseteq Releasing'
           /\ Releasing' \subseteq Releasing \cup Owned
           /\ Unique => Unique' /\ \A r \in Owned' : r \in Owned /\ (n \in In(handles) => r # handles[n].res)
           /\ \A r \in Releasing' : r \in Releasing \/ (n \in In(handles) /\ r = handles[n].res)
<1>1. /\ handles' = [handles EXCEPT ![n] = Absent] /\ stopping' = [stopping EXCEPT ![c] = handles[n]]
      /\ handles \in Tables /\ stopping \in [Callers -> Defs \cup {Absent}] /\ stopping[c] = Absent
  BY Zenon DEF Stop, TypeOK
<1>2. /\ handles' \in Tables /\ handles'[n] = Absent /\ handles[n] \in Defs \cup {Absent}
      /\ \A m \in Names : m # n => handles'[m] = handles[m]
  BY <1>1, Zenon DEF Tables
<1>3. /\ stopping' \in [Callers -> Defs \cup {Absent}] /\ stopping'[c] = handles[n]
      /\ \A b \in Callers : b # c => stopping'[b] = stopping[b]
  BY <1>1, <1>2, Zenon
<1>4. In(handles)' = In(handles) \ {n}
  BY <1>2, Zenon DEF In
<1>5. \A m \in In(handles)' : m \in In(handles) /\ m # n /\ handles'[m] = handles[m]
  BY <1>2, <1>4, Zenon DEF In
<1>6. /\ \A r : r \in Owned <=> \E m \in In(handles) : r = handles[m].res
      /\ \A r : r \in Owned' <=> \E m \in In(handles)' : r = handles'[m].res
  BY Zenon DEF Owned
<1>7. /\ \A r : r \in Releasing <=> \E b \in Callers : stopping[b] # Absent /\ r = stopping[b].res
      /\ \A r : r \in Releasing' <=> \E b \in Callers : stopping'[b] # Absent /\ r = stopping'[b].res
  BY Zenon DEF Releasing
<1>8. \A r \in Owned' : r \in Owned
  BY <1>5, <1>6, Zenon
<1>9. n \in In(handles) => handles[n] # Absent /\ handles[n].res \in Releasing'
  BY <1>3, <1>7, Zenon DEF In
<1>10. ASSUME NEW r \in Owned PROVE r \in Owned' \/ r \in Releasing'
  <2>1. PICK m \in In(handles) : r = handles[m].res
    BY <1>6, <1>10, Zenon
  <2>2. CASE m = n
    BY <1>9, <2>1, <2>2, Zenon
  <2>3. CASE m # n
    <3>1. m \in In(handles)'
      BY <1>4, <2>3, Zenon
    <3>2. QED
      BY <1>5, <1>6, <2>1, <3>1, Zenon
  <2>4. QED
    BY <2>2, <2>3, Zenon
<1>11. \A r \in Releasing : r \in Releasing'
  BY <1>1, <1>3, <1>7, Zenon
<1>12. ASSUME NEW r \in Releasing' PROVE r \in Releasing \/ (n \in In(handles) /\ r = handles[n].res)
  <2>1. PICK b \in Callers : stopping'[b] # Absent /\ r = stopping'[b].res
    BY <1>7, <1>12, Zenon
  <2>2. CASE b = c
    BY <1>3, <2>1, <2>2, Zenon DEF In
  <2>3. CASE b # c
    BY <1>3, <1>7, <2>1, <2>3, Zenon
  <2>4. QED
    BY <2>2, <2>3, Zenon
<1>13. \A r \in Releasing' : r \in Releasing \/ r \in Owned
  BY <1>6, <1>12, Zenon
<1>14. ASSUME Unique PROVE Unique' /\ \A r \in Owned' : r \in Owned /\ (n \in In(handles) => r # handles[n].res)
  <2>1. \A l, m \in In(handles)' : handles'[l].res = handles'[m].res => l = m
    BY <1>5, <1>14, Zenon DEF Unique
  <2>2. ASSUME NEW r \in Owned', n \in In(handles) PROVE r # handles[n].res
    <3>1. PICK m \in In(handles)' : r = handles'[m].res
      BY <1>6, <2>2, Zenon
    <3>2. QED
      BY <1>5, <1>14, <2>2, <3>1, Zenon DEF Unique
  <2>3. QED
    BY <1>8, <2>1, <2>2, Zenon DEF Unique
<1>15. QED
  BY <1>2, <1>3, <1>4, <1>8, <1>10, <1>11, <1>12, <1>13, <1>14, Zenon

\* What start takes.
LEMMA StartFacts ==
    ASSUME TypeOK, NEW d \in Defs, Start(d)
    PROVE  /\ held' \in [Resources -> {"none", "daemon", "other"}] /\ adverts' \subseteq Defs
           /\ d.res \in Resources /\ d.res \notin HeldByDaemon
           /\ HeldByDaemon' \subseteq HeldByDaemon \cup {d.res}
           /\ ~Cancelled => HeldByDaemon' = HeldByDaemon \cup {d.res}
           /\ Cancelled => adverts' = adverts
<1>1. /\ held \in [Resources -> {"none", "daemon", "other"}] /\ held[d.res] = "none" /\ adverts \subseteq Defs
      /\ held' = held \/ held' = [held EXCEPT ![d.res] = "daemon"]
      /\ ~Cancelled => held' = [held EXCEPT ![d.res] = "daemon"]
      /\ adverts' = adverts \/ (adverts' = adverts \cup {d} /\ ~Cancelled)
  BY Zenon DEF TypeOK, Start, Startable
<1>2. d.res \in Resources
  BY DefsAssumption, Zenon
<1>3. held' \in [Resources -> {"none", "daemon", "other"}] /\ adverts' \subseteq Defs
  BY <1>1, <1>2, Zenon
<1>4. d.res \notin HeldByDaemon
  BY <1>1, Zenon DEF HeldByDaemon
<1>5. held' = [held EXCEPT ![d.res] = "daemon"] => HeldByDaemon' = HeldByDaemon \cup {d.res}
  BY <1>1, <1>2, Zenon DEF HeldByDaemon
<1>6. held' = held => HeldByDaemon' = HeldByDaemon
  BY Zenon DEF HeldByDaemon
<1>7. HeldByDaemon' \subseteq HeldByDaemon \cup {d.res}
  BY <1>1, <1>5, <1>6, Zenon
<1>8. QED
  BY <1>1, <1>2, <1>3, <1>4, <1>5, <1>7, Zenon

------------------------------------------------------------------------------
\* Outside of stop nothing is to be released, and outside of the gap between start
\* and entry nothing is to be entered.
LEMMA NotStopping ==
    ASSUME TypeOK, Places, rpc # "stop", phase # "closing"
    PROVE  Releasing = {}
<1>1. stopping["Reload"] = Absent /\ stopping["Close"] = Absent
  BY Zenon DEF Places
<1>2. \A c \in Callers : stopping[c] = Absent
  BY <1>1, Zenon DEF Callers
<1>3. QED
  BY <1>2, Zenon DEF Releasing

LEMMA NotInserting ==
    ASSUME rpc # "insert"
    PROVE  Inserting = {}
BY Zenon DEF Inserting

\* A step that leaves the handles alone.
LEMMA Frame ==
    ASSUME Covered, Exact, UNCHANGED <<handles, stopping, lost, Inserting>>, HeldByDaemon' \subseteq HeldByDaemon,
           phase' \in {"run", "up"} => phase \in {"run", "up"} /\ HeldByDaemon' = HeldByDaemon
    PROVE  Covered' /\ Exact'
<1>1. UNCHANGED <<Owned, Releasing, Unique>>
  BY Zenon DEF Owned, Releasing, Unique, In
<1>2. Covered'
  BY <1>1, Zenon DEF Covered
<1>3. Exact'
  BY <1>1, Zenon DEF Exact
<1>4. QED
  BY <1>2, <1>3, Zenon

\* A step of the watcher, the file or the other processes.
LEMMA Quiet ==
    ASSUME IInv, TypeOK',
           UNCHANGED <<cfg, handles, stopping, adverts, phase, todo, rpc, new, starting, names, clean, overlap, lost>>,
           HeldByDaemon' \subseteq HeldByDaemon, ~Cancelled => HeldByDaemon' = HeldByDaemon,
           phase \in {"run", "dead"} => watch' = "tick"
    PROVE  IInv'
<1>1. UNCHANGED <<Inserting, In(handles), In(cfg), In(new), Dropped(new), Cancelled,
                  Without(cfg, todo), Without(new, todo), Without(cfg, Dropped(new) \ todo),
                  Without(new, todo \cup {starting})>>
  BY Zenon DEF Inserting, In, Dropped, Without, Cancelled
<1>2. Places'
  BY <1>1, Zenon DEF IInv, Places
<1>3. Runs => Runs'
  BY <1>1, Zenon DEF Runs
<1>4. NoneLost'
  BY <1>3, Zenon DEF IInv, NoneLost
<1>5. phase \in {"run", "up"} => ~Cancelled
  BY Zenon DEF Cancelled
<1>6. Covered' /\ Exact'
  BY <1>1, <1>5, Frame, Zenon DEF IInv
<1>7. QED
  BY <1>2, <1>4, <1>6, Zenon DEF IInv

------------------------------------------------------------------------------
\* Run.
LEMMA RunStartStep ==
    ASSUME IInv, NEW n \in Names, RunStart(n)
    PROVE  IInv'
<1>1. /\ phase = "run" /\ n \in todo /\ Start(cfg[n])
      /\ handles' = [handles EXCEPT ![n] = cfg[n]] /\ todo' = todo \ {n}
      /\ UNCHANGED <<disk, mtime, last, watch, cfg, stopping, phase, rpc, new, starting, names, errors, base,
                     clean, overlap, lost>>
  BY Zenon DEF RunStart, fileVars, reloadVars, hist
<1>2. TypeOK /\ cfg \in Tables /\ handles \in Tables /\ Covered /\ Exact
  BY ConfigFacts, Zenon DEF IInv, TypeOK
<1>3. /\ n \in In(cfg) /\ todo \subseteq In(cfg) /\ lost = {} /\ handles = Without(cfg, todo)
      /\ watch = "tick" /\ ~overlap /\ stopping["Reload"] = Absent /\ stopping["Close"] = Absent
  BY <1>1, Zenon DEF IInv, Places, TypeOK
<1>4. rpc = "idle" /\ ~Cancelled /\ ~Cancelled'
  BY <1>1, <1>2, <1>3, Zenon DEF TypeOK, Cancelled
<1>5. cfg[n] \in Defs
  BY <1>2, <1>3, DefFacts, Zenon
<1>6. /\ held' \in [Resources -> {"none", "daemon", "other"}] /\ adverts' \subseteq Defs
      /\ cfg[n].res \notin HeldByDaemon /\ HeldByDaemon' = HeldByDaemon \cup {cfg[n].res}
  BY <1>1, <1>2, <1>4, <1>5, StartFacts, Zenon
<1>7. Inserting = {} /\ Releasing = {} /\ Inserting' = {} /\ Releasing' = {}
  <2>1. Inserting = {} /\ Releasing = {}
    BY <1>1, <1>2, <1>4, NotStopping, NotInserting, Zenon DEF IInv
  <2>2. UNCHANGED <<Inserting, Releasing>>
    BY <1>1, <1>4, Zenon DEF Inserting, Releasing
  <2>3. QED
    BY <2>1, <2>2, Zenon
<1>8. cfg[n].res \notin Owned /\ Unique
  BY <1>1, <1>2, <1>6, Zenon DEF Exact
<1>9. handles[n] = Absent /\ n \notin In(handles) /\ handles' = Without(cfg, todo)'
  BY <1>1, <1>2, <1>3, WithoutSet, Zenon DEF Without, In
<1>10. /\ handles' \in Tables /\ Owned' \subseteq Owned \cup {cfg[n].res} /\ Owned \subseteq Owned'
       /\ Unique' /\ In(handles)' = In(handles) \cup {n}
  BY <1>1, <1>2, <1>5, <1>8, <1>9, Entry, Zenon
<1>11. cfg[n].res \in Owned'
  <2>1. handles'[n] = cfg[n] /\ n \in In(handles)'
    BY <1>1, <1>2, <1>10, Zenon DEF Tables
  <2>2. QED
    BY <2>1, Zenon DEF Owned
<1>12. Covered' /\ Exact'
  BY <1>1, <1>2, <1>3, <1>6, <1>7, <1>10, <1>11, Zenon DEF Covered, Exact
<1>13. TypeOK'
  <2>1. todo' \subseteq Names /\ In(new)' = In(new)
    BY <1>1, <1>2, Zenon DEF TypeOK, In
  <2>2. QED
    BY <1>1, <1>2, <1>6, <1>10, <2>1, Zenon DEF TypeOK
<1>14. Places'
  <2>1. todo' \subseteq In(cfg)'
    BY <1>1, <1>3, Zenon DEF In
  <2>2. QED
    BY <1>1, <1>3, <1>4, <1>9, <2>1, Zenon DEF Places
<1>15. NoneLost'
  BY <1>1, <1>3, Zenon DEF NoneLost, Runs
<1>16. QED
  BY <1>12, <1>13, <1>14, <1>15, Zenon DEF IInv

LEMMA RunFailsStep ==
    ASSUME IInv, NEW n \in Names, RunFails(n)
    PROVE  IInv'
<1>1. /\ phase = "run" /\ phase' = "dead" /\ todo' = {} /\ handles' = Nothing /\ adverts' = {}
      /\ held' = [r \in Resources |->
                    IF \E m \in In(handles) : handles[m].res = r THEN "none" ELSE held[r]]
      /\ UNCHANGED <<disk, mtime, last, watch, cfg, stopping, rpc, new, starting, names, base, clean, overlap,
                     lost>>
      /\ errors' \in {errors, errors + 1}
  BY Zenon DEF RunFails, StartFails, fileVars, reloadVars, hist
<1>2. TypeOK /\ Covered
  BY Zenon DEF IInv
<1>3. /\ lost = {} /\ watch = "tick" /\ ~overlap /\ stopping["Reload"] = Absent /\ stopping["Close"] = Absent
  BY <1>1, Zenon DEF IInv, Places, TypeOK
<1>4. rpc = "idle" /\ ~Cancelled'
  BY <1>1, <1>2, <1>3, Zenon DEF TypeOK, Cancelled
<1>5. Inserting = {} /\ Releasing = {}
  BY <1>1, <1>2, <1>4, NotStopping, NotInserting, Zenon DEF IInv
<1>6. HeldByDaemon' = {}
  <2>1. \A r \in Resources : held[r] = "daemon" => \E m \in In(handles) : handles[m].res = r
    BY <1>2, <1>3, <1>5, Zenon DEF Covered, HeldByDaemon, Owned
  <2>2. QED
    BY <1>1, <2>1, Zenon DEF HeldByDaemon
<1>7. Covered' /\ Exact'
  BY <1>1, <1>6, Zenon DEF Covered, Exact
<1>8. TypeOK'
  <2>1. /\ handles' \in Tables /\ held' \in [Resources -> {"none", "daemon", "other"}] /\ errors' \in Nat
        /\ todo' \subseteq Names
    BY <1>1, <1>2 DEF TypeOK, Tables, Nothing
  <2>2. /\ phase' \in {"run", "up", "dead", "cancelled", "closing", "closed"} /\ In(new)' = In(new)
        /\ adverts' \subseteq Defs
    BY <1>1, Zenon DEF In
  <2>3. QED
    BY <1>1, <1>2, <2>1, <2>2, Zenon DEF TypeOK
<1>9. Places' /\ NoneLost'
  BY <1>1, <1>3, <1>4, Zenon DEF Places, NoneLost, Runs
<1>10. QED
  BY <1>7, <1>8, <1>9, Zenon DEF IInv

LEMMA RunReturnsStep ==
    ASSUME IInv, RunReturns
    PROVE  IInv'
<1>1. /\ phase = "run" /\ todo = {} /\ phase' = "up" /\ last' = mtime /\ base' = mtime
      /\ UNCHANGED <<disk, mtime, watch, cfg, handles, stopping, held, adverts, todo, rpc, new, starting, names,
                     errors, clean, overlap, lost>>
  BY Zenon DEF RunReturns, fileVars, tunnelVars, reloadVars
<1>2. TypeOK /\ cfg \in Tables
  BY ConfigFacts, Zenon DEF IInv, TypeOK
<1>3. /\ lost = {} /\ handles = Without(cfg, {}) /\ watch = "tick" /\ ~overlap
      /\ stopping["Reload"] = Absent /\ stopping["Close"] = Absent
  BY <1>1, Zenon DEF IInv, Places, TypeOK
<1>4. rpc = "idle" /\ ~Cancelled' /\ handles = cfg
  BY <1>1, <1>2, <1>3, WithoutNothing, Zenon DEF TypeOK, Cancelled
<1>5. TypeOK'
  <2>1. phase' \in {"run", "up", "dead", "cancelled", "closing", "closed"} /\ In(new)' = In(new)
    BY <1>1, Zenon DEF In
  <2>2. QED
    BY <1>1, <1>2, <2>1, Zenon DEF TypeOK
<1>6. Places' /\ NoneLost'
  BY <1>1, <1>3, <1>4, Zenon DEF Places, NoneLost, Runs
<1>7. Covered' /\ Exact'
  <2>1. UNCHANGED <<Inserting, HeldByDaemon>>
    BY <1>1, Zenon DEF Inserting, HeldByDaemon
  <2>2. QED
    BY <1>1, <2>1, Frame, Zenon DEF IInv
<1>8. QED
  BY <1>5, <1>6, <1>7, Zenon DEF IInv

------------------------------------------------------------------------------
\* The watcher, the file and the other processes.
LEMMA QuietSteps ==
    ASSUME IInv, \/ Tick \/ WatchReturns \/ LoadBroken \/ \E f \in Configs \cup {Broken} : Edit(f)
                 \/ \E r \in Resources : ListenerDone(r) \/ OtherTakes(r) \/ OtherReleases(r)
                 \/ UNCHANGED vars
    PROVE  IInv'
<1>1. UNCHANGED <<cfg, handles, stopping, adverts, phase, todo, rpc, new, starting, names, errors, base, clean,
                  overlap, lost>>
  BY Zenon DEF Tick, WatchReturns, LoadBroken, Edit, ListenerDone, OtherTakes, OtherReleases, vars, tunnelVars,
     reloadVars, hist
<1>2. In(new)' = In(new) /\ TypeOK
  BY <1>1, Zenon DEF In, IInv
<1>3. CASE Tick \/ WatchReturns \/ LoadBroken
  <2>1. /\ UNCHANGED <<disk, mtime, held>> /\ last' \in {last, mtime} /\ (phase \notin {"run", "dead"} \/ watch' = "tick")
        /\ watch' \in {"tick", "load", "returned"} /\ watch \in {"tick", "load"}
    BY <1>3, Zenon DEF Tick, WatchReturns, LoadBroken, Cancelled, fileVars, tunnelVars
  <2>2. last' \in Nat /\ rpc = "idle"
    BY <1>2, <2>1, Zenon DEF TypeOK
  <2>3. TypeOK'
    BY <1>1, <1>2, <2>1, <2>2, Zenon DEF TypeOK
  <2>4. HeldByDaemon' = HeldByDaemon
    BY <2>1, Zenon DEF HeldByDaemon
  <2>5. QED
    BY <1>1, <2>1, <2>3, <2>4, Quiet, Zenon
<1>4. CASE UNCHANGED vars \/ \E f \in Configs \cup {Broken} : Edit(f)
  <2>1. UNCHANGED <<last, watch, held>> /\ disk' \in Configs \cup {Broken} /\ mtime' \in {mtime, mtime + 1}
    BY <1>2, <1>4, Zenon DEF Edit, TypeOK, vars, fileVars, tunnelVars
  <2>2. mtime' \in Nat
    BY <1>2, <2>1 DEF TypeOK
  <2>3. TypeOK'
    BY <1>1, <1>2, <2>1, <2>2, Zenon DEF TypeOK
  <2>4. HeldByDaemon' = HeldByDaemon
    BY <2>1, Zenon DEF HeldByDaemon
  <2>5. QED
    BY <1>1, <2>1, <2>3, <2>4, Quiet, Zenon DEF IInv, Places
<1>5. ASSUME NEW r \in Resources, ListenerDone(r) \/ OtherTakes(r) \/ OtherReleases(r) PROVE IInv'
  <2>1. UNCHANGED <<disk, mtime, last, watch>>
    BY <1>5, Zenon DEF ListenerDone, OtherTakes, OtherReleases, fileVars
  <2>2. PICK h \in {"none", "other"} : held' = [held EXCEPT ![r] = h] /\ (held[r] # "daemon" \/ Cancelled)
    BY <1>5, Zenon DEF ListenerDone, OtherTakes, OtherReleases
  <2>3. held' \in [Resources -> {"none", "daemon", "other"}] /\ HeldByDaemon' \subseteq HeldByDaemon
    BY <1>2, <2>2, Zenon DEF TypeOK, HeldByDaemon
  <2>4. ~Cancelled => HeldByDaemon' = HeldByDaemon
    BY <1>2, <2>2, Zenon DEF TypeOK, HeldByDaemon
  <2>5. TypeOK'
    BY <1>1, <1>2, <2>1, <2>3, Zenon DEF TypeOK
  <2>6. QED
    BY <1>1, <2>1, <2>3, <2>4, <2>5, Quiet, Zenon DEF IInv, Places
<1>6. QED
  BY <1>3, <1>4, <1>5, Zenon

------------------------------------------------------------------------------
\* Reload.
LEMMA LoadStep ==
    ASSUME IInv, Load
    PROVE  IInv'
<1>1. /\ watch = "load" /\ disk # Broken /\ rpc = "idle"
      /\ new' = disk /\ rpc' = "stop" /\ todo' = Dropped(disk) /\ watch' = "reload"
      /\ overlap' = (overlap \/ phase \in {"closing", "closed"})
      /\ UNCHANGED <<disk, mtime, last, cfg, handles, stopping, held, adverts, phase, starting, names, errors,
                     base, clean, lost>>
  BY Zenon DEF Load, fileVars, tunnelVars
<1>2. TypeOK /\ cfg \in Tables /\ disk \in Configs
  BY <1>1, ConfigFacts, Zenon DEF IInv, TypeOK
<1>3. TypeOK'
  <2>1. Dropped(disk) \subseteq Names /\ overlap' \in BOOLEAN
    BY <1>1, Zenon DEF Dropped, In
  <2>2. QED
    BY <1>1, <1>2, <2>1, Zenon DEF TypeOK
<1>4. phase \notin {"run", "dead"} /\ stopping["Reload"] = Absent
  BY <1>1, Zenon DEF IInv, Places
<1>5. Places'
  <2>1. Cancelled' = Cancelled /\ In(handles)' = In(handles)
    BY <1>1, Zenon DEF Cancelled, In
  <2>2. QED
    BY <1>1, <1>4, <2>1, Zenon DEF IInv, Places
<1>6. Covered' /\ Exact'
  <2>1. UNCHANGED <<Inserting, HeldByDaemon>>
    BY <1>1, Zenon DEF Inserting, HeldByDaemon
  <2>2. QED
    BY <1>1, <2>1, Frame, Zenon DEF IInv
<1>7. NoneLost'
  <2> SUFFICES ASSUME clean', ~overlap' PROVE lost' = {} /\ Runs'
    BY Zenon DEF NoneLost
  <2>1. clean /\ ~overlap /\ lost = {} /\ Runs
    BY <1>1, Zenon DEF IInv, NoneLost
  <2>2. Dropped(new)' = Dropped(disk)
    BY <1>1, Zenon DEF Dropped, In
  <2>3. Without(cfg, Dropped(new) \ todo)' = Without(cfg, {})
    BY <1>1, <2>2, Zenon DEF Without
  <2>4. QED
    BY <1>1, <1>2, <2>1, <2>2, <2>3, WithoutNothing, Zenon DEF Runs
<1>8. QED
  BY <1>3, <1>5, <1>6, <1>7, Zenon DEF IInv

\* The handle of n is taken out, by Reload or by Close.
LEMMA AccountsAfterStop ==
    ASSUME TypeOK, Covered, Exact, NEW n \in Names, NEW c \in Callers, Stop(n, c),
           UNCHANGED <<phase, rpc, new, starting, lost>>
    PROVE  Covered' /\ Exact'
<1>1. UNCHANGED <<HeldByDaemon, Inserting>>
  BY Zenon DEF Stop, HeldByDaemon, Inserting
<1>2. /\ Owned' \subseteq Owned
      /\ Owned \subseteq Owned' \cup Releasing' /\ Releasing \subseteq Releasing'
      /\ Releasing' \subseteq Releasing \cup Owned
      /\ Unique => Unique' /\ \A r \in Owned' : r \in Owned /\ (n \in In(handles) => r # handles[n].res)
      /\ \A r \in Releasing' : r \in Releasing \/ (n \in In(handles) /\ r = handles[n].res)
  BY Removal, Zenon
<1>3. Covered'
  BY <1>1, <1>2, Zenon DEF Covered
<1>4. ASSUME phase' \in {"run", "up"}
      PROVE  /\ (Owned \cup Inserting \cup Releasing \cup lost)' \subseteq HeldByDaemon'
             /\ Unique'
             /\ \A r \in (Inserting \cup Releasing)' : r \notin Owned' /\ r \notin lost'
             /\ \A r \in lost' : r \notin Owned'
  <2>1. /\ Owned \cup Inserting \cup Releasing \cup lost \subseteq HeldByDaemon /\ Unique
        /\ \A r \in Inserting \cup Releasing : r \notin Owned /\ r \notin lost
        /\ \A r \in lost : r \notin Owned
    BY <1>4, Zenon DEF Exact
  <2>2. (Owned \cup Inserting \cup Releasing \cup lost)' \subseteq HeldByDaemon'
    BY <1>1, <1>2, <2>1, Zenon
  <2>3. \A r \in Releasing' : r \notin Owned' /\ r \notin lost'
    <3>1. \A r \in Releasing' : r \notin Owned'
      BY <1>2, <2>1, Zenon
    <3>2. \A r \in Releasing' : r \notin lost'
      BY <1>2, <2>1, Zenon
    <3>3. QED
      BY <3>1, <3>2, Zenon
  <2>4. \A r \in Inserting' : r \notin Owned' /\ r \notin lost'
    BY <1>1, <1>2, <2>1, Zenon
  <2>5. QED
    BY <1>2, <2>1, <2>2, <2>3, <2>4, Zenon
<1>5. QED
  BY <1>3, <1>4, Zenon DEF Exact

LEMMA ReloadStopStep ==
    ASSUME IInv, NEW n \in Names, ReloadStop(n)
    PROVE  IInv'
<1>1. /\ rpc = "stop" /\ n \in todo /\ Stop(n, "Reload") /\ todo' = todo \ {n} /\ "Reload" \in Callers
      /\ UNCHANGED <<disk, mtime, last, watch, cfg, held, adverts, phase, rpc, new, starting, names, errors, base,
                     clean, overlap, lost>>
  BY Zenon DEF ReloadStop, Stop, Callers, fileVars, reloadVars, hist
<1>2. TypeOK /\ cfg \in Tables
  BY ConfigFacts, Zenon DEF IInv, TypeOK
<1>3. /\ handles' \in Tables /\ stopping' \in [Callers -> Defs \cup {Absent}] /\ In(handles)' = In(handles) \ {n}
      /\ stopping'["Close"] = stopping["Close"]
  BY <1>1, <1>2, Removal, Zenon DEF Callers
<1>4. TypeOK'
  <2>1. todo' \subseteq Names /\ In(new)' = In(new)
    BY <1>1, <1>2, Zenon DEF TypeOK, In
  <2>2. QED
    BY <1>1, <1>2, <1>3, <2>1, Zenon DEF TypeOK
<1>5. Places'
  <2>1. Cancelled' = Cancelled /\ phase \notin {"run", "dead"}
    BY <1>1, <1>2, Zenon DEF Cancelled, IInv, Places, TypeOK
  <2>2. QED
    BY <1>1, <1>3, <2>1, Zenon DEF IInv, Places
<1>6. Covered' /\ Exact'
  BY <1>1, <1>2, AccountsAfterStop, Zenon DEF IInv
<1>7. NoneLost'
  <2> SUFFICES ASSUME clean, ~overlap PROVE lost = {} /\ Runs'
    BY <1>1, Zenon DEF NoneLost
  <2>1. lost = {} /\ Runs
    BY Zenon DEF IInv, NoneLost
  <2>2. ASSUME phase \in {"up", "cancelled"}
        PROVE  /\ todo' \subseteq Dropped(new)' /\ handles' = Without(cfg, Dropped(new) \ todo)'
    <3>1. todo \subseteq Dropped(new) /\ handles = Without(cfg, Dropped(new) \ todo)
      BY <1>1, <2>1, <2>2, Zenon DEF Runs
    <3>2. Dropped(new)' = Dropped(new)
      BY <1>1, Zenon DEF Dropped, In
    <3>3. (Dropped(new) \ todo)' = (Dropped(new) \ todo) \cup {n}
      BY <1>1, <3>1, <3>2, Zenon
    <3>4. Without(cfg, Dropped(new) \ todo)' = Without(cfg, (Dropped(new) \ todo) \cup {n})
      BY <1>1, <3>3, Zenon DEF Without
    <3>5. QED
      BY <1>1, <1>2, <3>1, <3>2, <3>4, WithoutRemoved, Zenon DEF Stop
  <2>3. QED
    BY <1>1, <2>1, <2>2, Zenon DEF Runs
<1>8. QED
  BY <1>4, <1>5, <1>6, <1>7, Zenon DEF IInv

LEMMA ReleaseStep ==
    ASSUME IInv, NEW c \in Callers, Release(c)
    PROVE  IInv'
<1>1. /\ stopping[c] # Absent /\ stopping' = [stopping EXCEPT ![c] = Absent]
      /\ held' = [held EXCEPT ![stopping[c].res] = IF @ = "daemon" THEN "none" ELSE @]
      /\ UNCHANGED <<disk, mtime, last, watch, cfg, handles, adverts, phase, todo, rpc, new, starting, names,
                     errors, base, clean, overlap, lost>>
  BY Zenon DEF Release, fileVars, reloadVars, hist
<1>2. TypeOK /\ stopping \in [Callers -> Defs \cup {Absent}] /\ held \in [Resources -> {"none", "daemon", "other"}]
  BY Zenon DEF IInv, TypeOK
<1> DEFINE d == stopping[c]
<1>3. d \in Defs /\ d.res \in Resources
  BY <1>1, <1>2, DefsAssumption, Zenon
<1>4. held' = [held EXCEPT ![d.res] = IF held[d.res] = "daemon" THEN "none" ELSE held[d.res]]
  BY <1>1, Zenon
<1>5. held' \in [Resources -> {"none", "daemon", "other"}] /\ HeldByDaemon' = HeldByDaemon \ {d.res}
  <2> HIDE DEF d
  <2>1. held[d.res] \in {"none", "daemon", "other"}
    BY <1>2, <1>3, Zenon
  <2>2. PICK h \in {"none", "other"} : held' = [held EXCEPT ![d.res] = h]
    BY <1>4, <2>1, Zenon
  <2>3. QED
    BY <1>2, <1>3, <2>2, Zenon DEF HeldByDaemon
<1>6. /\ stopping' \in [Callers -> Defs \cup {Absent}] /\ stopping'[c] = Absent
      /\ \A b \in Callers : b # c => stopping'[b] = stopping[b]
  BY <1>1, <1>2, Zenon
<1>7. Releasing \subseteq Releasing' \cup {d.res} /\ Releasing' \subseteq Releasing /\ d.res \in Releasing
  <2>1. /\ \A r : r \in Releasing <=> \E b \in Callers : stopping[b] # Absent /\ r = stopping[b].res
        /\ \A r : r \in Releasing' <=> \E b \in Callers : stopping'[b] # Absent /\ r = stopping'[b].res
    BY Zenon DEF Releasing
  <2>2. ASSUME NEW r \in Releasing PROVE r \in Releasing' \cup {d.res}
    <3>1. PICK b \in Callers : stopping[b] # Absent /\ r = stopping[b].res
      BY <2>1, <2>2, Zenon
    <3>2. CASE b = c
      BY <3>1, <3>2, Zenon
    <3>3. CASE b # c
      BY <1>6, <2>1, <3>1, <3>3, Zenon
    <3>4. QED
      BY <3>2, <3>3, Zenon
  <2>3. ASSUME NEW r \in Releasing' PROVE r \in Releasing
    <3>1. PICK b \in Callers : stopping'[b] # Absent /\ r = stopping'[b].res
      BY <2>1, <2>3, Zenon
    <3>2. b # c /\ stopping'[b] = stopping[b]
      BY <1>6, <3>1, Zenon
    <3>3. QED
      BY <2>1, <3>1, <3>2, Zenon
  <2>4. d.res \in Releasing
    BY <1>1, <2>1, Zenon
  <2>5. QED
    BY <2>2, <2>3, <2>4, Zenon
<1>8. UNCHANGED <<Owned, Inserting, Unique, In(handles), In(new), In(cfg), Cancelled>>
  BY <1>1, Zenon DEF Owned, Inserting, Unique, In, Cancelled
<1> HIDE DEF d
<1>9. Covered'
  BY <1>1, <1>5, <1>7, <1>8, Zenon DEF IInv, Covered
<1>10. ASSUME phase \in {"run", "up"} PROVE c = "Reload" /\ Releasing' = {} /\ Inserting = {}
  <2>1. stopping["Close"] = Absent
    BY <1>10, Zenon DEF IInv, Places
  <2>2. c = "Reload"
    BY <1>1, <2>1, Zenon DEF Callers
  <2>3. \A b \in Callers : stopping'[b] = Absent
    BY <1>6, <2>1, <2>2, Zenon DEF Callers
  <2>4. rpc = "stop"
    BY <1>1, <2>2, Zenon DEF IInv, Places
  <2>5. Releasing' = {}
    BY <2>3, Zenon DEF Releasing
  <2>6. QED
    BY <2>2, <2>4, <2>5, NotInserting, Zenon
<1>11. Exact'
  <2> SUFFICES ASSUME phase' \in {"run", "up"}
               PROVE  /\ (Owned \cup Inserting \cup Releasing \cup lost)' \subseteq HeldByDaemon'
                      /\ Unique'
                      /\ \A r \in (Inserting \cup Releasing)' : r \notin Owned' /\ r \notin lost'
                      /\ \A r \in lost' : r \notin Owned'
    BY Zenon DEF Exact
  <2>1. /\ Owned \cup Inserting \cup Releasing \cup lost \subseteq HeldByDaemon /\ Unique
        /\ d.res \notin Owned /\ d.res \notin lost
        /\ \A r \in lost : r \notin Owned
    BY <1>1, <1>7, Zenon DEF IInv, Exact
  <2>2. QED
    BY <1>1, <1>5, <1>8, <1>10, <2>1, Zenon
<1>12. TypeOK'
  BY <1>1, <1>2, <1>5, <1>6, <1>8, Zenon DEF TypeOK
<1>13. Places'
  <2>1. stopping'["Reload"] # Absent => stopping["Reload"] # Absent
    BY <1>6, Zenon DEF Callers
  <2>2. stopping'["Close"] # Absent => stopping["Close"] # Absent
    BY <1>6, Zenon DEF Callers
  <2>3. Without(cfg, todo)' = Without(cfg, todo)
    BY <1>1, Zenon DEF Without
  <2>4. QED
    BY <1>1, <1>8, <2>1, <2>2, <2>3, Zenon DEF IInv, Places
<1>14. NoneLost'
  <2>1. UNCHANGED <<Dropped(new), Without(new, todo), Without(cfg, Dropped(new) \ todo),
                    Without(new, todo \cup {starting})>>
    BY <1>1, Zenon DEF Dropped, In, Without
  <2>2. Runs => Runs'
    BY <1>1, <2>1, Zenon DEF Runs
  <2>3. QED
    BY <1>1, <2>2, Zenon DEF IInv, NoneLost
<1>15. QED
  BY <1>9, <1>11, <1>12, <1>13, <1>14, Zenon DEF IInv

LEMMA ReloadStoppedStep ==
    ASSUME IInv, ReloadStopped
    PROVE  IInv'
<1>1. /\ rpc = "stop" /\ todo = {} /\ rpc' = "start" /\ todo' = Added(new) /\ stopping["Reload"] = Absent
      /\ UNCHANGED <<disk, mtime, last, watch, cfg, handles, stopping, held, adverts, phase, new, starting, names,
                     errors, base, clean, overlap, lost>>
  BY Zenon DEF ReloadStopped, fileVars, tunnelVars, hist
<1>2. Added(new) \subseteq In(new) /\ In(new) \subseteq Names /\ UNCHANGED <<In(new), In(handles), Cancelled>>
  BY <1>1, Zenon DEF Added, In, Cancelled
<1>3. TypeOK'
  BY <1>1, <1>2, Zenon DEF IInv, TypeOK
<1>4. Places'
  <2>1. phase # "run"
    BY <1>1, Zenon DEF IInv, Places, TypeOK
  <2>2. QED
    BY <1>1, <1>2, <2>1, Zenon DEF IInv, Places
<1>5. Covered' /\ Exact'
  <2>1. UNCHANGED <<Inserting, HeldByDaemon>>
    BY <1>1, Zenon DEF Inserting, HeldByDaemon
  <2>2. QED
    BY <1>1, <2>1, Frame, Zenon DEF IInv
\* A tunnel that has not been stopped is one of both configs, with one definition.
<1>6. Without(cfg, Dropped(new)) = Without(new, Added(new))
  <2>1. \A n \in Names : (IF n \in Dropped(new) THEN Absent ELSE cfg[n])
                         = (IF n \in Added(new) THEN Absent ELSE new[n])
    BY Zenon DEF Dropped, Added, In
  <2>2. QED
    BY <2>1, Zenon DEF Without
<1>7. NoneLost'
  <2> SUFFICES ASSUME clean, ~overlap PROVE lost = {} /\ Runs'
    BY <1>1, Zenon DEF NoneLost
  <2>1. lost = {} /\ Runs
    BY Zenon DEF IInv, NoneLost
  <2>2. Without(new, todo)' = Without(new, Added(new)) /\ Dropped(new) \ todo = Dropped(new)
    BY <1>1, Zenon DEF Without
  <2>3. QED
    BY <1>1, <1>6, <2>1, <2>2, Zenon DEF Runs
<1>8. QED
  BY <1>3, <1>4, <1>5, <1>7, Zenon DEF IInv

LEMMA ReloadStartStep ==
    ASSUME IInv, NEW n \in Names, ReloadStart(n)
    PROVE  IInv'
<1>1. /\ rpc = "start" /\ n \in todo /\ Start(new[n])
      /\ rpc' = "insert" /\ starting' = n /\ todo' = todo \ {n}
      /\ UNCHANGED <<disk, mtime, last, watch, cfg, handles, stopping, phase, new, names, errors, base, clean,
                     overlap, lost>>
  BY Zenon DEF ReloadStart, fileVars, hist
<1>2. TypeOK /\ new \in Tables /\ n \in In(new) /\ phase \notin {"run", "dead"}
  BY <1>1, ConfigFacts, Zenon DEF IInv, Places, TypeOK
<1>3. new[n] \in Defs
  BY <1>2, DefFacts, Zenon
<1>4. /\ held' \in [Resources -> {"none", "daemon", "other"}] /\ adverts' \subseteq Defs
      /\ new[n].res \notin HeldByDaemon /\ HeldByDaemon' \subseteq HeldByDaemon \cup {new[n].res}
      /\ ~Cancelled => HeldByDaemon' = HeldByDaemon \cup {new[n].res}
      /\ Cancelled => adverts' = adverts
  BY <1>1, <1>2, <1>3, StartFacts, Zenon
<1>5. Inserting' = {new[n].res} /\ Inserting = {} /\ UNCHANGED <<Owned, Releasing, Unique, In(handles), In(new), Cancelled>>
  BY <1>1, Zenon DEF Inserting, Owned, Releasing, Unique, In, Cancelled
<1>6. Covered'
  BY <1>1, <1>4, <1>5, Zenon DEF IInv, Covered
<1>7. Exact'
  <2> SUFFICES ASSUME phase' = "up"
               PROVE  /\ (Owned \cup Inserting \cup Releasing \cup lost)' \subseteq HeldByDaemon'
                      /\ Unique'
                      /\ \A r \in (Inserting \cup Releasing)' : r \notin Owned' /\ r \notin lost'
                      /\ \A r \in lost' : r \notin Owned'
    BY <1>1, <1>2, Zenon DEF Exact
  <2>1. ~Cancelled
    BY <1>1, Zenon DEF Cancelled
  <2>2. /\ Owned \cup Inserting \cup Releasing \cup lost \subseteq HeldByDaemon /\ Unique
        /\ \A r \in lost : r \notin Owned
    BY <1>1, Zenon DEF IInv, Exact
  <2>3. Releasing = {}
    BY <1>1, <1>2, NotStopping, Zenon DEF IInv
  <2>4. QED
    BY <1>1, <1>4, <1>5, <2>1, <2>2, <2>3, Zenon
<1>8. TypeOK'
  <2>1. todo' \subseteq Names
    BY <1>1, <1>2, Zenon DEF TypeOK
  <2>2. QED
    BY <1>1, <1>2, <1>4, <1>5, <2>1, Zenon DEF TypeOK
<1>9. Places'
  BY <1>1, <1>2, <1>4, <1>5, Zenon DEF IInv, Places
<1>10. NoneLost'
  <2> SUFFICES ASSUME clean, ~overlap PROVE lost = {} /\ Runs'
    BY <1>1, Zenon DEF NoneLost
  <2>1. lost = {} /\ Runs
    BY Zenon DEF IInv, NoneLost
  <2>2. todo' \cup {starting'} = todo /\ starting' \notin todo'
    BY <1>1, Zenon
  <2>3. Without(new, todo \cup {starting})' = Without(new, todo)
    BY <1>1, <2>2, Zenon DEF Without
  <2>4. QED
    BY <1>1, <2>1, <2>2, <2>3, Zenon DEF Runs
<1>11. QED
  BY <1>6, <1>7, <1>8, <1>9, <1>10, Zenon DEF IInv

LEMMA ReloadInsertStep ==
    ASSUME IInv, ReloadInsert
    PROVE  IInv'
<1>1. /\ rpc = "insert" /\ handles' = [handles EXCEPT ![starting] = new[starting]]
      /\ lost' = IF handles[starting] = Absent THEN lost ELSE lost \cup {handles[starting].res}
      /\ rpc' = "start" /\ starting' = NoName
      /\ UNCHANGED <<disk, mtime, last, watch, cfg, stopping, held, adverts, phase, todo, new, names, errors, base,
                     clean, overlap>>
  BY Zenon DEF ReloadInsert, fileVars
<1>2. /\ TypeOK /\ new \in Tables /\ handles \in Tables /\ starting \in In(new) /\ starting \in Names
      /\ phase \notin {"run", "dead"}
  BY <1>1, ConfigFacts, Zenon DEF IInv, Places, TypeOK
<1> DEFINE d == new[starting]
<1>3. d \in Defs
  BY <1>2, DefFacts, Zenon
<1>4. Inserting = {d.res} /\ Inserting' = {} /\ UNCHANGED <<Releasing, HeldByDaemon, In(new), Cancelled>>
  BY <1>1, Zenon DEF Inserting, Releasing, HeldByDaemon, In, Cancelled
<1>5. handles'[starting] = d /\ starting \in In(handles)'
  <2>1. handles'[starting] = d /\ d # Absent
    BY <1>1, <1>2, <1>3, DefsAssumption, Zenon DEF Tables
  <2>2. QED
    BY <1>2, <2>1, Zenon DEF In
<1>6. handles' = [handles EXCEPT ![starting] = d]
  BY <1>1
<1> HIDE DEF d
<1>7. /\ handles' \in Tables /\ Owned' \subseteq Owned \cup {d.res}
      /\ \A r \in Owned : r \in Owned' \/ (starting \in In(handles) /\ r = handles[starting].res)
      /\ Unique /\ d.res \notin Owned =>
            Unique' /\ (starting \in In(handles) => handles[starting].res \notin Owned')
  BY <1>2, <1>3, <1>6, Entry, Zenon
<1>8. d.res \in Owned'
  BY <1>5, Zenon DEF Owned
<1>9. /\ lost \subseteq lost' /\ (starting \in In(handles) => handles[starting].res \in lost')
      /\ \A r \in lost' : r \in lost \/ (starting \in In(handles) /\ r = handles[starting].res)
  BY <1>1, <1>2, Zenon DEF In
<1>10. \A r \in lost' : r \in lost \/ r \in Owned
  BY <1>9, Zenon DEF Owned
<1>11. Covered'
  BY <1>4, <1>7, <1>8, <1>9, Zenon DEF IInv, Covered
<1>12. Exact'
  <2> SUFFICES ASSUME phase = "up"
               PROVE  /\ (Owned \cup Inserting \cup Releasing \cup lost)' \subseteq HeldByDaemon'
                      /\ Unique'
                      /\ \A r \in (Inserting \cup Releasing)' : r \notin Owned' /\ r \notin lost'
                      /\ \A r \in lost' : r \notin Owned'
    BY <1>1, <1>2, Zenon DEF Exact
  <2>1. /\ Owned \cup Inserting \cup Releasing \cup lost \subseteq HeldByDaemon /\ Unique
        /\ d.res \notin Owned /\ d.res \notin lost
        /\ \A r \in lost : r \notin Owned
    BY <1>4, Zenon DEF IInv, Exact
  <2>2. Releasing = {}
    BY <1>1, <1>2, NotStopping, Zenon DEF IInv
  <2>3. (Owned \cup Inserting \cup Releasing \cup lost)' \subseteq HeldByDaemon'
    BY <1>4, <1>7, <1>10, <2>1, <2>2, Zenon
  <2>4. Unique' /\ (starting \in In(handles) => handles[starting].res \notin Owned')
    BY <1>7, <2>1, Zenon
  <2>5. ASSUME NEW r \in lost' PROVE r \notin Owned'
    BY <1>7, <1>9, <2>1, <2>4, <2>5, Zenon
  <2>6. QED
    BY <1>4, <2>2, <2>3, <2>4, <2>5, Zenon
<1>13. TypeOK'
  <2>1. lost' \subseteq Resources
    BY <1>2, <1>9, DefFacts, Zenon DEF TypeOK
  <2>2. QED
    BY <1>1, <1>2, <1>7, <2>1, NoNameFact, Zenon DEF TypeOK
<1>14. Places'
  <2>1. phase \in {"closing", "closed"} => overlap
    BY <1>1, Zenon DEF IInv, Places
  <2>2. QED
    BY <1>1, <1>2, <1>4, <2>1, Zenon DEF IInv, Places
<1>15. NoneLost'
  <2> SUFFICES ASSUME clean, ~overlap PROVE lost' = {} /\ Runs'
    BY <1>1, Zenon DEF NoneLost
  <2>1. lost = {} /\ Runs /\ phase \in {"up", "cancelled"}
    <3>1. phase \notin {"closing", "closed"}
      BY <1>1, Zenon DEF IInv, Places
    <3>2. phase \in {"up", "cancelled"}
      BY <1>2, <3>1, Zenon DEF TypeOK
    <3>3. QED
      BY <3>2, Zenon DEF IInv, NoneLost
  <2>2. starting \notin todo /\ handles = Without(new, todo \cup {starting})
    BY <1>1, <2>1, Zenon DEF Runs
  <2>3. (todo \cup {starting}) \ {starting} = todo /\ starting \in todo \cup {starting}
    BY <2>2, Zenon
  <2>4. handles[starting] = Absent /\ handles' = Without(new, todo)
    <3>1. /\ Without(new, todo \cup {starting})[starting] = Absent
          /\ [Without(new, todo \cup {starting}) EXCEPT ![starting] = new[starting]]
                = Without(new, (todo \cup {starting}) \ {starting})
      BY <1>2, <2>3, WithoutSet, Zenon
    <3>2. QED
      BY <1>1, <2>2, <2>3, <3>1, Zenon
  <2>5. Without(new, todo)' = Without(new, todo) /\ lost' = {}
    BY <1>1, <2>1, <2>4, Zenon DEF Without
  <2>6. QED
    BY <1>1, <2>4, <2>5, Zenon DEF Runs
<1>16. QED
  BY <1>11, <1>12, <1>13, <1>14, <1>15, Zenon DEF IInv

LEMMA ReloadFailsStep ==
    ASSUME IInv, NEW n \in Names, ReloadFails(n)
    PROVE  IInv'
<1>1. /\ rpc = "start" /\ rpc' = "idle" /\ todo' = {} /\ new' = cfg /\ watch' = "tick" /\ clean' = FALSE
      /\ errors' \in {errors, errors + 1}
      /\ UNCHANGED <<disk, mtime, last, cfg, handles, stopping, held, adverts, phase, starting, names, base, overlap,
                     lost>>
  BY Zenon DEF ReloadFails, StartFails, fileVars, tunnelVars
<1>2. TypeOK /\ phase # "run"
  BY <1>1, Zenon DEF IInv, Places, TypeOK
<1>3. TypeOK'
  <2>1. errors' \in Nat
    BY <1>1, <1>2, SMT DEF TypeOK
  <2>2. todo' \subseteq Names /\ clean' \in BOOLEAN
    BY <1>1, Zenon
  <2>3. QED
    BY <1>1, <1>2, <2>1, <2>2, Zenon DEF TypeOK
<1>4. Places' /\ NoneLost'
  <2>1. UNCHANGED <<In(handles), Cancelled>>
    BY <1>1, Zenon DEF In, Cancelled
  <2>2. QED
    BY <1>1, <1>2, <2>1, Zenon DEF IInv, Places, NoneLost
<1>5. Covered' /\ Exact'
  <2>1. UNCHANGED <<Inserting, HeldByDaemon>>
    BY <1>1, Zenon DEF Inserting, HeldByDaemon
  <2>2. QED
    BY <1>1, <2>1, Frame, Zenon DEF IInv
<1>6. QED
  BY <1>3, <1>4, <1>5, Zenon DEF IInv

LEMMA ReloadReturnsStep ==
    ASSUME IInv, ReloadReturns
    PROVE  IInv'
<1>1. /\ rpc = "start" /\ todo = {} /\ cfg' = new /\ rpc' = "idle" /\ watch' = "tick"
      /\ UNCHANGED <<disk, mtime, last, handles, stopping, held, adverts, phase, todo, new, starting, names, errors,
                     base, clean, overlap, lost>>
  BY Zenon DEF ReloadReturns, fileVars, tunnelVars, hist
<1>2. TypeOK /\ phase # "run" /\ new \in Tables
  BY <1>1, ConfigFacts, Zenon DEF IInv, Places, TypeOK
<1>3. TypeOK'
  BY <1>1, <1>2, Zenon DEF TypeOK
<1>4. Places'
  <2>1. UNCHANGED <<In(handles), Cancelled>>
    BY <1>1, Zenon DEF In, Cancelled
  <2>2. QED
    BY <1>1, <1>2, <2>1, Zenon DEF IInv, Places
<1>5. NoneLost'
  <2>1. Runs => Runs'
    BY <1>1, <1>2, WithoutNothing, Zenon DEF Runs
  <2>2. QED
    BY <1>1, <2>1, Zenon DEF IInv, NoneLost
<1>6. Covered' /\ Exact'
  <2>1. UNCHANGED <<Inserting, HeldByDaemon>>
    BY <1>1, Zenon DEF Inserting, HeldByDaemon
  <2>2. QED
    BY <1>1, <2>1, Frame, Zenon DEF IInv
<1>7. QED
  BY <1>3, <1>4, <1>5, <1>6, Zenon DEF IInv

------------------------------------------------------------------------------
\* Shutdown.
LEMMA CancelStep ==
    ASSUME IInv, Cancel
    PROVE  IInv'
<1>1. /\ phase = "up" /\ phase' = "cancelled" /\ adverts' = {}
      /\ UNCHANGED <<disk, mtime, last, watch, cfg, handles, stopping, held, todo, rpc, new, starting, names, errors,
                     base, clean, overlap, lost>>
  BY Zenon DEF Cancel, fileVars, reloadVars, hist
<1>2. UNCHANGED <<Inserting, HeldByDaemon, In(new), In(handles), Dropped(new), Without(cfg, Dropped(new) \ todo),
                  Without(new, todo), Without(new, todo \cup {starting})>>
  BY <1>1, Zenon DEF Inserting, HeldByDaemon, In, Dropped, Without
<1>3. TypeOK'
  <2>1. phase' \in {"run", "up", "dead", "cancelled", "closing", "closed"} /\ adverts' \subseteq Defs
    BY <1>1, Zenon
  <2>2. QED
    BY <1>1, <1>2, <2>1, Zenon DEF IInv, TypeOK
<1>4. Places'
  BY <1>1, <1>2, Zenon DEF IInv, Places
<1>5. NoneLost'
  <2>1. Runs => Runs'
    BY <1>1, <1>2, Zenon DEF Runs
  <2>2. QED
    BY <1>1, <2>1, Zenon DEF IInv, NoneLost
<1>6. Covered' /\ Exact'
  BY <1>1, <1>2, Frame, Zenon DEF IInv
<1>7. QED
  BY <1>3, <1>4, <1>5, <1>6, Zenon DEF IInv

LEMMA CloseBeginStep ==
    ASSUME IInv, CloseBegin
    PROVE  IInv'
<1>1. /\ phase = "cancelled" /\ phase' = "closing" /\ names' = In(handles) /\ overlap' = (rpc # "idle")
      /\ UNCHANGED <<disk, mtime, last, watch, cfg, handles, stopping, held, adverts, todo, rpc, new, starting, errors,
                     base, clean, lost>>
  BY Zenon DEF CloseBegin, fileVars, tunnelVars, reloadVars
<1>2. UNCHANGED <<Inserting, HeldByDaemon, In(new), In(handles)>> /\ In(handles) \subseteq Names
  BY <1>1, Zenon DEF Inserting, HeldByDaemon, In
<1>3. TypeOK'
  <2>1. /\ phase' \in {"run", "up", "dead", "cancelled", "closing", "closed"} /\ overlap' \in BOOLEAN
        /\ names' \subseteq Names
    BY <1>1, <1>2, Zenon
  <2>2. QED
    BY <1>1, <1>2, <2>1, Zenon DEF IInv, TypeOK
<1>4. Places' /\ ~overlap
  <2>1. Cancelled /\ stopping["Close"] = Absent /\ ~overlap
    BY <1>1, Zenon DEF Cancelled, IInv, Places
  <2>2. QED
    BY <1>1, <1>2, <2>1, Zenon DEF IInv, Places
<1>5. NoneLost'
  BY <1>1, <1>4, Zenon DEF IInv, NoneLost, Runs
<1>6. Covered' /\ Exact'
  BY <1>1, <1>2, Frame, Zenon DEF IInv
<1>7. QED
  BY <1>3, <1>4, <1>5, <1>6, Zenon DEF IInv

LEMMA CloseStopStep ==
    ASSUME IInv, NEW n \in Names, CloseStop(n)
    PROVE  IInv'
<1>1. /\ phase = "closing" /\ n \in names /\ Stop(n, "Close") /\ names' = names \ {n} /\ "Close" \in Callers
      /\ UNCHANGED <<disk, mtime, last, watch, cfg, held, adverts, phase, todo, rpc, new, starting, errors, base,
                     clean, overlap, lost>>
  BY Zenon DEF CloseStop, Stop, Callers, fileVars, reloadVars, hist
<1>2. TypeOK
  BY Zenon DEF IInv
<1>3. /\ handles' \in Tables /\ stopping' \in [Callers -> Defs \cup {Absent}] /\ In(handles)' = In(handles) \ {n}
      /\ stopping'["Reload"] = stopping["Reload"]
  BY <1>1, <1>2, Removal, Zenon DEF Callers
<1>4. UNCHANGED <<In(new), Cancelled>>
  BY <1>1, Zenon DEF In, Cancelled
<1>5. TypeOK'
  <2>1. names' \subseteq Names
    BY <1>1, <1>2, Zenon DEF TypeOK
  <2>2. QED
    BY <1>1, <1>2, <1>3, <1>4, <2>1, Zenon DEF TypeOK
<1>6. Places'
  <2>1. ~overlap => rpc = "idle" /\ In(handles)' \subseteq names'
    BY <1>1, <1>3, Zenon DEF IInv, Places
  <2>2. QED
    BY <1>1, <1>3, <1>4, <2>1, Zenon DEF IInv, Places
<1>7. Covered' /\ Exact'
  BY <1>1, <1>2, AccountsAfterStop, Zenon DEF IInv
<1>8. NoneLost'
  BY <1>1, Zenon DEF IInv, NoneLost, Runs
<1>9. QED
  BY <1>5, <1>6, <1>7, <1>8, Zenon DEF IInv

LEMMA CloseReturnsStep ==
    ASSUME IInv, CloseReturns
    PROVE  IInv'
<1>1. /\ phase = "closing" /\ names = {} /\ stopping["Close"] = Absent /\ phase' = "closed"
      /\ UNCHANGED <<disk, mtime, last, watch, cfg, handles, stopping, held, adverts, todo, rpc, new, starting, names,
                     errors, base, clean, overlap, lost>>
  BY Zenon DEF CloseReturns, fileVars, tunnelVars, reloadVars, hist
<1>2. UNCHANGED <<Inserting, HeldByDaemon, In(new), In(handles)>> /\ Cancelled
  BY <1>1, Zenon DEF Inserting, HeldByDaemon, In, Cancelled
<1>3. TypeOK'
  <2>1. phase' \in {"run", "up", "dead", "cancelled", "closing", "closed"}
    BY <1>1, Zenon
  <2>2. QED
    BY <1>1, <1>2, <2>1, Zenon DEF IInv, TypeOK
<1>4. Places' /\ NoneLost'
  BY <1>1, <1>2, Zenon DEF IInv, Places, NoneLost, Runs
<1>5. Covered' /\ Exact'
  BY <1>1, <1>2, Frame, Zenon DEF IInv
<1>6. QED
  BY <1>3, <1>4, <1>5, Zenon DEF IInv

------------------------------------------------------------------------------
LEMMA Initial == Init => IInv
<1> SUFFICES ASSUME Init PROVE IInv
  OBVIOUS
<1>1. /\ disk \in Configs /\ cfg = disk /\ new = cfg /\ handles = Nothing /\ todo = In(cfg) /\ rpc = "idle"
      /\ watch = "tick" /\ phase = "run" /\ names = {} /\ adverts = {} /\ lost = {} /\ clean = TRUE /\ overlap = FALSE
      /\ stopping = [c \in Callers |-> Absent] /\ held = [r \in Resources |-> "none"] /\ starting = NoName
      /\ stopping["Reload"] = Absent /\ stopping["Close"] = Absent /\ mtime = 0 /\ last = 0 /\ errors = 0 /\ base = 0
  BY Zenon DEF Init, Callers
<1>2. /\ handles \in Tables /\ In(handles) = {} /\ In(cfg) \subseteq Names /\ cfg \in Tables
      /\ \A c \in Callers : stopping[c] = Absent
  BY <1>1, ConfigFacts, Zenon DEF Nothing, Tables, In
<1>3. handles = Without(cfg, todo)
  BY <1>1, Zenon DEF Nothing, Without, In
<1>4. HeldByDaemon = {} /\ Owned = {} /\ Inserting = {} /\ Releasing = {} /\ ~Cancelled
  BY <1>1, <1>2, Zenon DEF HeldByDaemon, Owned, Inserting, Releasing, Cancelled
<1>5. TypeOK
  <2>1. mtime \in Nat /\ last \in Nat /\ errors \in Nat /\ base \in Nat
    BY <1>1
  <2>2. /\ stopping \in [Callers -> Defs \cup {Absent}] /\ held \in [Resources -> {"none", "daemon", "other"}]
        /\ lost \subseteq Resources /\ adverts \subseteq Defs /\ names \subseteq Names
        /\ starting \in Names
    BY <1>1, NoNameFact, Zenon
  <2>3. QED
    BY <1>1, <1>2, <2>1, <2>2, Zenon DEF TypeOK
<1>6. Places
  BY <1>1, <1>3, <1>4, Zenon DEF Places
<1>7. Covered /\ Exact
  BY <1>1, <1>2, <1>4, Zenon DEF Covered, Exact, Unique
<1>8. NoneLost
  BY <1>1, Zenon DEF NoneLost, Runs
<1>9. QED
  BY <1>5, <1>6, <1>7, <1>8, Zenon DEF IInv

LEMMA Inductive == IInv /\ [Next]_vars => IInv'
<1> SUFFICES ASSUME IInv, [Next]_vars PROVE IInv'
  OBVIOUS
<1>1. ASSUME NEW n \in Names,
             RunStart(n) \/ RunFails(n) \/ ReloadStop(n) \/ ReloadStart(n) \/ ReloadFails(n) \/ CloseStop(n)
      PROVE  IInv'
  BY <1>1, RunStartStep, RunFailsStep, ReloadStopStep, ReloadStartStep, ReloadFailsStep, CloseStopStep, Zenon
<1>2. ASSUME \/ RunReturns \/ Load \/ ReloadStopped \/ ReloadInsert \/ ReloadReturns
             \/ Cancel \/ CloseBegin \/ CloseReturns
      PROVE  IInv'
  BY <1>2, RunReturnsStep, LoadStep, ReloadStoppedStep, ReloadInsertStep, ReloadReturnsStep, CancelStep,
     CloseBeginStep, CloseReturnsStep, Zenon
<1>3. ASSUME Release("Reload") \/ Release("Close") PROVE IInv'
  BY <1>3, ReleaseStep, Zenon DEF Callers
<1>4. ASSUME \/ Tick \/ WatchReturns \/ LoadBroken \/ \E f \in Configs \cup {Broken} : Edit(f)
             \/ \E r \in Resources : ListenerDone(r) \/ OtherTakes(r) \/ OtherReleases(r)
             \/ UNCHANGED vars
      PROVE  IInv'
  BY <1>4, QuietSteps, Zenon
<1>5. QED
  BY <1>1, <1>2, <1>3, <1>4, Zenon DEF Next, Working, Closing, Environment

LEMMA Invariance == Spec => []IInv
BY Initial, Inductive, PTL DEF Spec

\* While the daemon is up it holds exactly the locks and addresses of the tunnels
\* it runs, starts or stops and of overwritten handles, whichever Reloads failed;
\* none is overwritten, and between two Reloads what runs is the config, as long
\* as every Reload succeeds (daemon.go:134-196, 226-243).
THEOREM ReloadAccountedHolds == Spec => []ReloadAccounted
<1>1. IInv => ReloadAccounted
  <2> SUFFICES ASSUME IInv, phase = "up"
               PROVE  /\ HeldByDaemon = Owned \cup Inserting \cup Releasing \cup lost
                      /\ clean => lost = {} /\ (rpc = "idle" => handles = cfg)
    BY Zenon DEF ReloadAccounted
  <2>1. HeldByDaemon = Owned \cup Inserting \cup Releasing \cup lost
    BY Zenon DEF IInv, Covered, Exact
  <2>2. ~overlap
    BY Zenon DEF IInv, Places
  <2>3. QED
    BY <2>1, <2>2, Zenon DEF IInv, NoneLost, Runs
<1>2. QED
  BY <1>1, Invariance, PTL

\* A Close that no Reload overlaps stops every tunnel and every Advertise loop,
\* and of the locks it leaves behind those of overwritten handles only, which are
\* none when no Reload has failed (daemon.go:203-220).
THEOREM CloseStopsAllHolds == Spec => []CloseStopsAll
<1>1. IInv => CloseStopsAll
  <2> SUFFICES ASSUME IInv, phase = "closed", ~overlap
               PROVE  /\ handles = Nothing /\ adverts = {} /\ HeldByDaemon \subseteq lost
                      /\ clean => HeldByDaemon = {}
    BY Zenon DEF CloseStopsAll
  <2>1. In(handles) = {} /\ rpc = "idle" /\ adverts = {}
    BY Zenon DEF IInv, Places, Cancelled
  <2>2. handles = Nothing
    BY <2>1, Zenon DEF IInv, TypeOK, Tables, In, Nothing
  <2>3. Owned = {} /\ Inserting = {} /\ Releasing = {}
    BY <2>1, NotStopping, Zenon DEF IInv, Owned, Inserting
  <2>4. HeldByDaemon \subseteq lost
    BY <2>3, Zenon DEF IInv, Covered
  <2>5. clean => lost = {}
    BY Zenon DEF IInv, NoneLost
  <2>6. QED
    BY <2>1, <2>2, <2>4, <2>5, Zenon
<1>2. QED
  BY <1>1, Invariance, PTL
===============================================================================
