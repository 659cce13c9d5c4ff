------------------------------- MODULE Daemon --------------------------------
(***************************************************************************)
(* internal/daemon and the watcher of internal/cli/run_command.go: one     *)
(* daemon starts the tunnels of a config file, polls the file and applies  *)
(* edits tunnel by tunnel, and closes everything on shutdown.  Run, the    *)
(* watcher's Reload and Close interleave with other processes that take    *)
(* and give back the same logical ports and local addresses.               *)
(*                                                                         *)
(* A tunnel definition is a record: its mode, the resource it needs (the   *)
(* logical-port lock of a server tunnel, the local address of a client     *)
(* tunnel) and the rest, abstracted to a tag.  A server tunnel also has a  *)
(* loop that advertises it (p2p.Node.Advertise, see Discovery), which ends *)
(* with the daemon's context only.                                         *)
(***************************************************************************)
EXTENDS Naturals

CONSTANTS Names,      \* tunnel names
          Defs,       \* tunnel definitions: [mode, res, tag]
          Resources,  \* logical ports and local addresses
          Absent,     \* no definition
          Broken,     \* a file that does not parse or validate
          MaxEdits,   \* bound: edits of the file
          MaxErrors,  \* bound: starts that fail for a reason other than a resource in use
          Others,     \* TRUE: other processes compete for the resources
          Stops       \* TRUE: the daemon may be shut down

ASSUME DefsAssumption ==
    /\ Defs \subseteq [mode : {"server", "client"}, res : Resources, tag : Nat]
    /\ Absent \notin Defs
    /\ \A d, e \in Defs : d.res = e.res => d.mode = e.mode
ASSUME BoundsAssumption == MaxEdits \in Nat /\ MaxErrors \in Nat
ASSUME ModeAssumption == Others \in BOOLEAN /\ Stops \in BOOLEAN

Tables == [Names -> Defs \cup {Absent}]
In(table) == {n \in Names : table[n] # Absent}

\* tunnelconfig.Validate: a config has tunnels, and no two server tunnels share
\* a logical port.  The fields of a definition are valid by themselves.
Validate(c) ==
    /\ In(c) # {}
    /\ \A m, n \in In(c) :
          c[m].mode = "server" /\ c[n].mode = "server" /\ c[m].res = c[n].res => m = n
Configs == {c \in Tables : Validate(c)}
ASSUME BrokenAssumption == Broken \notin Configs /\ Configs # {}

VARIABLES
    disk, mtime,   \* the config file and its modification time
    last,          \* watchConfigFile: lastModified
    watch,         \* watchConfigFile: waiting for a tick, or about to load
    cfg,           \* d.cfg
    handles,       \* d.handles: the definition each running tunnel was started with
    stopping,      \* the handle that stop, called by Reload or by Close, has to release
    held,          \* who holds a resource: "none", "daemon", "other"
    adverts,       \* definitions of the tunnels whose Advertise loop runs
    phase,         \* "run": in Run; "up"; "dead": Run failed; "cancelled": the context
                   \* is done; "closing": Close has the names; "closed"
    todo,          \* tunnels Run, or the current loop of Reload, has still to visit
    rpc,           \* Reload: "idle", "stop", "start", "insert" (started, not yet in handles)
    new, starting, \* newCfg, and the tunnel that was started last
    names,         \* names collected by Close
    errors,        \* start errors so far
    base,          \* history: mtime when the watcher started
    clean,         \* history: no Reload has returned an error
    overlap,       \* history: a Reload ran when Close had collected the names
    lost           \* history: resources of handles that Reload has overwritten

fileVars == <<disk, mtime>>
reloadVars == <<rpc, new, starting>>
tunnelVars == <<handles, stopping, held, adverts>>
hist == <<base, clean, overlap, lost>>
vars == <<fileVars, last, watch, cfg, tunnelVars, phase, todo, reloadVars, names, errors, hist>>

Callers == {"Reload", "Close"}
NoName == CHOOSE n \in Names : TRUE  \* the locals of Reload between two calls
Nothing == [n \in Names |-> Absent]

Init ==
    /\ disk \in Configs /\ mtime = 0 /\ last = 0 /\ watch = "tick"
    /\ cfg = disk
    /\ handles = Nothing
    /\ stopping = [c \in Callers |-> Absent]
    /\ held = [r \in Resources |-> "none"] /\ adverts = {}
    /\ phase = "run" /\ todo = In(cfg)
    /\ rpc = "idle" /\ new = cfg /\ starting = NoName
    /\ names = {} /\ errors = 0 /\ base = 0
    /\ clean = TRUE /\ overlap = FALSE /\ lost = {}

------------------------------------------------------------------------------
\* The context of the tunnels is done.
Cancelled == phase \in {"cancelled", "closing", "closed"}

\* start: the token loads, and the lock or the local address is free.  Under a
\* cancelled context the goroutine of a local listener closes it at once, and
\* the Advertise loop ends.
Startable(d) == held[d.res] = "none"
Start(d) ==
    /\ Startable(d)
    /\ held' = IF d.mode = "client" /\ Cancelled THEN held ELSE [held EXCEPT ![d.res] = "daemon"]
    /\ adverts' = IF d.mode = "client" \/ Cancelled THEN adverts ELSE adverts \cup {d}
\* start fails: the resource is taken, or the token file, the peer or the
\* address cannot be used.
StartFails(d) ==
    /\ Startable(d) => errors < MaxErrors
    /\ errors' = IF Startable(d) THEN errors + 1 ELSE errors

\* stop takes the handle out of d.handles under d.mu ...
Stop(n, c) ==
    /\ stopping[c] = Absent
    /\ handles' = [handles EXCEPT ![n] = Absent]
    /\ stopping' = [stopping EXCEPT ![c] = handles[n]]
    /\ UNCHANGED <<held, adverts>>

\* ... and then releases what it holds; its sessions and its Advertise loop go on.
\* The context may have closed a local listener before.
Release(c) ==
    /\ stopping[c] # Absent
    /\ held' = [held EXCEPT ![stopping[c].res] = IF @ = "daemon" THEN "none" ELSE @]
    /\ stopping' = [stopping EXCEPT ![c] = Absent]
    /\ UNCHANGED <<fileVars, last, watch, cfg, handles, adverts, phase, todo, reloadVars, names,
                   errors, hist>>

\* Run starts the tunnels one by one; a failure closes what was started.
RunStart(n) ==
    /\ phase = "run" /\ n \in todo
    /\ Start(cfg[n])
    /\ handles' = [handles EXCEPT ![n] = cfg[n]]
    /\ todo' = todo \ {n}
    /\ UNCHANGED <<fileVars, last, watch, cfg, stopping, phase, reloadVars, names, errors, hist>>

RunFails(n) ==
    /\ phase = "run" /\ n \in todo
    /\ StartFails(cfg[n])
    /\ phase' = "dead" /\ todo' = {}
    /\ handles' = Nothing /\ adverts' = {}
    /\ held' = [r \in Resources |->
                  IF \E m \in In(handles) : handles[m].res = r THEN "none" ELSE held[r]]
    /\ UNCHANGED <<fileVars, last, watch, cfg, stopping, reloadVars, names, hist>>

\* Run returns and the watcher starts: it remembers the file's modification time
\* of now, not of when the config was loaded.
RunReturns ==
    /\ phase = "run" /\ todo = {}
    /\ phase' = "up" /\ last' = mtime /\ base' = mtime
    /\ UNCHANGED <<fileVars, watch, cfg, tunnelVars, todo, reloadVars, names, errors, clean,
                   overlap, lost>>

------------------------------------------------------------------------------
\* What happens after the end of the process is of no interest.
Alive == phase \notin {"dead", "closed"}

\* The file is edited, while the process lives; the modification time is that of
\* the edit.
Edit(f) ==
    /\ mtime < MaxEdits /\ Alive
    /\ disk' = f /\ mtime' = mtime + 1
    /\ UNCHANGED <<last, watch, cfg, tunnelVars, phase, todo, reloadVars, names, errors, hist>>

\* watchConfigFile looks at the modification time first.  When the context is done
\* as well, select takes either case ...
Tick ==
    /\ phase \in {"up", "cancelled", "closing"} /\ watch = "tick" /\ mtime > last
    /\ last' = mtime
    /\ watch' = "load"
    /\ UNCHANGED <<fileVars, cfg, tunnelVars, phase, todo, reloadVars, names, errors, hist>>

WatchReturns ==
    /\ Cancelled /\ watch = "tick"
    /\ watch' = "returned"
    /\ UNCHANGED <<fileVars, last, cfg, tunnelVars, phase, todo, reloadVars, names, errors, hist>>

\* ... and reads the file afterwards.  A broken file is ignored.
LoadBrokenReturns ==
    /\ watch = "load" /\ disk = Broken
    /\ watch' = "returned"
    /\ UNCHANGED <<fileVars, last, cfg, tunnelVars, phase, todo, reloadVars, names, errors, hist>>

LoadBroken ==
    /\ watch = "load" /\ disk = Broken
    /\ watch' = "tick"
    /\ UNCHANGED <<fileVars, last, cfg, tunnelVars, phase, todo, reloadVars, names, errors, hist>>

\* Reload compares the definitions with those of d.cfg.
Dropped(c) == {n \in In(cfg) : c[n] # cfg[n]}
Added(c) == {n \in In(c) : c[n] # cfg[n]}

Load ==
    /\ watch = "load" /\ disk # Broken /\ rpc = "idle"
    /\ new' = disk /\ rpc' = "stop" /\ todo' = Dropped(disk)
    /\ watch' = "reload"
    /\ overlap' = (overlap \/ phase \in {"closing", "closed"})
    /\ UNCHANGED <<fileVars, last, cfg, tunnelVars, phase, starting, names, errors, base, clean,
                   lost>>

ReloadStop(n) ==
    /\ rpc = "stop" /\ n \in todo
    /\ Stop(n, "Reload")
    /\ todo' = todo \ {n}
    /\ UNCHANGED <<fileVars, last, watch, cfg, phase, reloadVars, names, errors, hist>>

ReloadStopped ==
    /\ rpc = "stop" /\ todo = {} /\ stopping["Reload"] = Absent
    /\ rpc' = "start" /\ todo' = Added(new)
    /\ UNCHANGED <<fileVars, last, watch, cfg, tunnelVars, phase, new, starting, names, errors,
                   hist>>

\* A tunnel is started without d.mu and entered into d.handles afterwards, over
\* the handle that a Reload which failed may have left under its name.
ReloadStart(n) ==
    /\ rpc = "start" /\ n \in todo
    /\ Start(new[n])
    /\ rpc' = "insert" /\ starting' = n
    /\ todo' = todo \ {n}
    /\ UNCHANGED <<fileVars, last, watch, cfg, handles, stopping, phase, new, names, errors,
                   hist>>

ReloadInsert ==
    /\ rpc = "insert"
    /\ handles' = [handles EXCEPT ![starting] = new[starting]]
    /\ lost' = IF handles[starting] = Absent THEN lost ELSE lost \cup {handles[starting].res}
    /\ rpc' = "start" /\ starting' = NoName
    /\ UNCHANGED <<fileVars, last, watch, cfg, stopping, held, adverts, phase, todo, new, names,
                   errors, base, clean, overlap>>

\* The first error ends Reload; d.cfg keeps its value.
ReloadFails(n) ==
    /\ rpc = "start" /\ n \in todo
    /\ StartFails(new[n])
    /\ rpc' = "idle" /\ todo' = {} /\ new' = cfg /\ watch' = "tick" /\ clean' = FALSE
    /\ UNCHANGED <<fileVars, last, cfg, tunnelVars, phase, starting, names, base, overlap,
                   lost>>

ReloadForgetsConfig ==
    /\ rpc = "start" /\ todo = {}
    /\ rpc' = "idle" /\ watch' = "tick"
    /\ UNCHANGED <<fileVars, last, cfg, tunnelVars, phase, todo, new, starting, names, errors,
                   hist>>

ReloadReturns ==
    /\ rpc = "start" /\ todo = {}
    /\ cfg' = new
    /\ rpc' = "idle" /\ watch' = "tick"
    /\ UNCHANGED <<fileVars, last, tunnelVars, phase, todo, new, starting, names, errors,
                   hist>>

------------------------------------------------------------------------------
\* The command's context is done, and with it the daemon's: the Advertise loops
\* end, and the goroutine of each local listener closes it.
Cancel ==
    /\ Stops /\ phase = "up"
    /\ phase' = "cancelled" /\ adverts' = {}
    /\ UNCHANGED <<fileVars, last, watch, cfg, handles, stopping, held, todo, reloadVars, names,
                   errors, hist>>

ListenerDone(r) ==
    /\ Cancelled /\ held[r] = "daemon" /\ \E d \in Defs : d.mode = "client" /\ d.res = r
    /\ held' = [held EXCEPT ![r] = "none"]
    /\ UNCHANGED <<fileVars, last, watch, cfg, handles, stopping, adverts, phase, todo, reloadVars,
                   names, errors, hist>>

\* Close: collect the names of the handles, stop each, close the node.
CloseBegin ==
    /\ phase = "cancelled"
    /\ phase' = "closing"
    /\ names' = In(handles)
    /\ overlap' = (rpc # "idle")
    /\ UNCHANGED <<fileVars, last, watch, cfg, tunnelVars, todo, reloadVars, errors, base, clean,
                   lost>>

CloseStop(n) ==
    /\ phase = "closing" /\ n \in names
    /\ Stop(n, "Close")
    /\ names' = names \ {n}
    /\ UNCHANGED <<fileVars, last, watch, cfg, phase, todo, reloadVars, errors, hist>>

CloseReturnsEarly ==
    /\ phase = "closing"
    /\ phase' = "closed"
    /\ UNCHANGED <<fileVars, last, watch, cfg, tunnelVars, todo, reloadVars, names, errors, hist>>

CloseReturns ==
    /\ phase = "closing" /\ names = {} /\ stopping["Close"] = Absent
    /\ phase' = "closed"
    /\ UNCHANGED <<fileVars, last, watch, cfg, tunnelVars, todo, reloadVars, names, errors, hist>>

\* Another process takes a resource or gives it back.
OtherTakes(r) ==
    /\ Others /\ Alive /\ held[r] = "none"
    /\ held' = [held EXCEPT ![r] = "other"]
    /\ UNCHANGED <<fileVars, last, watch, cfg, handles, stopping, adverts, phase, todo, reloadVars,
                   names, errors, hist>>
OtherReleases(r) ==
    /\ Alive /\ held[r] = "other"
    /\ held' = [held EXCEPT ![r] = "none"]
    /\ UNCHANGED <<fileVars, last, watch, cfg, handles, stopping, adverts, phase, todo, reloadVars,
                   names, errors, hist>>

Working ==
    \/ \E n \in Names : RunStart(n) \/ RunFails(n) \/ ReloadStop(n) \/ ReloadStart(n) \/ ReloadFails(n)
    \/ RunReturns \/ LoadBroken \/ Load \/ Release("Reload") \/ ReloadStopped \/ ReloadInsert
    \/ ReloadReturns \/ WatchReturns
Closing == CloseBegin \/ Release("Close") \/ CloseReturns \/ \E n \in Names : CloseStop(n)
Environment ==
    \/ \E f \in Configs \cup {Broken} : Edit(f)
    \/ Cancel
    \/ \E r \in Resources : ListenerDone(r) \/ OtherTakes(r) \/ OtherReleases(r)

Next == Tick \/ Working \/ Closing \/ Environment
Spec == Init /\ [][Next]_vars

\* The ticker keeps ticking and the goroutines run.
FairSpec == Spec /\ WF_vars(Tick) /\ WF_vars(Working)

------------------------------------------------------------------------------
\* Every variable has its type; Reload is in progress exactly while the watcher
\* is inside it, and nothing is entered into d.handles that is not in the config.
TypeOK ==
    /\ disk \in Configs \cup {Broken} /\ mtime \in Nat /\ last \in Nat
    /\ watch \in {"tick", "load", "reload", "returned"}
    /\ cfg \in Configs /\ handles \in Tables
    /\ stopping \in [Callers -> Defs \cup {Absent}] /\ adverts \subseteq Defs
    /\ held \in [Resources -> {"none", "daemon", "other"}]
    /\ phase \in {"run", "up", "dead", "cancelled", "closing", "closed"}
    /\ todo \subseteq Names
    /\ rpc \in {"idle", "stop", "start", "insert"} /\ new \in Configs /\ starting \in Names
    /\ rpc # "idle" <=> watch = "reload"
    /\ rpc = "insert" => starting \in In(new)
    /\ names \subseteq Names /\ errors \in Nat
    /\ base \in Nat /\ clean \in BOOLEAN /\ overlap \in BOOLEAN /\ lost \subseteq Resources

Owned == {handles[n].res : n \in In(handles)}
Inserting == IF rpc = "insert" THEN {new[starting].res} ELSE {}
Releasing == {stopping[c].res : c \in {x \in Callers : stopping[x] # Absent}}
HeldByDaemon == {r \in Resources : held[r] = "daemon"}

\* While the daemon is up it holds exactly the locks and addresses of the tunnels
\* it runs, starts or stops, and of the handles a Reload has overwritten: nothing
\* else is leaked by stopping, replacing or swapping tunnels, also when a Reload
\* fails half way, whatever other processes do in between.  As long as every
\* Reload has succeeded no handle is overwritten, and what runs is what d.cfg says
\* whenever no Reload is in progress (daemon.go:154-193, 226-243).
ReloadAccounted ==
    phase = "up" =>
        /\ HeldByDaemon = Owned \cup Inserting \cup Releasing \cup lost
        /\ clean => lost = {} /\ (rpc = "idle" => handles = cfg)

\* An edit is applied: as long as no start fails, the daemon ends up running the
\* last content of the file that parses (run_command.go:74-84), also when the
\* file changes between the watcher's look at its time and the reading, or while
\* a Reload is in progress.  Only an edit made before the watcher started is
\* missed (run_command.go:93).
Converges ==
    <>[](phase = "up" /\ clean /\ disk # Broken /\ mtime > base
            => handles = disk /\ cfg = disk)

\* A Close that no Reload overlaps stops every tunnel and every Advertise loop.
\* After whatever sequence of Reloads, the failed ones included, the only locks it
\* leaves behind are those whose handle a later Reload has overwritten in
\* d.handles; when no Reload has failed there are none (daemon.go:184-187,
\* 203-220).
CloseStopsAll ==
    phase = "closed" /\ ~overlap =>
        /\ handles = Nothing /\ adverts = {}
        /\ HeldByDaemon \subseteq lost
        /\ clean => HeldByDaemon = {}

------------------------------------------------------------------------------
\* daemon.go:132-134: Reload diffs against the config the daemon is currently
\* running and stops what disappeared and starts what is new, so after a Reload
\* that returned no error the daemon runs the new config.
ReloadApplied ==
    [][rpc = "start" /\ rpc' = "idle" /\ cfg' = new /\ phase = "up"
          => handles' = new]_vars

ServerPorts == {d.res : d \in {x \in Defs : x.mode = "server"}}

\* daemon.go:203: Close releases every logical-port lock, also when a Reload
\* overlaps it ...
CloseReleasesLocks ==
    phase = "closed" /\ rpc = "idle" => HeldByDaemon \cap ServerPorts = {}

\* ... and when a Reload before it has failed.
CloseReleasesAll == phase = "closed" /\ ~overlap => HeldByDaemon \cap ServerPorts = {}
==============================================================================
