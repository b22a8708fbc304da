--------------------------- MODULE WorkerElection ---------------------------
(***************************************************************************)
(* Which processes drain the queue: the lifespan of every web process      *)
(* (main.py) connects to the database, tries once to take a host-wide file *)
(* lock, and drains while it holds it; the standalone service (worker.py)  *)
(* drains without the lock.  Processes are stopped, killed and started     *)
(* again by systemd or uvicorn's supervisor, and the database comes and    *)
(* goes.                                                                   *)
(***************************************************************************)
EXTENDS Naturals

CONSTANTS
  Web,            \* web processes (uvicorn workers)
  Services,       \* processes of the standalone queue service
  EnvFiles,       \* MEDIA_QUEUE_WORKER_ENABLED in the unit's EnvironmentFile: its possible values
  UnitSetting,    \* MEDIA_QUEUE_WORKER_ENABLED in the unit's Environment=
  Posix,          \* fcntl exists; elsewhere the lock is granted to everyone
  ConnectTries,   \* attempts of connect_db
  MaxKills        \* bound: processes killed in the run

Processes == Web \cup Services
Nobody == "nobody"

ASSUME ElectionAssumption ==
  /\ Web \cap Services = {} /\ Nobody \notin Processes
  /\ EnvFiles \subseteq {"unset", "true", "false"} /\ UnitSetting \in {"unset", "true", "false"}
  /\ Posix \in BOOLEAN /\ ConnectTries \in Nat \ {0} /\ MaxKills \in Nat

VARIABLES
  envFile,       \* what the deployed EnvironmentFile says; it does not change
  place,         \* where each process is in its life
  tries,         \* attempts of connect_db so far
  connected,     \* is the process's Prisma client connected?
  reconnecting,  \* is its _keep_db_connected task alive?
  holder,        \* who holds the file lock
  dbUp,          \* does the database accept connections?
  kills
electionVars == <<envFile, place, tries, connected, reconnecting, holder, dbUp, kills>>
connectionVars == <<tries, connected, reconnecting>>

Places == {"down", "connecting", "electing", "serving", "draining", "stopping", "leaving"}

\* A value in the EnvironmentFile wins over Environment=; the setting's own
\* default is true.
WorkerEnabled ==
  \/ envFile = "true"
  \/ envFile = "unset" /\ UnitSetting # "false"

MoveTo(p, to) == place' = [place EXCEPT ![p] = to]

Boot(p) ==
  /\ place[p] = "down"
  /\ MoveTo(p, "connecting")
  /\ tries' = [tries EXCEPT ![p] = 1]
  /\ UNCHANGED <<envFile, connected, reconnecting, holder, dbUp, kills>>

\* connect_db; the web process goes on without a database and reconnects in
\* the background, the service tries again before every iteration.
AfterConnect(p) == IF p \in Web THEN "electing" ELSE "draining"

TriesLeft(p) == tries[p] < ConnectTries

Connect(p) ==
  /\ place[p] = "connecting"
  /\ \/ /\ dbUp
        /\ MoveTo(p, AfterConnect(p))
        /\ connected' = [connected EXCEPT ![p] = TRUE]
        /\ UNCHANGED <<tries, reconnecting>>
     \/ /\ ~dbUp /\ TriesLeft(p)
        /\ tries' = [tries EXCEPT ![p] = @ + 1]
        /\ UNCHANGED <<place, connected, reconnecting>>
     \/ /\ ~dbUp /\ ~TriesLeft(p)
        /\ MoveTo(p, AfterConnect(p))
        /\ reconnecting' = [reconnecting EXCEPT ![p] = (p \in Web)]
        /\ UNCHANGED <<tries, connected>>
  /\ UNCHANGED <<envFile, holder, dbUp, kills>>

Reconnects_WebOnly(p) == reconnecting[p]   \* mutant: the service connects once, at start
Reconnects_ServiceOnly(p) ==   \* mutant: nothing retries for a web process
  p \in Services /\ place[p] = "draining" /\ ~connected[p]
Reconnects(p) ==
  \/ reconnecting[p]
  \/ p \in Services /\ place[p] = "draining" /\ ~connected[p]

Reconnect(p) ==
  /\ Reconnects(p) /\ dbUp
  /\ connected' = [connected EXCEPT ![p] = TRUE]
  /\ reconnecting' = [reconnecting EXCEPT ![p] = FALSE]
  /\ UNCHANGED <<envFile, place, tries, holder, dbUp, kills>>

\* _acquire_queue_worker_lock: LOCK_NB, tried once in the life of a process.
Granted_PidFile(p) == TRUE   \* mutant: opening the file is taken for the lock
Granted(p) == holder = Nobody

Elect(p) ==
  /\ place[p] = "electing"
  /\ IF ~WorkerEnabled \/ (Posix /\ ~Granted(p))
     THEN MoveTo(p, "serving") /\ UNCHANGED holder
     ELSE MoveTo(p, "draining") /\ holder' = IF Posix THEN p ELSE holder
  /\ UNCHANGED <<envFile, connectionVars, dbUp, kills>>

\* Shutdown.  The queue task is cancelled, or the service's stop event set;
\* until the task is awaited it still drains: a call of it may be in flight.
Unlock(p) == IF holder = p THEN Nobody ELSE holder
Released(p) == holder
Stop(p) ==
  /\ place[p] \in {"serving", "draining"}
  /\ MoveTo(p, IF place[p] = "draining" THEN "stopping" ELSE "leaving")
  /\ reconnecting' = [reconnecting EXCEPT ![p] = FALSE]
  /\ holder' = Released(p)
  /\ UNCHANGED <<envFile, tries, connected, dbUp, kills>>

\* await queue_task, then close the lock; the service ends its iteration.
Settle(p) ==
  /\ place[p] = "stopping"
  /\ MoveTo(p, "leaving") /\ holder' = Unlock(p)
  /\ UNCHANGED <<envFile, connectionVars, dbUp, kills>>

\* disconnect_db, and the process ends.
Exit(p) ==
  /\ place[p] = "leaving"
  /\ MoveTo(p, "down")
  /\ connected' = [connected EXCEPT ![p] = FALSE]
  /\ UNCHANGED <<envFile, tries, reconnecting, holder, dbUp, kills>>

\* SIGKILL: the kernel drops the lock with the process.
LockAfterKill_Never(p) == holder   \* mutant: a lock file that outlives its owner
LockAfterKill(p) == Unlock(p)
Kill(p) ==
  /\ kills < MaxKills /\ kills' = kills + 1
  /\ place[p] # "down"
  /\ MoveTo(p, "down") /\ holder' = LockAfterKill(p)
  /\ connected' = [connected EXCEPT ![p] = FALSE]
  /\ reconnecting' = [reconnecting EXCEPT ![p] = FALSE]
  /\ UNCHANGED <<envFile, tries, dbUp>>

\* The pooler fills up or drains; an open connection survives it.
ToggleDb == dbUp' = ~dbUp /\ UNCHANGED <<envFile, place, connectionVars, holder, kills>>

ElectionInit ==
  /\ envFile \in EnvFiles
  /\ place = [p \in Processes |-> "down"]
  /\ tries = [p \in Processes |-> 0]
  /\ connected = [p \in Processes |-> FALSE]
  /\ reconnecting = [p \in Processes |-> FALSE]
  /\ holder = Nobody /\ dbUp \in BOOLEAN /\ kills = 0

Runs(p) == Boot(p) \/ Connect(p) \/ Reconnect(p) \/ (p \in Web /\ Elect(p)) \/ Settle(p) \/ Exit(p)
ElectionNext ==
  \/ \E p \in Processes : Runs(p) \/ Stop(p) \/ Kill(p)
  \/ ToggleDb

ElectionSpec == ElectionInit /\ [][ElectionNext]_electionVars

\* systemd (Restart=always) starts what has exited; a process's tasks run.
ElectionFairness == \A p \in Processes :
  /\ WF_electionVars(Boot(p) \/ Connect(p) \/ (p \in Web /\ Elect(p)) \/ Settle(p) \/ Exit(p))
  /\ WF_electionVars(Reconnect(p))
ElectionFairSpec == ElectionSpec /\ ElectionFairness

-----------------------------------------------------------------------------
(* Properties                                                              *)

\* Every variable has the values its declaration describes.
ElectionTypeOK ==
  /\ envFile \in EnvFiles
  /\ place \in [Processes -> Places]
  /\ tries \in [Processes -> 0..ConnectTries]
  /\ connected \in [Processes -> BOOLEAN] /\ reconnecting \in [Processes -> BOOLEAN]
  /\ holder \in Web \cup {Nobody} /\ dbUp \in BOOLEAN /\ kills \in 0..MaxKills

Draining(p) == place[p] \in {"draining", "stopping"}

\* However they are started, stopped and killed, one web process at a time
\* drains the queue: the queue's cooldown lives in that process.
OneElected == \A p, q \in Web : Draining(p) /\ Draining(q) => p = q

\* Why: a web process holds the lock for as long as it drains, until its queue
\* task has ended, and nobody else holds it.
LockInv ==
  /\ \A p \in Web : Draining(p) => holder = p
  /\ holder # Nobody => Draining(holder)

\* Only one process drains the queue, services included: what the units of the
\* deployment script, and the architecture's "single elected worker", are for.
OneDrainer == \A p, q \in Processes : Draining(p) /\ Draining(q) => p = q

\* No kill, no stop and no lost election leaves the queue for ever without its
\* drainers, once the database stays up: an elected web process where the
\* in-process queue is on, and the service.
Serving(p) == Draining(p) /\ connected[p]
QueueServed ==
  <>[]dbUp => /\ WorkerEnabled => []<>(\E p \in Web : Serving(p))
              /\ \A p \in Services : []<>Serving(p)

\* A process that came up without a database gets it, unless it is stopped.
Reconnected ==
  <>[]dbUp => \A p \in Processes :
    place[p] \in {"serving", "draining"} ~> connected[p] \/ place[p] \in {"stopping", "leaving", "down"}
=============================================================================
