------------------------------ MODULE DaemonStart ------------------------------
(***************************************************************************)
(* Starting and stopping the daemon: main and Daemon::shutdown of          *)
(* daemon.rs, the daemon lock of util.rs, and ensure of client.rs, which   *)
(* every command of the panel and the shell runs first.                    *)
(*                                                                         *)
(* A daemon process owns what its socket file, its lock and its converted  *)
(* subtitles are; the files outlive it, the lock does not.  systemd starts *)
(* the unit's process once and again after a crash (Restart=on-failure).   *)
(* A client that has waited long enough gives up: a daemon on its way to   *)
(* serving is assumed to get there in that time.                           *)
(***************************************************************************)

CONSTANTS
    Daemons,   \* daemon processes, each started once: the bound on starts
    Clients,   \* client processes, each running one command
    Nobody     \* no process

ASSUME NobodyAssumption == Nobody \notin Daemons

VARIABLES
    at,        \* where each daemon process is
    unit,      \* the daemons that systemd started
    restart,   \* systemd will start the unit again
    lock,      \* who holds castd.lock
    socket,    \* who bound the socket file that is there
    files,     \* whose converted subtitles are on disk
    converted, \* the daemons that have converted any
    setup,     \* what the client finds: its own unit, a trusted executable that starts
    client,    \* where each client is
    calm       \* the running clients since whose start no daemon was on its way out

vars == <<at, unit, restart, lock, socket, files, converted, setup, client, calm>>
daemonVars == <<at, unit, restart, lock, socket, files, converted>>
clientVars == <<setup, client, calm>>

Starting == {"started", "locked", "alone", "unlinked", "ready"}
Leaving == {"stopping", "leaving"}
Steps == {"absent", "serving", "gone"} \cup Starting \cup Leaving
Init ==
    /\ at = [d \in Daemons |-> "absent"]
    /\ unit = {} /\ restart \in BOOLEAN
    /\ lock = Nobody /\ socket = Nobody
    /\ files = {} /\ converted = {}
    /\ setup \in [ours : BOOLEAN, trusted : BOOLEAN, spawns : BOOLEAN]
    /\ client = [c \in Clients |-> "idle"]
    /\ calm = {}

Running(d) == at[d] \notin {"absent", "gone"}

\* ping_sync: the socket file leads to a process that still accepts.
Answers == socket # Nobody /\ at[socket] \in {"serving", "stopping"}

Goto(d, step) == at' = [at EXCEPT ![d] = step]

\* The process is over; the kernel releases its lock.
Ended(d) == Goto(d, "gone") /\ lock' = IF lock = d THEN Nobody ELSE lock

\* A process of the daemon is started, by systemd or not.
Fork(d, units) ==
    /\ at[d] = "absent"
    /\ Goto(d, "started")
    /\ unit' = unit \cup units

\* Mutation of Acquire: the daemon goes on whoever has the lock.
AcquireAnyway(d) ==
    /\ at[d] = "started"
    /\ lock' = d /\ Goto(d, "locked")
    /\ UNCHANGED <<unit, restart, socket, files, converted, clientVars>>

\* Mutation of Acquire: the cleanup is done before the lock is asked for.
AcquireAfterCleanup(d) ==
    /\ at[d] = "started"
    /\ files' = {}
    /\ IF lock = Nobody
       THEN lock' = d /\ Goto(d, "locked")
       ELSE Ended(d)
    /\ UNCHANGED <<unit, restart, socket, converted, clientVars>>

\* acquire_daemon_lock, without waiting: a second daemon leaves.
Acquire(d) ==
    /\ at[d] = "started"
    /\ IF lock = Nobody
       THEN lock' = d /\ Goto(d, "locked")
       ELSE Ended(d)
    /\ UNCHANGED <<unit, restart, socket, files, converted, clientVars>>

\* The lock holder asks whether another daemon answers all the same.
PingOther(d) ==
    /\ at[d] = "locked"
    /\ IF Answers THEN Ended(d) ELSE Goto(d, "alone") /\ UNCHANGED lock
    /\ UNCHANGED <<unit, restart, socket, files, converted, clientVars>>

\* Mutation of RemoveSocket: what a killed daemon left stays.
RemoveSocketNot(d) ==
    /\ at[d] = "alone"
    /\ Goto(d, "unlinked")
    /\ UNCHANGED <<unit, restart, lock, socket, files, converted, clientVars>>

\* The socket file a previous daemon left is removed, and then its subtitles.
RemoveSocket(d) ==
    /\ at[d] = "alone"
    /\ socket' = Nobody
    /\ Goto(d, "unlinked")
    /\ UNCHANGED <<unit, restart, lock, files, converted, clientVars>>

RemoveSubtitles(d) ==
    /\ at[d] = "unlinked"
    /\ files' = {}
    /\ Goto(d, "ready")
    /\ UNCHANGED <<unit, restart, lock, socket, converted, clientVars>>

\* run_socket_server binds the socket; with a file there the daemon is over.
Bind(d) ==
    /\ at[d] = "ready"
    /\ IF socket = Nobody
       THEN socket' = d /\ Goto(d, "serving") /\ UNCHANGED lock
       ELSE Ended(d) /\ UNCHANGED socket
    /\ UNCHANGED <<unit, restart, files, converted, clientVars>>

\* A session of the daemon converts a subtitle track.
Convert(d) ==
    /\ at[d] = "serving"
    /\ files' = files \cup {d} /\ converted' = converted \cup {d}
    /\ UNCHANGED <<at, unit, restart, lock, socket, clientVars>>

\* SIGTERM or SIGINT: shutdown begins, with the socket still served.
Terminate(d) ==
    /\ at[d] = "serving"
    /\ Goto(d, "stopping")
    /\ calm' = {}
    /\ UNCHANGED <<unit, restart, lock, socket, files, converted, setup, client>>

\* shutdown has torn the session down, its subtitles with it, and removes the
\* socket file.
Unlink(d) ==
    /\ at[d] = "stopping"
    /\ socket' = Nobody
    /\ files' = files \ {d} /\ converted' = converted \ {d}
    /\ Goto(d, "leaving")
    /\ UNCHANGED <<unit, restart, lock, clientVars>>

\* process::exit
Exit(d) ==
    /\ at[d] = "leaving"
    /\ Ended(d)
    /\ UNCHANGED <<unit, restart, socket, files, converted, clientVars>>

\* The process is killed or crashes: files stay; systemd starts its own again.
Kill(d) ==
    /\ Running(d)
    /\ Ended(d)
    /\ restart' = (restart \/ d \in unit)
    /\ calm' = {}
    /\ UNCHANGED <<unit, socket, files, converted, setup, client>>

UnitRuns == \E d \in unit : Running(d)

\* systemd starts the unit, at login or after a crash.
StartUnit(d) ==
    /\ restart /\ ~UnitRuns
    /\ Fork(d, {d}) /\ restart' = FALSE
    /\ UNCHANGED <<lock, socket, files, converted, clientVars>>

DaemonStep(d) ==
    \/ Acquire(d) \/ PingOther(d) \/ RemoveSocket(d) \/ RemoveSubtitles(d) \/ Bind(d)
    \/ Convert(d) \/ Terminate(d) \/ Unlink(d) \/ Exit(d) \/ Kill(d) \/ StartUnit(d)

ClientGoto(c, step) == client' = [client EXCEPT ![c] = step]

\* A command begins.
Begin(c) ==
    /\ client[c] = "idle"
    /\ ClientGoto(c, "ping")
    /\ calm' = IF \E d \in Daemons : at[d] \in Leaving THEN calm \ {c} ELSE calm \cup {c}
    /\ UNCHANGED <<daemonVars, setup>>

\* A ping that is answered ends every wait of ensure; otherwise the first one
\* leads on to a start, when trusted_daemon allows one.
Ping(c) ==
    /\ \/ Answers /\ client[c] \in {"ping", "waitUnit", "wait"} /\ ClientGoto(c, "available")
       \/ /\ ~Answers /\ client[c] = "ping"
          /\ ClientGoto(c, IF setup.trusted THEN "install" ELSE "unavailable")
    /\ UNCHANGED <<daemonVars, setup, calm>>

\* install_unit leaves a unit that is not its own alone, or systemctl fails.
InstallFails(c) ==
    /\ client[c] = "install"
    /\ ClientGoto(c, "spawn")
    /\ UNCHANGED <<daemonVars, setup, calm>>

\* systemctl enable --now, which starts the unit unless it runs.
Enable(c) ==
    /\ client[c] = "install" /\ setup.ours
    /\ IF UnitRuns THEN UNCHANGED <<at, unit, restart>>
       ELSE \E d \in Daemons : Fork(d, {d}) /\ restart' = FALSE
    /\ ClientGoto(c, "waitUnit")
    /\ UNCHANGED <<lock, socket, files, converted, setup, calm>>

\* The pings of a wait are used up: no daemon answers or is about to.
GiveUp(c) ==
    /\ client[c] \in {"waitUnit", "wait"} /\ ~Answers
    /\ \A d \in Daemons : at[d] \notin Starting
    /\ ClientGoto(c, IF client[c] = "waitUnit" THEN "spawn" ELSE "unavailable")
    /\ UNCHANGED <<daemonVars, setup, calm>>

\* detached_command: a daemon outside systemd, if the process can be started.
Spawn(c) ==
    /\ client[c] = "spawn"
    /\ \/ (\E d \in Daemons : Fork(d, {})) /\ ClientGoto(c, "wait")
       \/ ~setup.spawns /\ ClientGoto(c, "unavailable") /\ UNCHANGED <<at, unit>>
    /\ UNCHANGED <<restart, lock, socket, files, converted, setup, calm>>

\* send: the request itself, to whoever serves now.
Send(c) ==
    /\ client[c] = "available"
    /\ ClientGoto(c, IF Answers THEN "answered" ELSE "unavailable")
    /\ UNCHANGED <<daemonVars, setup, calm>>

ClientStep(c) ==
    Begin(c) \/ Ping(c) \/ InstallFails(c) \/ Enable(c) \/ GiveUp(c) \/ Spawn(c) \/ Send(c)

Next == (\E d \in Daemons : DaemonStep(d)) \/ (\E c \in Clients : ClientStep(c))

Spec == Init /\ [][Next]_vars

-------------------------------------------------------------------------------

\* A daemon that serves can be reached: no other daemon, starting or exiting,
\* removes its socket file from under it (daemon.rs:1656, 1427).
ServingIsReachable == \A d \in Daemons : at[d] = "serving" => socket = d

\* The cleanup of a starting daemon never takes the subtitles of one that serves
\* them ("we hold the lock, so nothing else is using them", daemon.rs:1658).
SubtitlesAreSafe == \A d \in converted : at[d] = "serving" => d \in files

\* A trusted client that can start a process, and whose command did not meet a daemon
\* on its way out, gets its answer, whatever a crash before it left behind and whoever
\* else starts one.
CalmIsAnswered ==
    \A c \in calm : client[c] = "unavailable" => ~(setup.trusted /\ setup.spawns)
===============================================================================
