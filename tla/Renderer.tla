------------------------------- MODULE Renderer -------------------------------
(***************************************************************************)
(* A DLNA or AirPlay receiver under the requests of the daemon: the load   *)
(* and play of a connect or a restart, pause and resume, the status polls, *)
(* and the stop of a teardown, which runs in the background and may reach  *)
(* the receiver after the play of the next connect, or not at all when the *)
(* process exits first.  CastDaemon has the session and the tasks around   *)
(* this; here the receiver has a state of its own.                         *)
(***************************************************************************)
EXTENDS Naturals

CONSTANTS
    MaxSessions,  \* bound on connects
    MaxRequests   \* bound on restarts, pauses and resumes

ASSUME BoundsAssumption == MaxSessions \in Nat /\ MaxRequests \in Nat

None == 0

VARIABLES
    receiver,  \* the receiver there is
    tv,        \* what the receiver does: the stream it has, and its transport
    session,   \* Session::session_id, None when idle
    state,     \* Session::state
    active,    \* the session registered in Active, None without one
    step,      \* the mutex is "free", or its holder at "load", "play", "stop", "reload",
               \* "replay" or "exiting"; the process has "exited"
    stops,     \* the sessions whose background stop is on its way
    waited,    \* those whose stop shutdown waits for
    poller,    \* the status poller
    ended,     \* the sessions whose SessionEnded is queued
    ids,       \* sessions begun
    requests   \* restarts, pauses and resumes made

vars ==
    <<receiver, tv, session, state, active, step, stops, waited, poller, ended, ids, requests>>

\* airplay: it is an AirPlay one, else a DLNA renderer.
\* silent: it may leave a stop unanswered past every timeout.
\* late: it may start an AirPlay stream and answer the daemon too late.
Receivers ==
    {r \in [airplay : BOOLEAN, silent : BOOLEAN, late : BOOLEAN] : r.late => r.airplay}

Ids == 1..MaxSessions
Transports == {"stopped", "playing", "paused"}

Off == [on |-> FALSE, seen |-> FALSE, heard |-> "nothing"]
Started == [Off EXCEPT !.on = TRUE]

Init ==
    /\ receiver \in Receivers
    /\ tv = [stream |-> None, transport |-> "stopped"]
    /\ session = None /\ state = "Idle" /\ active = None
    /\ step = "free" /\ stops = {} /\ waited = {}
    /\ poller = Off /\ ended = {} /\ ids = 0 /\ requests = 0

Goto(s) == step' = s

\* Mutation of TakeActive: a receiver whose stream has failed is not stopped.
TakeActiveUnlessFailed ==
    /\ stops' = IF active # None /\ state # "Error" THEN stops \cup {active} ELSE stops
    /\ active' = None /\ poller' = Off

\* disconnect_locked: a registered receiver is stopped in the background and its
\* poller aborted.
TakeActive ==
    /\ stops' = IF active # None THEN stops \cup {active} ELSE stops
    /\ active' = None /\ poller' = Off

Reset == session' = None /\ state' = "Idle"

\* connect: the old session is torn down, the new one published, and the stream
\* served.
Connect ==
    /\ step = "free" /\ ids < MaxSessions
    /\ TakeActive
    /\ ids' = ids + 1 /\ session' = ids' /\ state' = "Connecting"
    /\ Goto("load")
    /\ UNCHANGED <<receiver, tv, waited, ended, requests>>

\* What a receiver that took a stream does: AirPlay's play also starts it.
Loaded == [stream |-> session, transport |-> IF receiver.airplay THEN "playing" ELSE "stopped"]

\* SetAVTransportURI, tried twice, or the AirPlay play.
Load ==
    /\ step \in {"load", "reload"}
    /\ tv' = Loaded
    /\ Goto(IF step = "load" THEN "play" ELSE "replay")
    /\ UNCHANGED <<receiver, session, state, active, stops, waited, poller, ended, ids, requests>>

\* The load fails: refused, lost, or taken by a receiver that answers too late.
\* A connect has registered nothing that could be stopped.
LoadFails ==
    /\ step = "load"
    /\ \/ UNCHANGED tv
       \/ receiver.late /\ tv' = [stream |-> session, transport |-> "playing"]
    /\ TakeActive /\ Reset
    /\ Goto("free")
    /\ UNCHANGED <<receiver, waited, ended, ids, requests>>

\* A restart whose load fails, in either way, keeps its receiver; fail_session reports
\* the end.
ReloadFails ==
    /\ step = "reload"
    /\ \/ UNCHANGED tv
       \/ receiver.late /\ tv' = [stream |-> session, transport |-> "playing"]
    /\ poller' = Started
    /\ state' = "Error" /\ ended' = ended \cup {session}
    /\ Goto("free")
    /\ UNCHANGED <<receiver, session, active, stops, waited, ids, requests>>

\* The Play of a DLNA renderer, whose outcome is not looked at (AirPlay's rate
\* changes nothing, its stream plays or was stopped); the poller starts, the
\* receiver is registered.
Play ==
    /\ step \in {"play", "replay"}
    /\ \/ ~receiver.airplay /\ tv' = [tv EXCEPT !.transport = "playing"]
       \/ UNCHANGED tv
    /\ active' = session /\ poller' = Started
    /\ state' = "Buffering"
    /\ Goto("free")
    /\ UNCHANGED <<receiver, session, stops, waited, ended, ids, requests>>

\* restart_dlna, restart_airplay: the poller is aborted and the receiver stopped,
\* which is waited for, answered or not.
Restart ==
    /\ step = "free" /\ active # None /\ requests < MaxRequests
    /\ state \notin {"Idle", "Stopped"}
    /\ requests' = requests + 1
    /\ poller' = Off
    /\ Goto("stop")
    /\ UNCHANGED <<receiver, tv, session, state, active, stops, waited, ended, ids>>

RestartStops ==
    /\ step = "stop"
    /\ \/ tv' = [tv EXCEPT !.transport = "stopped"]
       \/ receiver.silent /\ UNCHANGED tv
    /\ Goto("reload")
    /\ UNCHANGED <<receiver, session, state, active, stops, waited, poller, ended, ids, requests>>

\* pause and resume: the request, taken or not, and then the session's state.
Flip(from, to, before, after) ==
    /\ step = "free" /\ active # None /\ requests < MaxRequests
    /\ requests' = requests + 1
    /\ \/ tv.transport = from /\ tv' = [tv EXCEPT !.transport = to]
       \/ UNCHANGED tv
    /\ state' = IF state = before THEN after ELSE state
    /\ UNCHANGED <<receiver, session, active, step, stops, waited, poller, ended, ids>>

Pause == Flip("playing", "paused", "Playing", "Paused")
Resume == Flip("paused", "playing", "Paused", "Playing")

Disconnect ==
    /\ step = "free" /\ ids > 0
    /\ TakeActive /\ Reset
    /\ UNCHANGED <<receiver, tv, step, waited, ended, ids, requests>>

\* auto_stop of a SessionEnded: only the session it names, and only when that has
\* ended indeed.
AutoStop(s) ==
    /\ step = "free" /\ s \in ended
    /\ ended' = ended \ {s}
    /\ IF session = s /\ state \in {"Stopped", "Error"}
       THEN TakeActive /\ Reset
       ELSE UNCHANGED <<session, state, active, stops, poller>>
    /\ UNCHANGED <<receiver, tv, step, waited, ids, requests>>

\* A background stop reaches the receiver, whatever it plays by now.
StopArrives(s) ==
    /\ s \in stops /\ step # "exited"
    /\ stops' = stops \ {s}
    /\ \/ tv' = [tv EXCEPT !.transport = "stopped"]
       \/ receiver.silent /\ UNCHANGED tv
    /\ UNCHANGED <<receiver, session, state, active, step, waited, poller, ended, ids, requests>>

\* The receiver reaches the end of the stream, or is stopped with its remote.
TvStops ==
    /\ tv.transport # "stopped" /\ step # "exited"
    /\ tv' = [tv EXCEPT !.transport = "stopped"]
    /\ UNCHANGED <<receiver, session, state, active, step, stops, waited, poller, ended, ids,
                   requests>>

\* What a poll without an answer, or with one that cannot be read, counts as: no
\* playback for AirPlay, whose receiver is taken to answer so when it is at rest.
\* TRANSITIONING, on the way to playing, is left out.
Unanswered == IF receiver.airplay THEN "stopped" ELSE "unknown"

\* A poll: GetTransportInfo or playback-info, one await before its verdict.
PollAsks ==
    /\ poller.on /\ poller.heard = "nothing" /\ step # "exited"
    /\ \E heard \in {tv.transport, Unanswered} : poller' = [poller EXCEPT !.heard = heard]
    /\ UNCHANGED <<receiver, tv, session, state, active, step, stops, waited, ended, ids, requests>>

\* The session and the poller after a poll that heard of playback.
Follows(s) ==
    /\ state' = s
    /\ poller' = [poller EXCEPT !.seen = TRUE, !.heard = "nothing"]
    /\ UNCHANGED ended

\* The verdict that ends the session and the poller.
Ends(s) ==
    /\ state' = s
    /\ poller' = Off
    /\ ended' = ended \cup {session}

Waits ==
    /\ poller' = [poller EXCEPT !.heard = "nothing"]
    /\ UNCHANGED <<state, ended>>

\* Mutation of Verdict: paused playback is not told to the session.
VerdictUnpaused ==
    \/ poller.heard = "playing" /\ Follows("Playing")
    \/ poller.heard = "paused" /\ Waits
    \/ poller.heard = "stopped" /\ poller.seen /\ Ends("Stopped")
    \/ poller.heard = "stopped" /\ ~poller.seen /\ (Waits \/ Ends("Error"))
    \/ poller.heard = "unknown" /\ (Waits \/ Ends("Error"))

\* Mutation of Verdict: a receiver that never played is waited for.
VerdictWaits ==
    \/ poller.heard = "playing" /\ Follows("Playing")
    \/ poller.heard = "paused" /\ Follows("Paused")
    \/ poller.heard = "stopped" /\ poller.seen /\ Ends("Stopped")
    \/ poller.heard = "stopped" /\ ~poller.seen /\ Waits
    \/ poller.heard = "unknown" /\ (Waits \/ Ends("Error"))

\* STOPPED after playback ends the session; before it, START_GRACE does, and so do
\* twenty polls in a row without an answer.
Verdict ==
    \/ poller.heard = "playing" /\ Follows("Playing")
    \/ poller.heard = "paused" /\ Follows("Paused")
    \/ poller.heard = "stopped" /\ poller.seen /\ Ends("Stopped")
    \/ poller.heard = "stopped" /\ ~poller.seen /\ (Waits \/ Ends("Error"))
    \/ poller.heard = "unknown" /\ (Waits \/ Ends("Error"))

PollApplies ==
    /\ poller.on /\ poller.heard # "nothing" /\ step # "exited"
    /\ Verdict
    /\ UNCHANGED <<receiver, tv, session, active, step, stops, waited, ids, requests>>

\* Daemon::shutdown: the stop of this teardown is waited for, up to
\* SHUTDOWN_GRACE; one that an earlier teardown sent is not.
Shutdown ==
    /\ step = "free"
    /\ TakeActive
    /\ waited' = stops' \ stops
    /\ Goto("exiting")
    /\ UNCHANGED <<receiver, tv, session, state, ended, ids, requests>>

\* process::exit: requests that are still on their way are gone.
Exit ==
    /\ step = "exiting"
    /\ receiver.silent \/ waited \cap stops = {}
    /\ Goto("exited") /\ stops' = {}
    /\ UNCHANGED <<receiver, tv, session, state, active, waited, poller, ended, ids, requests>>

Next ==
    \/ Connect \/ Load \/ LoadFails \/ ReloadFails \/ Play
    \/ Restart \/ RestartStops \/ Pause \/ Resume
    \/ Disconnect \/ (\E s \in Ids : AutoStop(s) \/ StopArrives(s))
    \/ TvStops \/ PollAsks \/ PollApplies \/ Shutdown \/ Exit

\* The poller ticks, START_GRACE and the limit on lost polls pass, the holder of the
\* mutex goes on, stops are sent and events are handled.
GraceEnds == PollApplies /\ state' = "Error"

Fairness ==
    /\ WF_vars(PollAsks) /\ WF_vars(PollApplies) /\ SF_vars(GraceEnds)
    /\ WF_vars(Load \/ LoadFails \/ ReloadFails) /\ WF_vars(Play)
    /\ WF_vars(RestartStops) /\ WF_vars(Exit)
    /\ \A s \in Ids : WF_vars(StopArrives(s)) /\ SF_vars(AutoStop(s))

Spec == Init /\ [][Next]_vars

FairSpec == Spec /\ Fairness

-------------------------------------------------------------------------------

\* When nothing is cast and every stop has arrived, a receiver that answers in time
\* is at rest: no path out of a connect, a restart or a session leaves it playing a
\* stream whose server is gone.
RestIsQuiet ==
    ~receiver.silent /\ ~receiver.late /\ step = "free" /\ session = None /\ stops = {}
        => tv.transport = "stopped"

\* A session whose receiver has stopped, by its remote, at the end of the file, or
\* by the late stop of an older session, is over in the end or plays again.
StoppedIsNoticed ==
    \A s \in Ids :
        session = s /\ active = s /\ tv.transport = "stopped"
            ~> session # s \/ tv.transport # "stopped" \/ step = "exited"

\* The panel comes to show what the receiver does: a pause that was not taken, or
\* a poll that overtook one, is put right by a later poll.
StateSettles ==
    \A s \in Ids :
        /\ <>[](active = s /\ step = "free" /\ tv.transport = "paused")
             => <>[](state = "Paused")
        /\ <>[](active = s /\ step = "free" /\ tv.transport = "playing")
             => <>[](state = "Playing")
===============================================================================
