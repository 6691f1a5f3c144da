----------------------------- MODULE CastWatcher -----------------------------
(***************************************************************************)
(* What the daemon relies on when it starts a Google Cast thread           *)
(* (cast::connect): the thread writes the shared Session only while the    *)
(* session is still its own; it announces SessionEnded at most once, after *)
(* its last write; and once it was told to shut down, or its session is    *)
(* gone, it may leave without a word.  CastDaemon gives its Cast watchers  *)
(* exactly these steps; CastSession shows that run_session takes no other. *)
(***************************************************************************)
VARIABLES
    mine,      \* the shared Session still has this thread's id
    state,     \* its SessionState
    told,      \* CastCommand::Shutdown was sent
    phase,     \* what the thread may still do
    announced  \* SessionEnded was sent

vars == <<mine, state, told, phase, announced>>

Init ==
    /\ mine = TRUE
    /\ state = "Connecting"
    /\ told = FALSE
    /\ phase = "handshake"
    /\ announced = FALSE

Ready ==
    /\ phase = "handshake"
    /\ phase' = "greet"
    /\ UNCHANGED <<mine, state, told, announced>>

Refused ==
    /\ phase = "handshake"
    /\ phase' = "gone"
    /\ UNCHANGED <<mine, state, told, announced>>

\* The status the load answered with; that it may say "ended" is ignored.
Greet ==
    /\ phase = "greet"
    /\ state' # state => mine
    /\ state' \in {state, "Playing", "Paused", "Buffering", "Stopped", "Error"}
    /\ phase' = "running"
    /\ UNCHANGED <<mine, told, announced>>

Publish ==
    /\ phase = "running"
    /\ mine
    /\ state' \in {"Playing", "Paused", "Buffering"}
    /\ UNCHANGED <<mine, told, phase, announced>>

\* The receiver ends the media, or the link is lost.
End ==
    /\ phase = "running"
    /\ \E verdict \in {"Stopped", "Error"} :
         /\ verdict = "Stopped" => mine
         /\ state' = IF mine THEN verdict ELSE state
    /\ phase' = "announce"
    /\ UNCHANGED <<mine, told, announced>>

Announce ==
    /\ phase = "announce"
    /\ announced' = TRUE
    /\ phase' = "gone"
    /\ UNCHANGED <<mine, state, told>>

Leave ==
    /\ phase = "running"
    /\ told \/ ~mine
    /\ phase' = "gone"
    /\ UNCHANGED <<mine, state, told, announced>>

\* The daemon: pause and resume write the state at once, Shutdown is queued,
\* and only then is the session reset.
Daemon ==
    /\ \/ ~told /\ told' = TRUE /\ UNCHANGED <<mine, state>>
       \/ ~told /\ mine /\ state' \in {"Playing", "Paused"} /\ UNCHANGED <<mine, told>>
       \/ told /\ mine /\ mine' = FALSE /\ state' = "Idle" /\ UNCHANGED told
    /\ UNCHANGED <<phase, announced>>

Next ==
    Ready \/ Refused \/ Greet \/ Publish \/ End \/ Announce \/ Leave \/ Daemon

Spec == Init /\ [][Next]_vars
===============================================================================
