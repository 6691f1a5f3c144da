--------------------------- MODULE SessionLifecycle ---------------------------
(***************************************************************************)
(* What the daemon promises about a cast, whatever the receiver does and   *)
(* however commands, status pollers and the auto-stop task interleave:     *)
(*                                                                         *)
(*   - there is at most one session; every session gets an id that was     *)
(*     never used before (Daemon::next_session_id);                        *)
(*   - a file is served only for a session, through one media server at a  *)
(*     time;                                                               *)
(*   - a session is left, for "idle" or for the next session, only when    *)
(*     its media server is down.                                           *)
(*                                                                         *)
(* The stages group SessionState (state.rs): "Live" is Buffering, Playing  *)
(* or Paused, "Ended" is Stopped or Error.  CastDaemon implements this     *)
(* specification (checked as a PROPERTY of a run, proved in                *)
(* CastDaemonProofs).                                                      *)
(***************************************************************************)
EXTENDS Naturals

VARIABLES
    current,  \* id of the current session, 0 when there is none
    stage,    \* what the session has come to
    lastUsed, \* the highest id ever given out
    serving   \* whether a media server runs

vars == <<current, stage, lastUsed, serving>>

Init ==
    /\ current = 0
    /\ stage = "Idle"
    /\ lastUsed = 0
    /\ serving = FALSE

\* A connect opens a session.  It may replace one, whose server is then down.
Open ==
    /\ ~serving
    /\ lastUsed' = lastUsed + 1
    /\ current' = lastUsed'
    /\ stage' = "Connecting"
    /\ UNCHANGED serving

\* The media server comes up, at connect or for a restream.
Serve ==
    /\ current # 0
    /\ ~serving
    /\ serving' = TRUE
    /\ UNCHANGED <<current, stage, lastUsed>>

\* The media server goes down, for a restream or for good.
Unserve ==
    /\ serving
    /\ serving' = FALSE
    /\ UNCHANGED <<current, stage, lastUsed>>

\* Playback is reported, or fails or finishes; a reload revives an ended
\* session that was not torn down yet.  No session goes back to connecting.
Report ==
    /\ current # 0
    /\ stage' \in {"Live", "Ended"}
    /\ UNCHANGED <<current, lastUsed, serving>>

\* The session is over.
Close ==
    /\ current # 0
    /\ ~serving
    /\ current' = 0
    /\ stage' = "Idle"
    /\ UNCHANGED <<lastUsed, serving>>

Next == Open \/ Serve \/ Unserve \/ Report \/ Close

Spec == Init /\ [][Next]_vars
===============================================================================
