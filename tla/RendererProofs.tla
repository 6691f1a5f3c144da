---------------------------- MODULE RendererProofs ----------------------------
(***************************************************************************)
(* A receiver that answers in time is at rest when nothing is cast, for    *)
(* any number of sessions and requests.                                    *)
(*                                                                         *)
(* RestIsQuiet looks at the moment after a teardown; the strengthening     *)
(* says at every moment who will stop a receiver that plays: the session   *)
(* registered in Active, a stop on its way, or the connect that is about   *)
(* to register it.                                                         *)
(***************************************************************************)
EXTENDS Renderer, TLAPS

\* A command at work has a session, and a restart its receiver.
WorkHasSession ==
    /\ session \in Nat
    /\ step \in {"load", "play", "stop", "reload", "replay"} => session # None
    /\ step \in {"stop", "reload", "replay"} => active # None

\* Somebody will stop a receiver that plays.
PlayingIsOwned ==
    \/ tv.transport = "stopped"
    \/ active # None \/ stops # {}
    \/ step \in {"play", "exiting", "exited"}

\* Who is registered is the session, or nobody is.
RegisteredIsSession == ids \in Nat /\ active \in {None, session}

IInv == WorkHasSession /\ PlayingIsOwned /\ RegisteredIsSession
    /\ tv \in [stream : Nat, transport : Transports]

LEMMA InitIInv == Init => IInv
BY DEF Init, IInv, WorkHasSession, PlayingIsOwned, RegisteredIsSession, Transports, None

\* The steps of the commands and of the receiver.
LEMMA NextIInv ==
    ASSUME ~receiver.silent, ~receiver.late, IInv, [Next]_vars
    PROVE  IInv'
<1> USE DEF IInv, WorkHasSession, PlayingIsOwned, RegisteredIsSession, Transports, None,
            TakeActive, Reset, Goto, Off, Started
<1>1. CASE Connect
  BY <1>1 DEF Connect
<1>2. CASE Load
  BY <1>2 DEF Load, Loaded
<1>3. CASE LoadFails
  BY <1>3 DEF LoadFails
<1>4. CASE ReloadFails
  BY <1>4 DEF ReloadFails
<1>5. CASE Play
  BY <1>5 DEF Play
<1>6. CASE Restart
  BY <1>6 DEF Restart
<1>7. CASE RestartStops
  BY <1>7 DEF RestartStops
<1>8. CASE Pause
  BY <1>8 DEF Pause, Flip
<1>9. CASE Resume
  BY <1>9 DEF Resume, Flip
<1>10. CASE Disconnect
  BY <1>10 DEF Disconnect
<1>11. ASSUME NEW s \in Ids, AutoStop(s) PROVE IInv'
  BY <1>11 DEF AutoStop
<1>12. ASSUME NEW s \in Ids, StopArrives(s) PROVE IInv'
  BY <1>12 DEF StopArrives
<1>13. CASE TvStops
  BY <1>13 DEF TvStops
<1>14. CASE PollAsks
  BY <1>14 DEF PollAsks
<1>15. CASE PollApplies
  BY <1>15 DEF PollApplies
<1>16. CASE Shutdown
  BY <1>16 DEF Shutdown
<1>17. CASE Exit
  BY <1>17 DEF Exit
<1>18. CASE UNCHANGED vars
  BY <1>18 DEF vars
<1> QED
  BY <1>1, <1>2, <1>3, <1>4, <1>5, <1>6, <1>7, <1>8, <1>9, <1>10, <1>11, <1>12, <1>13,
     <1>14, <1>15, <1>16, <1>17, <1>18
  DEF Next

\* Between sessions, with no stop on its way, a receiver that answers in time does
\* not play.
THEOREM RestIsQuietHolds == Spec => []RestIsQuiet
<1> DEFINE Quiet == ~receiver.silent /\ ~receiver.late => IInv
<1>1. Quiet /\ [Next]_vars => Quiet'
  <2>1. [Next]_vars => receiver' = receiver
    BY DEF Next, vars, Connect, Load, LoadFails, ReloadFails, Play, Restart, RestartStops,
           Pause, Resume, Flip, Disconnect, AutoStop, StopArrives, TvStops, PollAsks,
           PollApplies, Shutdown, Exit
  <2> QED
    BY <2>1, NextIInv
<1>2. Quiet => RestIsQuiet
  BY DEF IInv, PlayingIsOwned, RegisteredIsSession, RestIsQuiet, None
<1>3. Init => Quiet
  BY InitIInv
<1> QED
  BY <1>1, <1>2, <1>3, PTL DEF Spec
===============================================================================
