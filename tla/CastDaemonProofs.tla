---------------------------- MODULE CastDaemonProofs ----------------------------
(***************************************************************************)
(* The theorems about CastDaemon, in three parts that build on each other. *)
(* 1. Type correctness, and that a media server runs exactly while Active  *)
(*    holds its handle: a server is stopped, and counted down, only        *)
(*    because the handle says it is there.                                 *)
(* 2. The daemon implements SessionLifecycle.  The invariant that makes    *)
(*    every step of CastDaemon a step of SessionLifecycle or a stutter     *)
(*    says who knows a session id: the shared Session has one unless it is *)
(*    idle, a command past its first checks has a session, and a watcher   *)
(*    was started for one.  Then what auto_stop and shutdown may rely on.  *)
(* 3. What the Active table holds, and who watches: what is known of       *)
(*    Active at each step of the command that holds the action mutex, and  *)
(*    that every watcher that goes on is in Active or in the hands of that *)
(*    command, so that a teardown or a reload stops all that it must.      *)
(***************************************************************************)
EXTENDS TLAPS, CastDaemon

-------------------------------------------------------------------------------
(* Part 1: types and the media server *)
(* The shapes of the records the actions build *)

\* Moving the holder of the mutex on keeps the shape of its record.
LEMMA OpShapes ==
    ASSUME NEW o \in OpType
    PROVE  /\ \A s \in Steps : [o EXCEPT !.step = s] \in OpType
           /\ \A s \in Steps, n \in Nat :
                [o EXCEPT !.id = n, !.step = s] \in OpType
           /\ \A s \in Steps, w \in Watchers \cup {NoWatcher} :
                /\ [o EXCEPT !.att = w, !.step = s] \in OpType
                /\ [o EXCEPT !.att = w, !.ready = "none", !.step = s] \in OpType
                /\ [o EXCEPT !.att = w, !.ready = "none", !.retried = TRUE,
                             !.step = s] \in OpType
                /\ \A b \in BOOLEAN :
                     [o EXCEPT !.att = w, !.ok = b, !.step = s] \in OpType
           /\ \A r \in {"ok", "err"} : [o EXCEPT !.ready = r] \in OpType
           /\ o.att \in Watchers \cup {NoWatcher} /\ o.id \in Nat
  BY DEF OpType

\* Where a move takes the holder.
LEMMA OpMoves ==
    ASSUME NEW o \in OpType
    PROVE  \A s :
             /\ [o EXCEPT !.step = s].step = s
             /\ \A n : [o EXCEPT !.id = n, !.step = s].step = s
             /\ \A w :
                  /\ [o EXCEPT !.att = w, !.step = s].step = s
                  /\ [o EXCEPT !.att = w, !.ready = "none", !.step = s].step = s
                  /\ [o EXCEPT !.att = w, !.ready = "none", !.retried = TRUE,
                               !.step = s].step = s
                  /\ \A b : [o EXCEPT !.att = w, !.ok = b, !.step = s].step = s
             /\ [o EXCEPT !.ready = s].step = o.step
  BY DEF OpType

\* Taking and releasing the mutex.
LEMMA UnlockedShape ==
    /\ Unlocked \in OpType
    /\ \A n \in {"connect", "disconnect", "seek", "subtitle", "boost",
               "autostop", "shutdown"}, s \in Steps :
         [Unlocked EXCEPT !.name = n, !.step = s] \in OpType
<1>1. "none" \in Steps
  BY DEF Steps
<1>2. Unlocked \in OpType
  BY <1>1 DEF OpType, Unlocked
<1>3. ASSUME NEW n \in {"connect", "disconnect", "seek", "subtitle", "boost",
                       "autostop", "shutdown"}, NEW s \in Steps
      PROVE  [Unlocked EXCEPT !.name = n, !.step = s] \in OpType
  BY <1>2, <1>3 DEF OpType
<1> QED
  BY <1>2, <1>3

\* Where taking and releasing the mutex takes it.
LEMMA AcquireMoves ==
    /\ Unlocked.step = "none"
    /\ \A n, s : [Unlocked EXCEPT !.name = n, !.step = s].step = s
  BY DEF Unlocked

\* The watchers a command starts.
LEMMA NewWatchShapes ==
    /\ Gone \in WatchType
    /\ \A n \in Nat :
         /\ CastThread(n) \in WatchType
         /\ \A p \in AllProtocols \cup {"none"} : Poller(p, n) \in WatchType
  BY DEF WatchType, Gone, Poller, CastThread, Samples, AllProtocols, Pollable

\* What a watcher becomes in one step.
LEMMA WatchShapes ==
    ASSUME NEW r \in WatchType
    PROVE  /\ [r EXCEPT !.pc = "query"] \in WatchType
           /\ \A s \in Samples : [r EXCEPT !.sample = s, !.pc = "apply"] \in WatchType
           /\ [r EXCEPT !.pc = "announce"] \in WatchType
           /\ [r EXCEPT !.pc = "greet"] \in WatchType
           /\ [r EXCEPT !.pc = "running"] \in WatchType
           /\ [r EXCEPT !.cut = TRUE] \in WatchType
           /\ r.sid \in Nat /\ r.kind \in AllProtocols \cup {"none"}
  BY DEF WatchType

\* What an aborted watcher becomes.
LEMMA AbortedShape ==
    ASSUME NEW r \in WatchType
    PROVE  Aborted(r) \in WatchType
  BY WatchShapes, NewWatchShapes DEF Aborted

\* What a poller becomes that goes on polling.
LEMMA PolledShape ==
    ASSUME NEW r \in WatchType
    PROVE  Polled(r) \in WatchType
<1>1. CASE r.cut
  BY <1>1, NewWatchShapes DEF Polled
<1>2. CASE ~r.cut
  <2> DEFINE seen == r.seen \/ r.sample \in {"PLAYING", "PAUSED"}
             miss == IF r.sample = "UNKNOWN" THEN r.miss + 1 ELSE 0
  <2>1. seen \in BOOLEAN /\ miss \in Nat
    BY DEF WatchType
  <2>2. Polled(r) = [r EXCEPT !.pc = "tick", !.sample = "none", !.seen = seen, !.miss = miss]
    BY <1>2 DEF Polled
  <2> HIDE DEF seen, miss
  <2> QED
    BY <2>1, <2>2 DEF WatchType, Samples
<1> QED
  BY <1>1, <1>2

\* A session that is reset or opened.
LEMMA NewSessionShapes ==
    /\ NoSession \in SessionType
    /\ \A n \in Nat :
         [id |-> n, state |-> "Connecting", proto |-> "none"] \in SessionType
  BY DEF SessionType, NoSession, States, AllProtocols

\* The states a watcher or a command writes.
LEMMA SessionShapes ==
    ASSUME NEW z \in SessionType
    PROVE  /\ \A st \in States : [z EXCEPT !.state = st] \in SessionType
           /\ \A p \in AllProtocols : [z EXCEPT !.proto = p] \in SessionType
           /\ z.id \in Nat /\ z.state \in States
           /\ z.proto \in AllProtocols \cup {"none"}
  BY DEF SessionType, NoSession, States, AllProtocols

\* Aborting watchers keeps the shape of the watcher table.
LEMMA AbortShape ==
    ASSUME watch \in [Watchers -> WatchType], NEW ws
    PROVE  Abort(ws) \in [Watchers -> WatchType]
  BY AbortedShape DEF Abort

-------------------------------------------------------------------------------
(* Type correctness *)

\* A queue of session ids takes another one.
LEMMA AppendShape == \A q \in Seq(Nat), n \in Nat : Append(q, n) \in Seq(Nat)
  OBVIOUS

\* A server count is a natural number because a server is stopped only when the
\* handle in Active says that there is one.
TypeInv == TypeOK /\ ServerIsRegistered

\* The parts of the type invariant the steps below draw on.
LEMMA Typed ==
    ASSUME TypeInv
    PROVE  /\ session \in SessionType
           /\ nextId \in Nat \ {0}
           /\ op \in OpType
           /\ conn \in [AllProtocols -> Watchers \cup {NoWatcher}]
           /\ media \in BOOLEAN
           /\ servers \in Nat
           /\ watch \in [Watchers -> WatchType]
           /\ events \in Seq(Nat)
  BY DEF TypeInv, TypeOK

\* The count of servers, as a reader of the handle sees it.
LEMMA Counted ==
    ASSUME TypeInv
    PROVE  (media => servers = 1) /\ (~media => servers = 0)
<1>1. servers = IF media THEN 1 ELSE 0
  BY DEF TypeInv, ServerIsRegistered
<1>2. CASE media
  BY <1>1, <1>2
<1>3. CASE ~media
  BY <1>1, <1>3
<1> QED
  BY <1>2, <1>3

\* StopServer and StopOldServer leave no server behind.
LEMMA ServerStops ==
    ASSUME TypeInv, StopServer \/ StopOldServer
    PROVE  servers' = 0 /\ media' = FALSE
<1>1. media' = FALSE
  BY DEF StopServer, StopOldServer
<1>2. CASE media
  <2>1. servers' = servers - 1
    BY <1>2, Zenon DEF StopServer, StopOldServer
  <2> QED
    BY <1>1, <1>2, <2>1, Counted
<1>3. CASE ~media
  <2>1. servers' = servers
    BY <1>3, Zenon DEF StopServer, StopOldServer
  <2> QED
    BY <1>1, <1>3, <2>1, Counted
<1> QED
  BY <1>2, <1>3

\* No step breaks the type invariant.
LEMMA TypeStep == TypeInv /\ [Next]_vars => TypeOK'
<1> SUFFICES ASSUME TypeInv, [Next]_vars
             PROVE TypeOK'
  OBVIOUS
<1>1. CASE TakeActive
  BY <1>1, OpShapes, AbortShape DEF TakeActive, TypeInv, TypeOK, activeVars, taskVars, outerVars, Goto, AtAny, At, NoConn, Steps
<1>2. CASE StopServer
  <2>1. op' \in OpType
    BY <1>2, Typed, OpShapes DEF StopServer, Goto, Steps
  <2>2. servers' \in Nat /\ media' \in BOOLEAN
    BY <1>2, ServerStops
  <2> QED
    BY <1>2, <2>1, <2>2
    DEF StopServer, TypeInv, TypeOK, activeVars, taskVars, outerVars
<1>3. CASE Reset
  BY <1>3, UnlockedShape, SessionShapes, NewSessionShapes DEF Reset, TypeInv, TypeOK, activeVars, taskVars, outerVars, Release
<1>4. CASE Disconnect
  BY <1>4, UnlockedShape DEF Disconnect, TypeInv, TypeOK, activeVars, taskVars, outerVars, Acquire, Steps
<1>5. CASE Connect
  BY <1>5, UnlockedShape DEF Connect, TypeInv, TypeOK, activeVars, taskVars, outerVars, Acquire, Steps
<1>6. CASE Publish
  <2>1. op' \in OpType
    BY <1>6, Typed, OpShapes DEF Publish, Steps
  <2>2. session' \in SessionType
    BY <1>6, Typed, NewSessionShapes DEF Publish
  <2>3. nextId' \in Nat \ {0}
    BY <1>6, Typed DEF Publish
  <2> QED
    BY <1>6, <2>1, <2>2, <2>3
    DEF Publish, TypeInv, TypeOK, activeVars, taskVars, outerVars
<1>7. CASE Lookup
  <2>1. op' \in OpType
    BY <1>7, Typed, OpShapes DEF Lookup, Goto, Steps
  <2>2. session' \in SessionType
    BY <1>7, Typed, SessionShapes, ProtocolsAssumption DEF Lookup
  <2> QED
    BY <1>7, <2>1, <2>2
    DEF Lookup, TypeInv, TypeOK, activeVars, taskVars, outerVars
<1>8. CASE UnknownDevice
  BY <1>8, UnlockedShape, SessionShapes, NewSessionShapes DEF UnknownDevice, TypeInv, TypeOK, activeVars, taskVars, outerVars, Release
<1>9. CASE FirewallOpened
  BY <1>9, OpShapes DEF FirewallOpened, TypeInv, TypeOK, activeVars, taskVars, outerVars, Goto, Steps
<1>10. CASE ConnectFails
  BY <1>10, UnlockedShape DEF ConnectFails, TypeInv, TypeOK, activeVars, taskVars, outerVars, GiveUp, Steps
<1>11. CASE ConnectServe
  <2>1. op' \in OpType
    BY <1>11, Typed, OpShapes DEF ConnectServe, Goto, Steps
  <2>2. servers' \in Nat /\ media' \in BOOLEAN
    BY <1>11, Typed DEF ConnectServe, StartMedia
  <2> QED
    BY <1>11, <2>1, <2>2
    DEF ConnectServe, TypeInv, TypeOK, activeVars, taskVars, outerVars
<1>12. CASE ConnectPlay
  <2>1. PICK w \in Watchers :
           /\ op' = [op EXCEPT !.att = w, !.step = "register"]
           /\ watch' = [watch EXCEPT ![w] = Poller(session.proto, op.id)]
    BY <1>12 DEF ConnectPlay
  <2>2. [op EXCEPT !.att = w, !.step = "register"] \in OpType
    BY Typed, OpShapes DEF Steps
  <2>3. Poller(session.proto, op.id) \in WatchType
    <3>1. session.proto \in Pollable
      BY <1>12 DEF ConnectPlay
    <3> QED
      BY <3>1, Typed, OpShapes, NewWatchShapes DEF AllProtocols
  <2>4. op' \in OpType /\ watch' \in [Watchers -> WatchType]
    BY <2>1, <2>2, <2>3, Typed
  <2> QED
    BY <1>12, <2>4
    DEF ConnectPlay, TypeInv, TypeOK, activeVars, taskVars, outerVars
<1>13. CASE CastAttempt
  <2>1. PICK w \in Watchers :
           /\ op' = [op EXCEPT !.att = w, !.ready = "none", !.step = "handshake"]
           /\ watch' = [watch EXCEPT ![w] = CastThread(op.id)]
    BY <1>13 DEF CastAttempt
  <2>2. [op EXCEPT !.att = w, !.ready = "none", !.step = "handshake"] \in OpType
    BY Typed, OpShapes DEF Steps
  <2>3. CastThread(op.id) \in WatchType
    BY Typed, OpShapes, NewWatchShapes
  <2>4. op' \in OpType /\ watch' \in [Watchers -> WatchType]
    BY <2>1, <2>2, <2>3, Typed
  <2> QED
    BY <1>13, <2>4
    DEF CastAttempt, TypeInv, TypeOK, activeVars, taskVars, outerVars
<1>14. CASE CastConnected
  BY <1>14, OpShapes DEF CastConnected, TypeInv, TypeOK, activeVars, taskVars, outerVars, Goto, Steps
<1>15. CASE CastAttemptFails
  <2>1. op' \in OpType
    <3>1. \/ op' = [op EXCEPT !.att = NoWatcher, !.ready = "none",
                              !.retried = TRUE, !.step = "play"]
          \/ op' = [Unlocked EXCEPT !.name = "disconnect", !.step = "teardown"]
      BY <1>15 DEF CastAttemptFails, GiveUp
    <3>2. [op EXCEPT !.att = NoWatcher, !.ready = "none",
                              !.retried = TRUE, !.step = "play"] \in OpType
      BY Typed, OpShapes, WatchersAssumption DEF Steps
    <3> QED
      BY <3>1, <3>2, Typed, UnlockedShape DEF Steps
  <2>2. watch' \in [Watchers -> WatchType]
    BY <1>15, Typed, AbortShape DEF CastAttemptFails
  <2> QED
    BY <1>15, <2>1, <2>2
    DEF CastAttemptFails, TypeInv, TypeOK, activeVars, taskVars, outerVars
<1>16. CASE Register
  BY <1>16, OpShapes DEF Register, TypeInv, TypeOK, activeVars, taskVars, outerVars, Steps
<1>17. CASE Settle
  <2>1. op' \in OpType
    BY <1>17, UnlockedShape DEF Settle, Release
  <2>2. session' \in SessionType
    BY <1>17, Typed, SessionShapes DEF Settle, States
  <2> QED
    BY <1>17, <2>1, <2>2
    DEF Settle, TypeInv, TypeOK, activeVars, taskVars, outerVars
<1>18. CASE Pause
  BY <1>18, SessionShapes DEF Pause, TypeInv, TypeOK, activeVars, taskVars, outerVars, Flip, States
<1>19. CASE Resume
  BY <1>19, SessionShapes DEF Resume, TypeInv, TypeOK, activeVars, taskVars, outerVars, Flip, States
<1>20. CASE Seek
  BY <1>20, UnlockedShape DEF Seek, TypeInv, TypeOK, activeVars, taskVars, outerVars, BeginReload, Acquire, Steps
<1>21. CASE SetSubtitle
  BY <1>21, UnlockedShape DEF SetSubtitle, TypeInv, TypeOK, activeVars, taskVars, outerVars, BeginReload, Acquire, Steps
<1>22. CASE SetBoost
  BY <1>22, UnlockedShape, AbortShape DEF SetBoost, TypeInv, TypeOK, activeVars, taskVars, outerVars, BeginReload, Acquire, Steps
<1>23. CASE StopOldServer
  <2>1. op' \in OpType
    BY <1>23, Typed, OpShapes DEF StopOldServer, Goto, Steps
  <2>2. servers' \in Nat /\ media' \in BOOLEAN
    BY <1>23, ServerStops
  <2> QED
    BY <1>23, <2>1, <2>2
    DEF StopOldServer, TypeInv, TypeOK, activeVars, taskVars, outerVars
<1>24. CASE RestreamServe
  <2>1. op' \in OpType
    <3>1. \/ op' = [op EXCEPT !.step = "restart"]
          \/ op' = [op EXCEPT !.step = "fail"]
          \/ op' = Unlocked
      BY <1>24 DEF RestreamServe, Goto, Release
    <3>2. [op EXCEPT !.step = "restart"] \in OpType
      BY Typed, OpShapes, WatchersAssumption DEF Steps
    <3>3. [op EXCEPT !.step = "fail"] \in OpType
      BY Typed, OpShapes, WatchersAssumption DEF Steps
    <3> QED
      BY <3>1, <3>2, <3>3, Typed, UnlockedShape DEF Steps
  <2>2. servers' \in Nat /\ media' \in BOOLEAN
    BY <1>24, Typed DEF RestreamServe, StartMedia
  <2> QED
    BY <1>24, <2>1, <2>2
    DEF RestreamServe, TypeInv, TypeOK, activeVars, taskVars, outerVars
<1>25. CASE RestreamServeFails
  BY <1>25, OpShapes DEF RestreamServeFails, TypeInv, TypeOK, activeVars, taskVars, outerVars, Goto, Steps
<1>26. CASE RestartTake
  <2>1. op' \in OpType
    <3>1. \/ op' = [op EXCEPT !.step = "replay"]
          \/ op' = [op EXCEPT !.step = "fail"]
          \/ op' = Unlocked
      BY <1>26 DEF RestartTake, Goto, Release
    <3>2. [op EXCEPT !.step = "replay"] \in OpType
      BY Typed, OpShapes, WatchersAssumption DEF Steps
    <3>3. [op EXCEPT !.step = "fail"] \in OpType
      BY Typed, OpShapes, WatchersAssumption DEF Steps
    <3> QED
      BY <3>1, <3>2, <3>3, Typed, UnlockedShape DEF Steps
  <2>2. watch' \in [Watchers -> WatchType]
    BY <1>26, Typed, AbortShape DEF RestartTake
  <2>3. conn' \in [AllProtocols -> Watchers \cup {NoWatcher}]
    BY <1>26, Typed DEF RestartTake
  <2> QED
    BY <1>26, <2>1, <2>2, <2>3
    DEF RestartTake, TypeInv, TypeOK, activeVars, taskVars, outerVars
<1>27. CASE Replay
  <2>1. PICK w \in Watchers, ok \in BOOLEAN :
           /\ op' = [op EXCEPT !.att = w, !.ok = ok, !.step = "putback"]
           /\ watch' = [watch EXCEPT ![w] = Poller(session.proto, session.id)]
    BY <1>27 DEF Replay
  <2>2. [op EXCEPT !.att = w, !.ok = ok, !.step = "putback"] \in OpType
    BY Typed, OpShapes DEF Steps
  <2>3. Poller(session.proto, session.id) \in WatchType
    BY Typed, NewWatchShapes, SessionShapes
  <2>4. op' \in OpType /\ watch' \in [Watchers -> WatchType]
    BY <2>1, <2>2, <2>3, Typed
  <2> QED
    BY <1>27, <2>4
    DEF Replay, TypeInv, TypeOK, activeVars, taskVars, outerVars
<1>28. CASE PutBack
  BY <1>28, OpShapes DEF PutBack, TypeInv, TypeOK, activeVars, taskVars, outerVars, Steps
<1>29. CASE Rebuffer
  <2>1. op' \in OpType
    <3>1. \/ op' = [op EXCEPT !.step = "reject"]
          \/ op' = Unlocked
      BY <1>29 DEF Rebuffer, Goto, Release
    <3>2. [op EXCEPT !.step = "reject"] \in OpType
      BY Typed, OpShapes, WatchersAssumption DEF Steps
    <3> QED
      BY <3>1, <3>2, Typed, UnlockedShape DEF Steps
  <2>2. session' \in SessionType
    BY <1>29, Typed, SessionShapes DEF Rebuffer, States
  <2> QED
    BY <1>29, <2>1, <2>2
    DEF Rebuffer, TypeInv, TypeOK, activeVars, taskVars, outerVars
<1>30. CASE Reject
  <2>1. op' \in OpType
    <3>1. \/ op' = [op EXCEPT !.step = "fail"]
          \/ op' = Unlocked
      BY <1>30 DEF Reject, Goto, Release
    <3>2. [op EXCEPT !.step = "fail"] \in OpType
      BY Typed, OpShapes, WatchersAssumption DEF Steps
    <3> QED
      BY <3>1, <3>2, Typed, UnlockedShape DEF Steps
  <2>2. session' \in SessionType
    BY <1>30, Typed, SessionShapes DEF Reject, FailSession, States
  <2>3. events' \in Seq(Nat)
    <3>1. events' = events \/ events' = Append(events, session.id)
      BY <1>30 DEF Reject, FailSession
    <3> QED
      BY <3>1, Typed, SessionShapes, AppendShape
  <2> QED
    BY <1>30, <2>1, <2>2, <2>3
    DEF Reject, TypeInv, TypeOK, activeVars, taskVars, outerVars
<1>31. CASE FailRestream
  <2>1. op' \in OpType
    BY <1>31, UnlockedShape DEF FailRestream, Release
  <2>2. session' \in SessionType
    BY <1>31, Typed, SessionShapes DEF FailRestream, FailSession, States
  <2>3. events' \in Seq(Nat)
    <3>1. events' = events \/ events' = Append(events, session.id)
      BY <1>31 DEF FailRestream, FailSession
    <3> QED
      BY <3>1, Typed, SessionShapes, AppendShape
  <2> QED
    BY <1>31, <2>1, <2>2, <2>3
    DEF FailRestream, TypeInv, TypeOK, activeVars, taskVars, outerVars
<1>32. CASE TakeEvent
  BY <1>32 DEF TakeEvent, TypeInv, TypeOK, activeVars, taskVars, outerVars
<1>33. CASE AutoStop
  BY <1>33, UnlockedShape DEF AutoStop, TypeInv, TypeOK, activeVars, taskVars, outerVars, Acquire, Steps
<1>34. CASE AutoStopTooLate
  BY <1>34 DEF AutoStopTooLate, TypeInv, TypeOK, activeVars, taskVars, outerVars
<1>35. CASE Shutdown
  BY <1>35, UnlockedShape DEF Shutdown, TypeInv, TypeOK, activeVars, taskVars, outerVars, Acquire, Steps
<1>36. CASE Exit
  BY <1>36 DEF Exit, TypeInv, TypeOK, activeVars, taskVars, outerVars
<1>37. CASE SwitchOff
  BY <1>37 DEF SwitchOff, TypeInv, TypeOK, activeVars, taskVars, outerVars
<1>38. CASE Terminated
  BY <1>38 DEF Terminated, TypeInv, TypeOK, activeVars, taskVars, outerVars, vars
<1>39. ASSUME NEW w \in Watchers, PollCheck(w) PROVE TypeOK'
  BY <1>39, WatchShapes, NewWatchShapes DEF PollCheck, TypeInv, TypeOK, activeVars, taskVars, outerVars
<1>40. ASSUME NEW w \in Watchers, PollAnswer(w) PROVE TypeOK'
  <2>1. PICK s \in Samples :
          watch' = [watch EXCEPT ![w] = [@ EXCEPT !.sample = s, !.pc = "apply"]]
    BY <1>40 DEF PollAnswer, Answers, Samples
  <2>2. watch' \in [Watchers -> WatchType]
    BY <2>1, Typed, WatchShapes
  <2> QED
    BY <1>40, <2>2
    DEF PollAnswer, TypeInv, TypeOK, activeVars, taskVars, outerVars
<1>41. ASSUME NEW w \in Watchers, Announce(w) PROVE TypeOK'
  <2>1. watch' \in [Watchers -> WatchType]
    BY <1>41, Typed, NewWatchShapes DEF Announce
  <2>2. events' \in Seq(Nat)
    <3>1. watch[w].sid \in Nat
      BY <1>41, Typed, WatchShapes
    <3> QED
      BY <1>41, <3>1, Typed, AppendShape DEF Announce
  <2> QED
    BY <1>41, <2>1, <2>2
    DEF Announce, TypeInv, TypeOK, activeVars, taskVars, outerVars
<1>42. ASSUME NEW w \in Watchers, CastReady(w) PROVE TypeOK'
  BY <1>42, WatchShapes, OpShapes DEF CastReady, TypeInv, TypeOK, activeVars, taskVars, outerVars, TellReady
<1>43. ASSUME NEW w \in Watchers, CastRefused(w) PROVE TypeOK'
  BY <1>43, NewWatchShapes, OpShapes DEF CastRefused, TypeInv, TypeOK, activeVars, taskVars, outerVars, TellReady
<1>44. ASSUME NEW w \in Watchers, CastGreet(w) PROVE TypeOK'
  <2>1. watch' \in [Watchers -> WatchType]
    BY <1>44, Typed, WatchShapes DEF CastGreet
  <2>2. session' \in SessionType
    BY <1>44, Typed, SessionShapes DEF CastGreet, Update, States
  <2> QED
    BY <1>44, <2>1, <2>2
    DEF CastGreet, TypeInv, TypeOK, activeVars, taskVars, outerVars
<1>45. ASSUME NEW w \in Watchers, CastPublish(w) PROVE TypeOK'
  <2>1. session' \in SessionType
    BY <1>45, Typed, SessionShapes DEF CastPublish, Update, States
  <2> QED
    BY <1>45, <2>1
    DEF CastPublish, TypeInv, TypeOK, activeVars, taskVars, outerVars
<1>46. ASSUME NEW w \in Watchers, CastEnds(w) PROVE TypeOK'
  BY <1>46, WatchShapes, SessionShapes DEF CastEnds, TypeInv, TypeOK, activeVars, taskVars, outerVars, Update, States
<1>47. ASSUME NEW w \in Watchers, CastLeaves(w) PROVE TypeOK'
  BY <1>47, NewWatchShapes DEF CastLeaves, TypeInv, TypeOK, activeVars, taskVars, outerVars
<1>48. ASSUME NEW w \in Watchers, NEW late \in BOOLEAN, PollApply(w, late)
      PROVE TypeOK'
  <2>1. watch[w] \in WatchType
    BY DEF TypeInv, TypeOK
  <2>2. Verdict(watch[w], late, session.state) \in States
    BY SessionShapes DEF Verdict, States, TypeInv, TypeOK
  <2> QED
    BY <1>48, <2>1, <2>2, WatchShapes, NewWatchShapes, PolledShape, SessionShapes
    DEF PollApply, TypeInv, TypeOK, activeVars, outerVars
<1>49. CASE UNCHANGED vars
  BY <1>49 DEF vars, TypeInv, TypeOK
<1> QED
  BY <1>1, <1>2, <1>3, <1>4, <1>5, <1>6, <1>7, <1>8, <1>9, <1>10, <1>11, <1>12, <1>13, <1>14, <1>15, <1>16, <1>17, <1>18, <1>19, <1>20, <1>21, <1>22, <1>23, <1>24, <1>25, <1>26, <1>27, <1>28, <1>29, <1>30, <1>31, <1>32, <1>33, <1>34, <1>35, <1>36, <1>37, <1>38, <1>39, <1>40, <1>41, <1>42, <1>43, <1>44, <1>45, <1>46, <1>47, <1>48, <1>49
  DEF Next, HolderStep, TeardownStep, ConnectStep, ReloadStep, Request,
      AutoStopStep, PollStep, CastStep

-------------------------------------------------------------------------------
(* The server count *)

\* While a command has no server, the handle is not in Active: start_media never
\* overwrites one.  This is what makes ServerIsRegistered inductive.
ServerIsDown ==
    op.step \in {"publish", "lookup", "firewall", "serve", "reset"}
        => media = FALSE

ServerInv == TypeInv /\ ServerIsDown

\* A step that starts and stops no server keeps the count.
LEMMA ServerKept ==
    ASSUME ServerInv, UNCHANGED <<media, servers>>
    PROVE  ServerIsRegistered'
  BY DEF ServerInv, TypeInv, ServerIsRegistered

\* No step breaks the server invariant.
LEMMA ServerStep == ServerInv /\ [Next]_vars => ServerInv'
<1> SUFFICES ASSUME ServerInv, [Next]_vars
             PROVE  ServerInv'
  OBVIOUS
<1>1. TypeInv /\ op \in OpType /\ TypeOK'
  BY TypeStep, Typed DEF ServerInv
<1>2. SUFFICES ServerIsRegistered' /\ ServerIsDown'
  BY <1>1 DEF ServerInv, TypeInv
<1>3. CASE StopServer \/ StopOldServer
  BY <1>1, <1>3, ServerStops DEF ServerIsRegistered, ServerIsDown
<1>4. CASE ConnectServe \/ RestreamServe
  <2>1. op.step = "serve"
    BY <1>4 DEF ConnectServe, RestreamServe, At
  <2>2. servers = 0
    BY <1>1, <2>1, Counted DEF ServerInv, ServerIsDown
  <2>3. servers' = 1 /\ media' = TRUE
    BY <1>4, <2>2 DEF ConnectServe, RestreamServe, StartMedia
  <2>4. op'.step \in {"play", "restart", "fail", "none"}
    <3>1. \/ \E s \in {"play", "restart", "fail"} : op' = [op EXCEPT !.step = s]
          \/ op' = Unlocked
      BY <1>4 DEF ConnectServe, RestreamServe, Goto, Release
    <3>2. \A s : [op EXCEPT !.step = s].step = s
      BY <1>1, OpMoves
    <3> QED
      BY <3>1, <3>2, AcquireMoves
  <2> QED
    BY <2>3, <2>4 DEF ServerIsRegistered, ServerIsDown
<1>5. CASE Publish \/ Lookup \/ FirewallOpened
  <2>1. op.step \in {"publish", "lookup", "firewall"} /\ UNCHANGED <<media, servers>>
    BY <1>5 DEF Publish, Lookup, FirewallOpened, At, activeVars
  <2> QED
    BY <2>1, ServerKept DEF ServerInv, ServerIsDown
<1>6. CASE TakeActive
  <2>1. op'.step = "stopping" /\ UNCHANGED <<media, servers>>
    BY <1>1, <1>6, OpMoves DEF TakeActive, Goto
  <2> QED
    BY <2>1, ServerKept DEF ServerIsDown
<1>7. CASE \/ Reset \/ UnknownDevice \/ Settle \/ FailRestream \/ ConnectFails
           \/ Disconnect \/ Connect \/ Seek \/ SetSubtitle \/ SetBoost
           \/ AutoStop \/ Shutdown
  <2>1. op'.step \in {"none", "teardown", "restart", "fail", "swap"}
    <3>1. \/ op' = Unlocked
          \/ \E n, s : /\ s \in {"teardown", "restart", "fail", "swap"}
                       /\ op' = [Unlocked EXCEPT !.name = n, !.step = s]
      <4>1. CASE Reset \/ UnknownDevice \/ Settle \/ FailRestream
        BY <4>1 DEF Reset, UnknownDevice, Settle, FailRestream, Release
      <4>2. CASE ConnectFails
        BY <4>2 DEF ConnectFails, GiveUp
      <4>3. CASE Disconnect \/ Connect \/ AutoStop \/ Shutdown
        BY <4>3 DEF Disconnect, Connect, AutoStop, Shutdown, Acquire
      <4>4. CASE Seek \/ SetSubtitle
        BY <4>4 DEF Seek, SetSubtitle, BeginReload, Acquire
      <4>5. CASE SetBoost
        BY <4>5 DEF SetBoost, BeginReload, Acquire
      <4> QED
        BY <1>7, <4>1, <4>2, <4>3, <4>4, <4>5
    <3> QED
      BY <3>1, AcquireMoves
  <2>2. UNCHANGED <<media, servers>>
    BY <1>7 DEF Reset, UnknownDevice, Settle, FailRestream, ConnectFails,
                Disconnect, Connect, Seek, SetSubtitle, SetBoost, AutoStop,
                Shutdown, activeVars
  <2> QED
    BY <2>1, <2>2, ServerKept DEF ServerIsDown
<1>8. CASE \/ CastConnected \/ CastAttemptFails \/ Register \/ RestreamServeFails
           \/ RestartTake \/ PutBack \/ Rebuffer \/ Reject
  <2>1. op'.step \in {"register", "play", "teardown", "settle", "fail", "none",
                      "replay", "buffering", "reject"}
    <3>1. CASE CastConnected \/ RestreamServeFails
      <4>1. \A s : [op EXCEPT !.step = s].step = s
        BY <1>1, OpMoves
      <4> QED
        BY <3>1, <4>1 DEF CastConnected, RestreamServeFails, Goto
    <3>2. CASE CastAttemptFails
      <4>1. [op EXCEPT !.att = NoWatcher, !.ready = "none", !.retried = TRUE,
                       !.step = "play"].step = "play"
        BY <1>1, OpMoves
      <4>2. \/ op' = [op EXCEPT !.att = NoWatcher, !.ready = "none",
                               !.retried = TRUE, !.step = "play"]
            \/ op' = [Unlocked EXCEPT !.name = "disconnect", !.step = "teardown"]
        BY <3>2 DEF CastAttemptFails, GiveUp
      <4>3. [Unlocked EXCEPT !.name = "disconnect", !.step = "teardown"].step
              = "teardown"
        BY AcquireMoves
      <4>4. op'.step = "play" \/ op'.step = "teardown"
        BY <4>1, <4>2, <4>3, Zenon
      <4> QED
        BY <4>4
    <3>3. CASE Register \/ PutBack
      <4>1. \A s : [op EXCEPT !.att = NoWatcher, !.step = s].step = s
        BY <1>1, OpMoves
      <4> QED
        BY <3>3, <4>1 DEF Register, PutBack
    <3>4. CASE RestartTake \/ Rebuffer \/ Reject
      <4>1. \/ op' = Unlocked
            \/ \E s \in {"fail", "replay", "reject"} : op' = [op EXCEPT !.step = s]
        BY <3>4 DEF RestartTake, Rebuffer, Reject, Goto, Release
      <4>2. \A s : [op EXCEPT !.step = s].step = s
        BY <1>1, OpMoves
      <4> QED
        BY <4>1, <4>2, AcquireMoves
    <3> QED
      BY <1>8, <3>1, <3>2, <3>3, <3>4
  <2>2. UNCHANGED <<media, servers>>
    BY <1>8 DEF CastConnected, CastAttemptFails, Register, RestreamServeFails,
                RestartTake, PutBack, Rebuffer, Reject, activeVars
  <2> QED
    BY <2>1, <2>2, ServerKept DEF ServerIsDown
<1>9. CASE ConnectPlay \/ CastAttempt \/ Replay
  <2>1. op'.step \in {"register", "handshake", "putback"}
    <3>1. CASE ConnectPlay
      <4>1. \A w : [op EXCEPT !.att = w, !.step = "register"].step = "register"
        BY <1>1, OpMoves
      <4> QED
        BY <3>1, <4>1 DEF ConnectPlay
    <3>2. CASE CastAttempt
      <4>1. \A w : [op EXCEPT !.att = w, !.ready = "none",
                              !.step = "handshake"].step = "handshake"
        BY <1>1, OpMoves
      <4> QED
        BY <3>2, <4>1 DEF CastAttempt
    <3>3. CASE Replay
      <4>1. \A w, b : [op EXCEPT !.att = w, !.ok = b,
                                 !.step = "putback"].step = "putback"
        BY <1>1, OpMoves
      <4> QED
        BY <3>3, <4>1 DEF Replay
    <3> QED
      BY <1>9, <3>1, <3>2, <3>3
  <2>2. UNCHANGED <<media, servers>>
    BY <1>9 DEF ConnectPlay, CastAttempt, Replay, activeVars
  <2> QED
    BY <2>1, <2>2, ServerKept DEF ServerIsDown
<1>10. CASE UNCHANGED <<op, media, servers>>
  BY <1>10, ServerKept DEF ServerInv, ServerIsDown
<1>11. ASSUME NEW w \in Watchers, CastReady(w) \/ CastRefused(w)
       PROVE  ServerIsRegistered' /\ ServerIsDown'
  <2>1. op'.step = op.step /\ UNCHANGED <<media, servers>>
    <3>1. \A r : [op EXCEPT !.ready = r].step = op.step
      BY <1>1, OpMoves
    <3> QED
      BY <1>11, <3>1 DEF CastReady, CastRefused, TellReady, activeVars
  <2> QED
    BY <2>1, ServerKept DEF ServerInv, ServerIsDown
<1>12. CASE Pause \/ Resume \/ TakeEvent \/ AutoStopTooLate \/ Exit \/ SwitchOff
            \/ Terminated \/ UNCHANGED vars
  BY <1>10, <1>12 DEF Pause, Resume, Flip, TakeEvent, AutoStopTooLate, Exit,
                      SwitchOff, Terminated, vars, activeVars
<1>13. ASSUME NEW w \in Watchers,
              \/ PollCheck(w) \/ PollAnswer(w) \/ Announce(w)
              \/ \E late \in BOOLEAN : PollApply(w, late)
              \/ CastGreet(w) \/ CastPublish(w) \/ CastEnds(w) \/ CastLeaves(w)
       PROVE  ServerIsRegistered' /\ ServerIsDown'
  BY <1>10, <1>13 DEF PollCheck, PollAnswer, Announce, PollApply, CastGreet,
                      CastPublish, CastEnds, CastLeaves, activeVars
<1> QED
  BY <1>3, <1>4, <1>5, <1>6, <1>7, <1>8, <1>9, <1>11, <1>12, <1>13
  DEF Next, HolderStep, TeardownStep, ConnectStep, ReloadStep, Request,
      AutoStopStep, PollStep, CastStep

\* The daemon starts without a session, a server or a watcher.
LEMMA ServerInit == Init => ServerInv
<1> SUFFICES ASSUME Init PROVE ServerInv
  OBVIOUS
<1>1. watch \in [Watchers -> WatchType]
  BY NewWatchShapes DEF Init
<1>2. conn \in [AllProtocols -> Watchers \cup {NoWatcher}]
  BY DEF Init, NoConn
<1>3. session \in SessionType /\ op \in OpType
  BY UnlockedShape, NewSessionShapes DEF Init
<1>4. events \in Seq(Nat)
  BY DEF Init
<1>5. /\ nextId \in Nat \ {0} /\ servers \in Nat /\ handling \in Nat
      /\ serve \in {"none", "direct", "ffmpeg"}
  BY DEF Init
<1>6. media \in BOOLEAN /\ reachable \in BOOLEAN /\ exited \in BOOLEAN
  BY DEF Init
<1>7. TypeOK
  BY <1>1, <1>2, <1>3, <1>4, <1>5, <1>6 DEF TypeOK
<1> QED
  BY <1>7, AcquireMoves
  DEF Init, ServerInv, TypeInv, ServerIsRegistered, ServerIsDown

\* Whatever happens, the server invariant holds.
LEMMA ServerInvariant == Spec => []ServerInv
  BY ServerInit, ServerStep, PTL DEF Spec

\* The state of the daemon always has the shape its Rust types say.
THEOREM TypeCorrect == Spec => []TypeOK
<1>1. ServerInv => TypeOK
  BY DEF ServerInv, TypeInv
<1> QED
  BY <1>1, ServerInvariant, PTL

\* For any receivers, commands and timing, at any number of sessions: a media
\* server runs exactly while Active holds its handle, so none is ever leaked and
\* two never run at once.
THEOREM ServerAlwaysRegistered == Spec => []ServerIsRegistered
<1>1. ServerInv => ServerIsRegistered
  BY DEF ServerInv, TypeInv
<1> QED
  BY <1>1, ServerInvariant, PTL

-------------------------------------------------------------------------------
(* Part 2: sessions, and the refinement of SessionLifecycle *)

\* A watcher was started for a session.
Watched(r) == r.kind \in AllProtocols => r.sid # 0

AllWatched == \A w \in Watchers : Watched(watch[w])

\* The steps of a command that works on a session.
WithSession == {"lookup", "firewall", "serve", "play", "handshake", "register",
                "settle", "swap", "restart", "replay", "putback", "buffering",
                "reject", "fail"}

HolderHasSession == op.step \in WithSession => session.id # 0

\* A connect that has published its session knows its id until it has handed it
\* to the watcher.
HolderHasId ==
    \/ op.step \in {"lookup", "firewall", "play", "handshake"}
    \/ op.step = "serve" /\ op.name = "connect"
    => op.id # 0

LifeInv == ServerInv /\ IdleHasNoId /\ AllWatched /\ HolderHasSession /\ HolderHasId

-------------------------------------------------------------------------------
(* Watchers *)

\* Every form a watcher takes on after its start keeps the session it is for.
LEMMA WatchedShapes ==
    ASSUME NEW r \in WatchType, Watched(r)
    PROVE  /\ Watched(Gone)
           /\ \A x : Watched([r EXCEPT !.pc = x])
           /\ \A x, y : Watched([r EXCEPT !.sample = x, !.pc = y])
           /\ Watched(Aborted(r))
           /\ Watched(Polled(r))
<1>1. Watched(Gone)
  BY DEF Watched, Gone, AllProtocols, Pollable
<1>2. \A x : Watched([r EXCEPT !.pc = x])
  BY DEF Watched, WatchType
<1>3. \A x, y : Watched([r EXCEPT !.sample = x, !.pc = y])
  BY DEF Watched, WatchType
<1>4. Watched([r EXCEPT !.cut = TRUE])
  BY DEF Watched, WatchType
<1>5. Watched(Aborted(r))
  BY <1>1, <1>4 DEF Aborted
<1>6. \A x, y : Watched([r EXCEPT !.pc = "tick", !.sample = "none", !.seen = x,
                                  !.miss = y])
  BY DEF Watched, WatchType
<1>7. Watched(Polled(r))
  BY <1>1, <1>6 DEF Polled
<1> QED
  BY <1>1, <1>2, <1>3, <1>5, <1>7

\* Changing one watcher.
LEMMA WatchUpdate ==
    ASSUME watch \in [Watchers -> WatchType], AllWatched,
           NEW w \in Watchers, NEW x, Watched(x), watch' = [watch EXCEPT ![w] = x]
    PROVE  AllWatched'
  BY DEF AllWatched

\* Aborting watchers.
LEMMA WatchAbort ==
    ASSUME watch \in [Watchers -> WatchType], AllWatched, NEW ws, watch' = Abort(ws)
    PROVE  AllWatched'
<1>1. \A w \in Watchers : Watched(Aborted(watch[w]))
  BY WatchedShapes DEF AllWatched
<1> QED
  BY <1>1 DEF AllWatched, Abort

\* A new watcher works for the session the command that starts it works for.
LEMMA WatchStart ==
    ASSUME NEW n, n # 0
    PROVE  Watched(CastThread(n)) /\ \A p : Watched(Poller(p, n))
  BY DEF Watched, CastThread, Poller, Gone

\* No step leaves a watcher without a session.
LEMMA WatchedStep ==
    ASSUME LifeInv, [Next]_vars
    PROVE  AllWatched'
<1>1. /\ watch \in [Watchers -> WatchType] /\ AllWatched
      /\ \A w \in Watchers : watch[w] \in WatchType /\ Watched(watch[w])
  BY Typed DEF LifeInv, ServerInv, AllWatched
<1>2. CASE UNCHANGED watch
  BY <1>1, <1>2 DEF AllWatched
<1>3. CASE \E ws : watch' = Abort(ws)
  BY <1>1, <1>3, WatchAbort
<1>4. CASE ConnectPlay
  <2>1. op.id # 0
    BY <1>4 DEF ConnectPlay, At, LifeInv, HolderHasId
  <2>2. PICK w \in Watchers : watch' = [watch EXCEPT ![w] = Poller(session.proto, op.id)]
    BY <1>4 DEF ConnectPlay
  <2> QED
    BY <1>1, <2>1, <2>2, WatchStart, WatchUpdate
<1>5. CASE CastAttempt
  <2>1. op.id # 0
    BY <1>5 DEF CastAttempt, At, LifeInv, HolderHasId
  <2>2. PICK w \in Watchers : watch' = [watch EXCEPT ![w] = CastThread(op.id)]
    BY <1>5 DEF CastAttempt
  <2> QED
    BY <1>1, <2>1, <2>2, WatchStart, WatchUpdate
<1>6. CASE Replay
  <2>1. session.id # 0
    BY <1>6 DEF Replay, AtAny, At, LifeInv, HolderHasSession, WithSession
  <2>2. PICK w \in Watchers :
          watch' = [watch EXCEPT ![w] = Poller(session.proto, session.id)]
    BY <1>6 DEF Replay
  <2> QED
    BY <1>1, <2>1, <2>2, WatchStart, WatchUpdate
<1>7. ASSUME NEW w \in Watchers,
             PollCheck(w) \/ PollAnswer(w) \/ Announce(w) \/ CastStep(w)
      PROVE  AllWatched'
  <2>1. \/ UNCHANGED watch
        \/ watch' = [watch EXCEPT ![w] = Gone]
        \/ \E x : watch' = [watch EXCEPT ![w] = [watch[w] EXCEPT !.pc = x]]
        \/ \E x, y : watch' = [watch EXCEPT ![w] =
                                 [watch[w] EXCEPT !.sample = x, !.pc = y]]
    <3>1. CASE PollCheck(w)
      BY <3>1, <1>1 DEF PollCheck
    <3>2. CASE PollAnswer(w)
      BY <3>2, <1>1 DEF PollAnswer
    <3>3. CASE Announce(w)
      BY <3>3 DEF Announce
    <3>4. CASE CastStep(w)
      BY <3>4, <1>1 DEF CastStep, CastReady, CastRefused, CastGreet, CastPublish,
                        CastEnds, CastLeaves, taskVars
    <3> QED
      BY <1>7, <3>1, <3>2, <3>3, <3>4
  <2> QED
    BY <1>1, <1>2, <2>1, WatchedShapes, WatchUpdate
<1>8. ASSUME NEW w \in Watchers, NEW late \in BOOLEAN, PollApply(w, late)
      PROVE  AllWatched'
  <2>1. \/ watch' = [watch EXCEPT ![w] = Gone]
        \/ watch' = [watch EXCEPT ![w] = Polled(watch[w])]
        \/ watch' = [watch EXCEPT ![w] = [watch[w] EXCEPT !.pc = "announce"]]
    BY <1>8, <1>1 DEF PollApply
  <2> QED
    BY <1>1, <2>1, WatchedShapes, WatchUpdate
<1>9. CASE TeardownStep
  BY <1>2, <1>3, <1>9 DEF TeardownStep, TakeActive, StopServer, Reset, taskVars
<1>10. CASE ConnectStep
  BY <1>2, <1>3, <1>4, <1>5, <1>10
  DEF ConnectStep, Publish, Lookup, UnknownDevice, FirewallOpened, ConnectFails,
      ConnectServe, CastConnected, CastAttemptFails, Register, Settle, taskVars
<1>11. CASE ReloadStep
  BY <1>2, <1>3, <1>6, <1>11
  DEF ReloadStep, StopOldServer, RestreamServe, RestreamServeFails, RestartTake,
      PutBack, Rebuffer, Reject, FailRestream, taskVars
<1>12. CASE Request
  BY <1>2, <1>3, <1>12
  DEF Request, Connect, Disconnect, Pause, Resume, Flip, Seek, SetSubtitle,
      SetBoost, Shutdown, taskVars
<1>13. CASE Exit \/ TakeEvent \/ AutoStopStep \/ SwitchOff \/ Terminated \/ UNCHANGED vars
  BY <1>2, <1>13
  DEF Exit, TakeEvent, AutoStopStep, AutoStop, AutoStopTooLate, SwitchOff,
      Terminated, vars, taskVars
<1> QED
  BY <1>7, <1>8, <1>9, <1>10, <1>11, <1>12, <1>13 DEF Next, HolderStep, PollStep

-------------------------------------------------------------------------------
(* The session *)

\* The states a command or a watcher writes into a session that it knows.
Reported == {"Buffering", "Playing", "Paused", "Stopped", "Error"}

\* A write into the session by somebody who knows it.
ReportsSession ==
    /\ session'.id = session.id
    /\ \/ session'.state = session.state
       \/ session.id # 0 /\ session'.state \in Reported

\* Writing a state leaves the id alone.
LEMMA SessionWrites ==
    ASSUME NEW z \in SessionType
    PROVE  /\ \A x : [z EXCEPT !.state = x].id = z.id /\ [z EXCEPT !.state = x].state = x
           /\ \A x : [z EXCEPT !.proto = x].id = z.id /\ [z EXCEPT !.proto = x].state = z.state
  BY DEF SessionType

\* A poller that knows the session reports it, or leaves it as it is.
LEMMA VerdictReports ==
    \A r, late, state : Verdict(r, late, state) \in Reported \cup {state}
  BY DEF Verdict, Reported

\* Only connect, the failed lookup and a reset change whose session it is; any
\* other write is a report about a session somebody knows.
LEMMA SessionMoves ==
    ASSUME LifeInv, [Next]_vars
    PROVE  Publish \/ Reset \/ UnknownDevice \/ ReportsSession
<1>1. /\ session \in SessionType /\ (session.id = 0 <=> session.state = "Idle")
      /\ \A w \in Watchers : Watched(watch[w])
  BY Typed DEF LifeInv, ServerInv, IdleHasNoId, AllWatched
<1>2. ASSUME UNCHANGED session
      PROVE  ReportsSession
  BY <1>2 DEF ReportsSession
<1>3. ASSUME NEW x \in Reported, session.id # 0, session' = [session EXCEPT !.state = x]
      PROVE  ReportsSession
  BY <1>1, <1>3, SessionWrites DEF ReportsSession
<1>4. CASE Lookup
  <2>1. UNCHANGED session \/ \E p : session' = [session EXCEPT !.proto = p]
    BY <1>4 DEF Lookup
  <2>2. \A p : LET z == [session EXCEPT !.proto = p]
               IN  z.id = session.id /\ z.state = session.state
    BY <1>1, SessionWrites
  <2> QED
    BY <1>2, <2>1, <2>2 DEF ReportsSession
<1>5. CASE Settle
  <2>1. \/ session' = session
        \/ /\ session.state = "Connecting"
           /\ session' = [session EXCEPT !.state = "Buffering"]
    BY <1>5 DEF Settle
  <2> QED
    BY <1>1, <1>2, <1>3, <2>1 DEF Reported
<1>6. CASE Pause \/ Resume
  <2>1. /\ session.state \in {"Playing", "Paused"}
        /\ \E x \in {"Playing", "Paused"} : session' = [session EXCEPT !.state = x]
    BY <1>6 DEF Pause, Resume, Flip
  <2> QED
    BY <1>1, <1>3, <2>1 DEF Reported
<1>7. CASE Rebuffer
  <2>1. session.id # 0
    BY <1>7 DEF Rebuffer, AtAny, At, LifeInv, HolderHasSession, WithSession
  <2>2. session' = [session EXCEPT !.state = "Buffering"]
    BY <1>7 DEF Rebuffer
  <2> QED
    BY <1>3, <2>1, <2>2 DEF Reported
<1>8. CASE Reject \/ FailRestream
  <2>1. FailSession
    BY <1>8 DEF Reject, FailRestream
  <2>2. CASE IsActive(session.state)
    BY <1>1, <1>3, <2>1, <2>2 DEF FailSession, IsActive, Reported
  <2>3. CASE ~IsActive(session.state)
    BY <1>2, <2>1, <2>3 DEF FailSession
  <2> QED
    BY <2>2, <2>3
<1>9. ASSUME NEW w \in Watchers, NEW late \in BOOLEAN, PollApply(w, late)
      PROVE  ReportsSession
  <2>1. watch[w].kind \in AllProtocols
    BY <1>9 DEF PollApply, PollerAt, AllProtocols
  <2>2. watch[w].sid # 0
    BY <1>1, <2>1 DEF Watched
  <2>3. UNCHANGED session
        \/ /\ session.id = watch[w].sid
           /\ session' = [session EXCEPT !.state = Verdict(watch[w], late, session.state)]
    BY <1>9 DEF PollApply
  <2>4. CASE session.id = watch[w].sid
             /\ session' = [session EXCEPT !.state = Verdict(watch[w], late, session.state)]
    <3>1. Verdict(watch[w], late, session.state) \in Reported \cup {session.state}
      BY VerdictReports
    <3> QED
      BY <1>1, <2>2, <2>4, <3>1, SessionWrites DEF ReportsSession
  <2> QED
    BY <1>2, <2>3, <2>4
<1>10. ASSUME NEW w \in Watchers, NEW x \in Reported, CastGreet(w) \/ CastPublish(w) \/ CastEnds(w),
              Update(w, x)
       PROVE  ReportsSession
  <2>1. watch[w].kind \in AllProtocols
    BY <1>10 DEF CastGreet, CastPublish, CastEnds, CastAt, AllProtocols
  <2>2. watch[w].sid # 0
    BY <1>1, <2>1 DEF Watched
  <2> QED
    BY <1>2, <1>3, <1>10, <2>2 DEF Update
<1>11. ASSUME NEW w \in Watchers, CastGreet(w) \/ CastPublish(w) \/ CastEnds(w)
       PROVE  ReportsSession
  <2>1. \E x \in Reported : Update(w, x)
    BY <1>11 DEF CastGreet, CastPublish, CastEnds, Reported
  <2> QED
    BY <1>10, <1>11, <2>1
<1>12. ASSUME NEW w \in Watchers,
              \/ PollCheck(w) \/ PollAnswer(w) \/ Announce(w)
              \/ CastReady(w) \/ CastRefused(w) \/ CastLeaves(w)
       PROVE  ReportsSession
  BY <1>2, <1>12 DEF PollCheck, PollAnswer, Announce, CastReady, CastRefused, CastLeaves
<1>13. CASE TakeActive \/ StopServer \/ Exit \/ TakeEvent \/ AutoStopStep \/ SwitchOff
            \/ Terminated \/ UNCHANGED vars
  BY <1>2, <1>13
  DEF TakeActive, StopServer, Exit, TakeEvent, AutoStopStep, AutoStop,
      AutoStopTooLate, SwitchOff, Terminated, vars
<1>14. CASE \/ FirewallOpened \/ ConnectFails \/ ConnectServe \/ ConnectPlay
            \/ CastAttempt \/ CastConnected \/ CastAttemptFails \/ Register
            \/ StopOldServer \/ RestreamServe \/ RestreamServeFails
            \/ RestartTake \/ Replay \/ PutBack
  BY <1>2, <1>14
  DEF FirewallOpened, ConnectFails, ConnectServe, ConnectPlay, CastAttempt,
      CastConnected, CastAttemptFails, Register, StopOldServer, RestreamServe,
      RestreamServeFails, RestartTake, Replay, PutBack
<1>15. CASE Connect \/ Disconnect \/ Seek \/ SetSubtitle \/ SetBoost \/ Shutdown
  BY <1>2, <1>15 DEF Connect, Disconnect, Seek, SetSubtitle, SetBoost, Shutdown
<1> QED
  BY <1>4, <1>5, <1>6, <1>7, <1>8, <1>9, <1>11, <1>12, <1>13, <1>14, <1>15
  DEF Next, HolderStep, TeardownStep, ConnectStep, ReloadStep, Request, PollStep,
      CastStep

\* What connect, the failed lookup and a reset make of the session.
LEMMA SessionReplaced ==
    ASSUME LifeInv, Publish \/ Reset \/ UnknownDevice
    PROVE  \/ Publish /\ session'.id = nextId /\ session'.id # 0 /\ session'.state = "Connecting"
           \/ ~Publish /\ session'.id = 0 /\ session'.state = "Idle"
<1>1. nextId # 0
  BY Typed DEF LifeInv, ServerInv
<1>2. CASE Publish
  BY <1>1, <1>2 DEF Publish
<1>3. CASE ~Publish
  BY <1>3 DEF Reset, UnknownDevice, NoSession
<1> QED
  BY <1>2, <1>3

\* No step leaves a session without an id, or an id without a session.
LEMMA IdleStep ==
    ASSUME LifeInv, [Next]_vars
    PROVE  IdleHasNoId'
<1>1. CASE Publish \/ Reset \/ UnknownDevice
  BY <1>1, SessionReplaced DEF IdleHasNoId
<1>2. CASE ReportsSession
  BY <1>2 DEF ReportsSession, Reported, LifeInv, IdleHasNoId
<1> QED
  BY <1>1, <1>2, SessionMoves

-------------------------------------------------------------------------------
(* The holder of the action mutex *)

\* A move leaves the command and the session it works for alone.
LEMMA OpKeeps ==
    ASSUME NEW o \in OpType
    PROVE  /\ \A s : LET x == [o EXCEPT !.step = s]
                     IN  x.step = s /\ x.name = o.name /\ x.id = o.id
           /\ \A w, s : LET x == [o EXCEPT !.att = w, !.ready = "none", !.step = s]
                        IN  x.step = s /\ x.name = o.name /\ x.id = o.id
           /\ \A w, s : LET x == [o EXCEPT !.att = w, !.ready = "none",
                                           !.retried = TRUE, !.step = s]
                        IN  x.step = s /\ x.name = o.name /\ x.id = o.id
           /\ \A r : LET x == [o EXCEPT !.ready = r]
                     IN  x.step = o.step /\ x.name = o.name /\ x.id = o.id
  BY DEF OpType

\* A step of connect, in the middle of it: the next step, and who takes it.
LEMMA ConnectMoves ==
    ASSUME TypeInv
    PROVE  /\ Publish => op'.step = "lookup" /\ op'.id = nextId
           /\ Lookup => op'.step = "firewall" /\ op'.id = op.id
           /\ FirewallOpened => op'.step = "serve" /\ op'.id = op.id
           /\ ConnectServe => op'.step = "play" /\ op'.id = op.id
           /\ CastAttempt => op'.step = "handshake" /\ op'.id = op.id
           /\ StopOldServer => op'.step = "serve" /\ op'.name = "boost"
<1>1. op \in OpType
  BY Typed
<1>2. Publish => op'.step = "lookup" /\ op'.id = nextId
  BY <1>1 DEF Publish, OpType
<1>3. \A s : LET x == [op EXCEPT !.step = s] IN x.step = s /\ x.name = op.name /\ x.id = op.id
  BY <1>1, OpKeeps
<1>4. Lookup => op'.step = "firewall" /\ op'.id = op.id
  BY <1>3 DEF Lookup, Goto
<1>5. FirewallOpened => op'.step = "serve" /\ op'.id = op.id
  BY <1>3 DEF FirewallOpened, Goto
<1>6. ConnectServe => op'.step = "play" /\ op'.id = op.id
  BY <1>3 DEF ConnectServe, Goto
<1>7. StopOldServer => op'.step = "serve" /\ op'.name = "boost"
  BY <1>3 DEF StopOldServer, Goto, At
<1>8. CastAttempt => op'.step = "handshake" /\ op'.id = op.id
  <2>1. \A w : LET x == [op EXCEPT !.att = w, !.ready = "none", !.step = "handshake"]
               IN  x.step = "handshake" /\ x.id = op.id
    BY <1>1, OpKeeps
  <2> QED
    BY <2>1 DEF CastAttempt
<1> QED
  BY <1>2, <1>4, <1>5, <1>6, <1>7, <1>8

\* The timed-out attempt is retried for the same session, or given up.
LEMMA AttemptMoves ==
    ASSUME TypeInv, CastAttemptFails
    PROVE  op'.step = "teardown" \/ (op'.step = "play" /\ op'.id = op.id)
<1>1. /\ [op EXCEPT !.att = NoWatcher, !.ready = "none", !.retried = TRUE,
                    !.step = "play"].step = "play"
      /\ [op EXCEPT !.att = NoWatcher, !.ready = "none", !.retried = TRUE,
                    !.step = "play"].id = op.id
  BY Typed, OpKeeps
<1>2. [Unlocked EXCEPT !.name = "disconnect", !.step = "teardown"].step = "teardown"
  BY AcquireMoves
<1>3. \/ op' = [op EXCEPT !.att = NoWatcher, !.ready = "none", !.retried = TRUE,
                          !.step = "play"]
      \/ op' = [Unlocked EXCEPT !.name = "disconnect", !.step = "teardown"]
  BY DEF CastAttemptFails, GiveUp
<1>4. CASE op' = [Unlocked EXCEPT !.name = "disconnect", !.step = "teardown"]
  BY <1>2, <1>4, Zenon
<1>5. CASE op' = [op EXCEPT !.att = NoWatcher, !.ready = "none", !.retried = TRUE,
                            !.step = "play"]
  BY <1>1, <1>5, Zenon
<1> QED
  BY <1>3, <1>4, <1>5

\* The remaining steps of a command that works on a session.
Working == ConnectPlay \/ CastConnected \/ Register \/ RestreamServe
           \/ RestreamServeFails \/ RestartTake \/ Replay \/ PutBack \/ Rebuffer
           \/ Reject

\* They start at a step that has a session, and need no id of it.
LEMMA WorkingMoves ==
    ASSUME TypeInv, Working
    PROVE  /\ op.step \in WithSession
           /\ op'.step \in {"none", "register", "settle", "restart", "fail", "replay",
                            "putback", "buffering", "reject"}
<1>1. op \in OpType
  BY Typed
<1>2. op.step \in WithSession
  BY DEF Working, ConnectPlay, CastConnected, Register, RestreamServe,
         RestreamServeFails, RestartTake, Replay, PutBack, Rebuffer, Reject,
         AtAny, At, WithSession
<1>3. CASE ConnectPlay
  <2>1. \A w : [op EXCEPT !.att = w, !.step = "register"].step = "register"
    BY <1>1, OpMoves
  <2> QED
    BY <1>2, <1>3, <2>1 DEF ConnectPlay
<1>4. CASE Register \/ PutBack
  <2>1. \A s : [op EXCEPT !.att = NoWatcher, !.step = s].step = s
    BY <1>1, OpMoves
  <2> QED
    BY <1>2, <1>4, <2>1 DEF Register, PutBack
<1>5. CASE Replay
  <2>1. \A w, b : [op EXCEPT !.att = w, !.ok = b, !.step = "putback"].step = "putback"
    BY <1>1, OpMoves
  <2> QED
    BY <1>2, <1>5, <2>1 DEF Replay
<1>6. CASE CastConnected \/ RestreamServe \/ RestreamServeFails \/ RestartTake
           \/ Rebuffer \/ Reject
  <2>1. \/ op' = Unlocked
        \/ \E s \in {"register", "restart", "fail", "replay", "reject"} :
             op' = [op EXCEPT !.step = s]
    BY <1>6 DEF CastConnected, RestreamServe, RestreamServeFails, RestartTake,
                Rebuffer, Reject, Goto, Release
  <2>2. \A s : [op EXCEPT !.step = s].step = s
    BY <1>1, OpMoves
  <2> QED
    BY <1>2, <2>1, <2>2, AcquireMoves
<1> QED
  BY <1>3, <1>4, <1>5, <1>6 DEF Working

\* A command that takes the mutex, or gives up.
Taking == Connect \/ Disconnect \/ AutoStop \/ Shutdown \/ ConnectFails
          \/ TakeActive \/ StopServer

\* It has no session yet, or none any more.
LEMMA TakingMoves ==
    ASSUME TypeInv, Taking
    PROVE  op'.step \in {"teardown", "stopping", "publish", "grace", "reset"}
<1>1. CASE Connect \/ Disconnect \/ AutoStop \/ Shutdown
  <2>1. \E n : op' = [Unlocked EXCEPT !.name = n, !.step = "teardown"]
    BY <1>1 DEF Connect, Disconnect, AutoStop, Shutdown, Acquire
  <2>2. op'.step = "teardown"
    BY <2>1, AcquireMoves
  <2> QED
    BY <2>2
<1>2. CASE ConnectFails
  BY <1>2, AcquireMoves DEF ConnectFails, GiveUp
<1>3. CASE TakeActive \/ StopServer
  <2>1. \E s \in {"stopping", "publish", "grace", "reset"} : op' = [op EXCEPT !.step = s]
    BY <1>3 DEF TakeActive, StopServer, Goto
  <2>2. \A s : [op EXCEPT !.step = s].step = s
    BY Typed, OpMoves
  <2> QED
    BY <2>1, <2>2
<1> QED
  BY <1>1, <1>2, <1>3 DEF Taking

\* A reload needs an active session when it takes the mutex.
LEMMA ReloadMoves ==
    ASSUME LifeInv, Seek \/ SetSubtitle \/ SetBoost
    PROVE  session.id # 0 /\ op'.step \in {"restart", "fail", "swap"}
<1>1. IsActive(session.state)
  BY DEF Seek, SetSubtitle, SetBoost, BeginReload
<1>2. session.id # 0
  BY <1>1 DEF IsActive, LifeInv, IdleHasNoId
<1>3. \E n, s : /\ s \in {"restart", "fail", "swap"}
                /\ op' = [Unlocked EXCEPT !.name = n, !.step = s]
  BY DEF Seek, SetSubtitle, SetBoost, BeginReload, Acquire
<1> QED
  BY <1>2, <1>3, AcquireMoves
\* All other steps free the mutex, or leave its holder where it is.
Resting == \/ Reset \/ UnknownDevice \/ Settle \/ FailRestream
           \/ op' = op
           \/ op'.step = op.step /\ op'.name = op.name /\ op'.id = op.id

\* A Cast thread that answers its oneshot moves nobody.
LEMMA TellMoves ==
    ASSUME TypeInv, NEW w \in Watchers, CastReady(w) \/ CastRefused(w)
    PROVE  op'.step = op.step /\ op'.name = op.name /\ op'.id = op.id
<1>1. op' = op \/ \E r : op' = [op EXCEPT !.ready = r]
  BY DEF CastReady, CastRefused, TellReady
<1>2. \A r : LET x == [op EXCEPT !.ready = r]
             IN  x.step = op.step /\ x.name = op.name /\ x.id = op.id
  BY Typed, OpKeeps
<1> QED
  BY <1>1, <1>2

\* Every step of the daemon is of one of the kinds above.
LEMMA HolderMoves ==
    ASSUME TypeInv, [Next]_vars
    PROVE  \/ Publish \/ Lookup \/ FirewallOpened \/ ConnectServe \/ CastAttempt
           \/ StopOldServer \/ CastAttemptFails
           \/ Working \/ Taking \/ Seek \/ SetSubtitle \/ SetBoost \/ Resting
<1>1. CASE \/ Exit \/ Pause \/ Resume \/ TakeEvent \/ AutoStopTooLate \/ SwitchOff
           \/ Terminated \/ UNCHANGED vars
  BY <1>1 DEF Exit, Pause, Resume, Flip, TakeEvent, AutoStopTooLate, SwitchOff,
              Terminated, vars, Resting
<1>2. ASSUME NEW w \in Watchers,
             \/ PollStep(w) \/ Announce(w)
             \/ CastGreet(w) \/ CastPublish(w) \/ CastEnds(w) \/ CastLeaves(w)
      PROVE  Resting
  BY <1>2 DEF PollStep, PollCheck, PollAnswer, PollApply, Announce, CastGreet,
              CastPublish, CastEnds, CastLeaves, Resting
<1>3. ASSUME NEW w \in Watchers, CastReady(w) \/ CastRefused(w)
      PROVE  Resting
  BY <1>3, TellMoves DEF Resting
<1> QED
  BY <1>1, <1>2, <1>3
  DEF Next, HolderStep, TeardownStep, ConnectStep, ReloadStep, Request,
      AutoStopStep, CastStep, Working, Taking, Resting

\* Only connect and whoever frees the mutex change whose session it is.
LEMMA SameSession ==
    ASSUME LifeInv, [Next]_vars, op'.step \in WithSession
    PROVE  Publish \/ session'.id = session.id
<1>1. CASE Reset \/ UnknownDevice
  <2>1. op'.step = "none"
    BY <1>1, AcquireMoves DEF Reset, UnknownDevice, Release
  <2> QED
    BY <2>1 DEF WithSession
<1> QED
  BY <1>1, SessionMoves DEF ReportsSession

\* A command past its first checks keeps its session, and its id.
LEMMA HolderStepInv ==
    ASSUME LifeInv, [Next]_vars
    PROVE  HolderHasSession' /\ HolderHasId'
<1>1. TypeInv
  BY DEF LifeInv, ServerInv
<1>2. HolderHasSession /\ HolderHasId
  BY DEF LifeInv
<1>3. op'.step \notin WithSession => HolderHasSession' /\ HolderHasId'
  BY DEF HolderHasSession, HolderHasId, WithSession
<1>4. ASSUME op.step \in WithSession, ~Publish, HolderHasId'
      PROVE  HolderHasSession' /\ HolderHasId'
  BY <1>2, <1>4, SameSession DEF HolderHasSession
<1>5. CASE Publish
  <2>1. op'.step = "lookup" /\ op'.id = nextId /\ nextId # 0 /\ session'.id = nextId
    BY <1>1, <1>5, ConnectMoves, Typed DEF Publish
  <2> QED
    BY <2>1 DEF HolderHasSession, HolderHasId
<1>6. CASE ~Publish /\ (Lookup \/ FirewallOpened \/ ConnectServe \/ CastAttempt)
  <2>1. op.id # 0 /\ op.step \in WithSession
    BY <1>2, <1>6 DEF Lookup, FirewallOpened, ConnectServe, CastAttempt, At,
                      HolderHasId, WithSession
  <2>2. op'.id = op.id
    BY <1>1, <1>6, ConnectMoves
  <2>3. HolderHasId'
    BY <2>1, <2>2 DEF HolderHasId
  <2> QED
    BY <1>4, <1>6, <2>1, <2>3
<1>7. CASE ~Publish /\ StopOldServer
  <2>1. op.step \in WithSession
    BY <1>7 DEF StopOldServer, At, WithSession
  <2>2. op'.step = "serve" /\ op'.name = "boost"
    BY <1>1, <1>7, ConnectMoves
  <2>3. HolderHasId'
    BY <2>2 DEF HolderHasId
  <2> QED
    BY <1>4, <1>7, <2>1, <2>3
<1>8. CASE ~Publish /\ CastAttemptFails
  <2>1. op.id # 0 /\ op.step \in WithSession
    BY <1>2, <1>8 DEF CastAttemptFails, At, HolderHasId, WithSession
  <2>2. CASE op'.step = "teardown"
    BY <1>3, <2>2 DEF WithSession
  <2>3. CASE op'.step = "play" /\ op'.id = op.id
    <3>1. HolderHasId'
      BY <2>1, <2>3 DEF HolderHasId
    <3> QED
      BY <1>4, <1>8, <2>1, <3>1
  <2> QED
    BY <1>1, <1>8, <2>2, <2>3, AttemptMoves
<1>9. CASE ~Publish /\ Working
  <2>1. /\ op.step \in WithSession
        /\ op'.step \in {"none", "register", "settle", "restart", "fail", "replay",
                         "putback", "buffering", "reject"}
    BY <1>1, <1>9, WorkingMoves
  <2>2. HolderHasId'
    BY <2>1 DEF HolderHasId
  <2> QED
    BY <1>4, <1>9, <2>1, <2>2
<1>10. CASE Taking
  <2>1. op'.step \notin WithSession
    BY <1>1, <1>10, TakingMoves DEF WithSession
  <2> QED
    BY <1>3, <2>1
<1>11. CASE ~Publish /\ (Seek \/ SetSubtitle \/ SetBoost)
  <2>1. session.id # 0 /\ op'.step \in {"restart", "fail", "swap"}
    BY <1>11, ReloadMoves
  <2>2. session'.id = session.id
    BY <1>11, <2>1, SameSession DEF WithSession
  <2> QED
    BY <2>1, <2>2 DEF HolderHasSession, HolderHasId
<1>12. CASE ~Publish /\ Resting
  <2>1. CASE Reset \/ UnknownDevice \/ Settle \/ FailRestream
    <3>1. op'.step = "none"
      BY <2>1, AcquireMoves DEF Reset, UnknownDevice, Settle, FailRestream, Release
    <3> QED
      BY <1>3, <3>1 DEF WithSession
  <2>2. CASE op'.step = op.step /\ op'.name = op.name /\ op'.id = op.id
    <3>1. HolderHasId'
      BY <1>2, <2>2 DEF HolderHasId
    <3>2. CASE op.step \in WithSession
      BY <1>4, <1>12, <3>1, <3>2
    <3>3. CASE op.step \notin WithSession
      BY <1>3, <2>2, <3>3
    <3> QED
      BY <3>2, <3>3
  <2> QED
    BY <1>12, <2>1, <2>2 DEF Resting
<1> QED
  BY <1>1, <1>5, <1>6, <1>7, <1>8, <1>9, <1>10, <1>11, <1>12, HolderMoves

-------------------------------------------------------------------------------
(* The invariant *)

\* At the start there is no session and nobody who could have one.
LEMMA LifeInit == Init => LifeInv
<1> SUFFICES ASSUME Init PROVE LifeInv
  OBVIOUS
<1>1. ServerInv
  BY ServerInit
<1>2. session.id = 0 /\ session.state = "Idle"
  BY DEF Init, NoSession
<1>3. op.step = "none"
  BY AcquireMoves DEF Init
<1>4. \A w \in Watchers : Watched(watch[w])
  BY DEF Init, Watched, Gone, AllProtocols, Pollable
<1> QED
  BY <1>1, <1>2, <1>3, <1>4
  DEF LifeInv, IdleHasNoId, AllWatched, HolderHasSession, HolderHasId, WithSession

\* Every step keeps the invariant.
LEMMA LifeStep == LifeInv /\ [Next]_vars => LifeInv'
<1> SUFFICES ASSUME LifeInv, [Next]_vars PROVE LifeInv'
  OBVIOUS
<1>1. ServerInv'
  BY ServerStep DEF LifeInv
<1>2. IdleHasNoId' /\ AllWatched' /\ HolderHasSession' /\ HolderHasId'
  BY IdleStep, WatchedStep, HolderStepInv
<1> QED
  BY <1>1, <1>2 DEF LifeInv

\* The invariant holds throughout.
LEMMA LifeInvariant == Spec => []LifeInv
  BY LifeInit, LifeStep, PTL DEF Spec

\* For any receivers, commands and timing: no poller, Cast thread or reload that
\* writes the shared Session late ever leaves one without an id, or revives one
\* that was reset.
THEOREM IdleNeverHasId == Spec => []IdleHasNoId
<1>1. LifeInv => IdleHasNoId
  BY DEF LifeInv
<1> QED
  BY <1>1, LifeInvariant, PTL

-------------------------------------------------------------------------------
(* The refinement *)

ServerStarts == ConnectServe \/ RestreamServe
ServerEnds == StopServer \/ StopOldServer

\* Only connect gives out an id.
LEMMA IdMoves ==
    ASSUME [Next]_vars
    PROVE  Publish \/ nextId' = nextId
<1>1. ASSUME NEW w \in Watchers, PollStep(w) \/ CastStep(w) \/ Announce(w)
      PROVE  nextId' = nextId
  BY <1>1 DEF PollStep, PollCheck, PollAnswer, PollApply, Announce, CastStep,
              CastReady, CastRefused, CastGreet, CastPublish, CastEnds, CastLeaves
<1>2. CASE TeardownStep \/ Exit \/ TakeEvent \/ AutoStopStep \/ SwitchOff
           \/ Terminated \/ UNCHANGED vars
  BY <1>2 DEF TeardownStep, TakeActive, StopServer, Reset, Exit, TakeEvent,
              AutoStopStep, AutoStop, AutoStopTooLate, SwitchOff, Terminated, vars
<1>3. CASE ConnectStep
  BY <1>3 DEF ConnectStep, Lookup, UnknownDevice, FirewallOpened, ConnectFails,
              ConnectServe, ConnectPlay, CastAttempt, CastConnected,
              CastAttemptFails, Register, Settle
<1>4. CASE ReloadStep
  BY <1>4 DEF ReloadStep, StopOldServer, RestreamServe, RestreamServeFails,
              RestartTake, Replay, PutBack, Rebuffer, Reject, FailRestream
<1>5. CASE Request
  BY <1>5 DEF Request, Connect, Disconnect, Pause, Resume, Flip, Seek,
              SetSubtitle, SetBoost, Shutdown
<1> QED
  BY <1>1, <1>2, <1>3, <1>4, <1>5 DEF Next, HolderStep

\* Only a command that starts or stops the media server changes their number.
LEMMA ServerMoves ==
    ASSUME [Next]_vars
    PROVE  ServerStarts \/ ServerEnds \/ servers' = servers
<1>1. ASSUME NEW w \in Watchers, PollStep(w) \/ CastStep(w) \/ Announce(w)
      PROVE  servers' = servers
  BY <1>1 DEF PollStep, PollCheck, PollAnswer, PollApply, Announce, CastStep,
              CastReady, CastRefused, CastGreet, CastPublish, CastEnds, CastLeaves,
              activeVars
<1>2. CASE TakeActive \/ Reset \/ Exit \/ TakeEvent \/ AutoStopStep \/ SwitchOff
           \/ Terminated \/ UNCHANGED vars
  BY <1>2 DEF TakeActive, Reset, Exit, TakeEvent, AutoStopStep, AutoStop,
              AutoStopTooLate, SwitchOff, Terminated, vars, activeVars
<1>3. CASE ConnectStep
  BY <1>3 DEF ConnectStep, Publish, Lookup, UnknownDevice, FirewallOpened,
              ConnectFails, ConnectPlay, CastAttempt, CastConnected,
              CastAttemptFails, Register, Settle, activeVars, ServerStarts
<1>4. CASE ReloadStep
  BY <1>4 DEF ReloadStep, RestreamServeFails, RestartTake, Replay, PutBack,
              Rebuffer, Reject, FailRestream, activeVars, ServerStarts, ServerEnds
<1>5. CASE Request
  BY <1>5 DEF Request, Connect, Disconnect, Pause, Resume, Flip, Seek,
              SetSubtitle, SetBoost, Shutdown, activeVars
<1> QED
  BY <1>1, <1>2, <1>3, <1>4, <1>5 DEF Next, HolderStep, TeardownStep, ServerEnds

\* Where a command has no server, none runs.
LEMMA NoneRuns ==
    ASSUME LifeInv, op.step \in {"publish", "lookup", "firewall", "serve", "reset"}
    PROVE  servers = 0
<1>1. media = FALSE /\ TypeInv
  BY DEF LifeInv, ServerInv, ServerIsDown
<1> QED
  BY <1>1, Counted

\* The mutex holder that starts a server has a session and found none running.
LEMMA ServerStartsOnce ==
    ASSUME LifeInv, ServerStarts
    PROVE  /\ session' = session /\ nextId' = nextId /\ session.id # 0
           /\ servers = 0 /\ servers' = 1
<1>1. session' = session /\ nextId' = nextId /\ servers' = servers + 1
  BY DEF ServerStarts, ConnectServe, RestreamServe, StartMedia
<1>2. op.step = "serve"
  BY DEF ServerStarts, ConnectServe, RestreamServe, At
<1>3. session.id # 0 /\ servers = 0
  BY <1>2, NoneRuns DEF LifeInv, HolderHasSession, WithSession
<1> QED
  BY <1>1, <1>3

\* Stopping the server touches nothing else of the life cycle.
LEMMA ServerEndsAlone ==
    ASSUME LifeInv, ServerEnds
    PROVE  session' = session /\ nextId' = nextId /\ servers' = 0
<1>1. session' = session /\ nextId' = nextId
  BY DEF ServerEnds, StopServer, StopOldServer
<1>2. servers' = 0
  BY ServerStops DEF LifeInv, ServerInv, ServerEnds
<1> QED
  BY <1>1, <1>2

\* The stage a state stands for.
LEMMA StageOf ==
    /\ Stage("Idle") = "Idle" /\ Stage("Connecting") = "Connecting"
    /\ \A x \in Reported : Stage(x) \in {"Live", "Ended"}
  BY DEF Stage, Reported

\* The daemon starts as the life cycle does.
LEMMA LifecycleInit == Init => Lifecycle!Init
<1> SUFFICES ASSUME Init PROVE Lifecycle!Init
  OBVIOUS
<1>1. session.id = 0 /\ session.state = "Idle" /\ nextId = 1 /\ servers = 0
  BY DEF Init, NoSession
<1> QED
  BY <1>1, StageOf DEF Lifecycle!Init

\* A session is opened by a connect whose teardown has stopped the server.
LEMMA PublishOpens ==
    ASSUME LifeInv, [Next]_vars, Publish
    PROVE  Lifecycle!Open
<1>1. servers = 0 /\ servers' = servers
  BY NoneRuns DEF Publish, At, activeVars
<1>2. session'.id = nextId /\ session'.state = "Connecting" /\ nextId' = nextId + 1
  BY DEF Publish
<1>3. nextId \in Nat
  BY Typed DEF LifeInv, ServerInv
<1> QED
  BY <1>1, <1>2, <1>3, StageOf DEF Lifecycle!Open

\* It is closed with its server down.
LEMMA ResetCloses ==
    ASSUME LifeInv, Reset \/ UnknownDevice
    PROVE  Lifecycle!Close \/ UNCHANGED Lifecycle!vars
<1>1. servers = 0 /\ servers' = servers /\ nextId' = nextId
  BY NoneRuns DEF Reset, UnknownDevice, AtAny, At, activeVars
<1>2. session'.id = 0 /\ session'.state = "Idle"
  BY DEF Reset, UnknownDevice, NoSession
<1>3. session.id = 0 => session.state = "Idle"
  BY DEF LifeInv, IdleHasNoId
<1> QED
  BY <1>1, <1>2, <1>3, StageOf DEF Lifecycle!Close, Lifecycle!vars

\* Any other step serves, stops serving, reports, or is invisible.
LEMMA ReportMaps ==
    ASSUME LifeInv, [Next]_vars, ReportsSession, nextId' = nextId
    PROVE  Lifecycle!Next \/ UNCHANGED Lifecycle!vars
<1>1. CASE ServerStarts
  BY <1>1, ServerStartsOnce DEF Lifecycle!Next, Lifecycle!Serve
<1>2. CASE ServerEnds
  <2>1. session' = session /\ nextId' = nextId /\ servers' = 0
    BY <1>2, ServerEndsAlone
  <2>2. servers \in Nat
    BY Typed DEF LifeInv, ServerInv
  <2>3. CASE servers = 0
    BY <2>1, <2>3 DEF Lifecycle!vars
  <2>4. CASE servers # 0
    BY <2>1, <2>2, <2>4 DEF Lifecycle!Next, Lifecycle!Unserve
  <2> QED
    BY <2>3, <2>4
<1>3. CASE servers' = servers
  <2>1. CASE session'.state = session.state
    BY <1>3, <2>1 DEF ReportsSession, Lifecycle!vars
  <2>2. CASE session.id # 0 /\ session'.state \in Reported
    BY <1>3, <2>2, StageOf DEF ReportsSession, Lifecycle!Next, Lifecycle!Report
  <2> QED
    BY <2>1, <2>2 DEF ReportsSession
<1> QED
  BY <1>1, <1>2, <1>3, ServerMoves

\* Every step of the daemon is a step of the life cycle or invisible to it.
LEMMA LifecycleStep ==
    LifeInv /\ [Next]_vars => [Lifecycle!Next]_(Lifecycle!vars)
<1> SUFFICES ASSUME LifeInv, [Next]_vars
             PROVE  Lifecycle!Next \/ UNCHANGED Lifecycle!vars
  OBVIOUS
<1>1. CASE Publish
  BY <1>1, PublishOpens DEF Lifecycle!Next
<1>2. CASE Reset \/ UnknownDevice
  BY <1>2, ResetCloses DEF Lifecycle!Next
<1>3. CASE ReportsSession /\ nextId' = nextId
  BY <1>3, ReportMaps
<1> QED
  BY <1>1, <1>2, <1>3, SessionMoves, IdMoves

\* The daemon implements SessionLifecycle for every set of receivers, commands
\* and watchers: ids are never reused, a file is served only for a session and by
\* one server, and a session is left only when its server is down.
THEOREM DaemonImplementsLifecycle == Spec => RefinesLifecycle
  BY LifeInvariant, LifecycleInit, LifecycleStep, PTL
  DEF Spec, RefinesLifecycle, Lifecycle!Spec

-------------------------------------------------------------------------------
(* auto_stop and shutdown.  Both hold the action mutex over several awaits *)
(* while the watchers and the event channel go on.  The invariant says how *)
(* far each has come and what can not have changed since.                  *)

\* The commands that end something on their own account.
Enders == {"autostop", "shutdown"}

\* auto_stop is somewhere in disconnect_locked or about to reset, and the session
\* is still the one whose event it handles.
AutoStopUnderway ==
    op.name = "autostop" => /\ op.step \in {"teardown", "stopping", "reset"}
                            /\ session.id = handling
                            /\ handling # 0

\* What shutdown has already taken down, and that nothing came back since.
ShutdownUnderway ==
    op.name = "shutdown" =>
        /\ op.step \in {"teardown", "stopping", "grace"}
        /\ op.step # "teardown" => conn = NoConn /\ serve = "none"
        /\ op.step = "grace" => media = FALSE

\* The process exits only out of the grace period of a shutdown.
ExitedByShutdown == exited => op.name = "shutdown" /\ op.step = "grace"

TeardownInv == LifeInv /\ AutoStopUnderway /\ ShutdownUnderway /\ ExitedByShutdown

-------------------------------------------------------------------------------
(* Who holds the mutex *)

\* The name of the command that takes the mutex, and that moving on keeps it.
LEMMA HolderNames ==
    ASSUME NEW o \in OpType
    PROVE  /\ Unlocked.name = "free"
           /\ \A n, s : [Unlocked EXCEPT !.name = n, !.step = s].name = n
           /\ \A n, s : [o EXCEPT !.id = n, !.step = s].name = o.name
           /\ \A w, s : [o EXCEPT !.att = w, !.step = s].name = o.name
           /\ \A w, b, s : [o EXCEPT !.att = w, !.ok = b, !.step = s].name = o.name
  BY DEF Unlocked, OpType

\* What the other actors do while an auto_stop or a shutdown is under way.
Bystander ==
    /\ op'.name = op.name /\ op'.step = op.step
    /\ UNCHANGED <<conn, serve, media, exited>>
    /\ handling' = handling \/ handling = 0

\* While auto_stop or shutdown holds the mutex no other command takes a step.
LEMMA OnlyBystanders ==
    ASSUME TypeInv, [Next]_vars, op.name \in Enders
    PROVE  TakeActive \/ StopServer \/ Reset \/ Exit \/ Bystander
<1>1. op.name # "free" /\ op # Unlocked
  BY HolderNames, Typed DEF Enders
<1>2. ~ConnectStep
  BY <1>1 DEF ConnectStep, Publish, Lookup, UnknownDevice, FirewallOpened,
              ConnectFails, ConnectServe, ConnectPlay, CastAttempt, CastConnected,
              CastAttemptFails, Register, Settle, At, Enders
<1>3. ~ReloadStep
  BY <1>1 DEF ReloadStep, StopOldServer, RestreamServe, RestreamServeFails,
              RestartTake, Replay, PutBack, Rebuffer, Reject, FailRestream, At,
              AtAny, Reloads, Enders
<1>4. ~Request /\ ~AutoStopStep
  BY <1>1 DEF Request, Connect, Disconnect, Pause, Resume, Flip, Seek, SetSubtitle,
              SetBoost, BeginReload, Shutdown, AutoStopStep, AutoStop,
              AutoStopTooLate, Acquire, Free
<1>5. CASE TakeEvent \/ SwitchOff \/ Terminated \/ UNCHANGED vars
  BY <1>5 DEF TakeEvent, SwitchOff, Terminated, vars, activeVars, taskVars, outerVars,
              Bystander
<1>6. ASSUME NEW w \in Watchers,
             \/ PollStep(w) \/ Announce(w)
             \/ CastGreet(w) \/ CastPublish(w) \/ CastEnds(w) \/ CastLeaves(w)
      PROVE  Bystander
  BY <1>6 DEF PollStep, PollCheck, PollAnswer, PollApply, Announce, CastGreet,
              CastPublish, CastEnds, CastLeaves, activeVars, taskVars, outerVars,
              Bystander
<1>7. ASSUME NEW w \in Watchers, CastReady(w) \/ CastRefused(w)
      PROVE  Bystander
  <2>1. op'.name = op.name /\ op'.step = op.step
    BY <1>7, TellMoves
  <2> QED
    BY <1>7, <2>1 DEF CastReady, CastRefused, activeVars, outerVars, Bystander
<1> QED
  BY <1>2, <1>3, <1>4, <1>5, <1>6, <1>7
  DEF Next, HolderStep, TeardownStep, CastStep

\* Anybody else who holds the mutex, or nobody, gives it to auto_stop or shutdown
\* only by their first step.
LEMMA EndersBegin ==
    ASSUME TypeInv, [Next]_vars, op.name \notin Enders
    PROVE  /\ AutoStop \/ Shutdown \/ op'.name \notin Enders
           /\ exited' = exited
<1>1. op \in OpType
  BY Typed
<1>2. \A n \in {"free", "connect", "disconnect", "seek", "subtitle", "boost"} : n \notin Enders
  BY DEF Enders
<1>3. ASSUME op' = op \/ op'.name = op.name
      PROVE  op'.name \notin Enders
  BY <1>3
<1>14. /\ Unlocked.name \notin Enders
       /\ [Unlocked EXCEPT !.name = "disconnect", !.step = "teardown"].name \notin Enders
  BY <1>1, <1>2, HolderNames
<1>15. /\ \A s : [op EXCEPT !.step = s].name \notin Enders
       /\ \A n, s : [op EXCEPT !.id = n, !.step = s].name \notin Enders
       /\ \A w, s : [op EXCEPT !.att = w, !.step = s].name \notin Enders
       /\ \A w, s : [op EXCEPT !.att = w, !.ready = "none", !.step = s].name \notin Enders
       /\ \A w, b, s : [op EXCEPT !.att = w, !.ok = b, !.step = s].name \notin Enders
  BY <1>1, OpKeeps, HolderNames
<1>4. CASE TeardownStep
  <2>1. op' = Unlocked \/ \E s : op' = [op EXCEPT !.step = s]
    BY <1>4 DEF TeardownStep, TakeActive, StopServer, Reset, Goto, Release
  <2>2. op'.name \notin Enders
    BY <1>14, <1>15, <2>1, Zenon
  <2> QED
    BY <1>4, <2>2 DEF TeardownStep, TakeActive, StopServer, Reset, outerVars
<1>5. CASE ConnectStep /\ ~CastAttemptFails
  <2>1. \/ op' = Unlocked
        \/ op' = [Unlocked EXCEPT !.name = "disconnect", !.step = "teardown"]
        \/ \E s : op' = [op EXCEPT !.step = s]
        \/ \E n, s : op' = [op EXCEPT !.id = n, !.step = s]
        \/ \E w, s : op' = [op EXCEPT !.att = w, !.step = s]
        \/ \E w, s : op' = [op EXCEPT !.att = w, !.ready = "none", !.step = s]
    BY <1>5 DEF ConnectStep, Publish, Lookup, UnknownDevice, FirewallOpened,
                ConnectFails, ConnectServe, ConnectPlay, CastAttempt,
                CastConnected, Register, Settle, Goto, Release, GiveUp
  <2>2. op'.name \notin Enders
    BY <1>14, <1>15, <2>1, Zenon
  <2> QED
    BY <1>5, <2>2 DEF ConnectStep, Publish, Lookup, UnknownDevice, FirewallOpened,
                      ConnectFails, ConnectServe, ConnectPlay, CastAttempt,
                      CastConnected, Register, Settle, outerVars
<1>6. CASE CastAttemptFails
  <2>1. \/ op' = [op EXCEPT !.att = NoWatcher, !.ready = "none", !.retried = TRUE,
                            !.step = "play"]
        \/ op' = [Unlocked EXCEPT !.name = "disconnect", !.step = "teardown"]
    BY <1>6 DEF CastAttemptFails, GiveUp
  <2>2. [op EXCEPT !.att = NoWatcher, !.ready = "none", !.retried = TRUE,
                   !.step = "play"].name = op.name
    BY <1>1, OpKeeps
  <2>3. [Unlocked EXCEPT !.name = "disconnect", !.step = "teardown"].name = "disconnect"
    BY <1>1, HolderNames
  <2>4. op'.name = op.name \/ op'.name = "disconnect"
    BY <2>1, <2>2, <2>3, Zenon
  <2> QED
    BY <1>2, <1>6, <2>4 DEF CastAttemptFails, outerVars
<1>7. CASE ReloadStep
  <2>1. \/ op' = Unlocked
        \/ \E s : op' = [op EXCEPT !.step = s]
        \/ \E w, s : op' = [op EXCEPT !.att = w, !.step = s]
        \/ \E w, b, s : op' = [op EXCEPT !.att = w, !.ok = b, !.step = s]
    BY <1>7 DEF ReloadStep, StopOldServer, RestreamServe, RestreamServeFails,
                RestartTake, Replay, PutBack, Rebuffer, Reject, FailRestream, Goto,
                Release
  <2>2. op'.name \notin Enders
    BY <1>14, <1>15, <2>1, Zenon
  <2> QED
    BY <1>7, <2>2 DEF ReloadStep, StopOldServer, RestreamServe, RestreamServeFails,
                      RestartTake, Replay, PutBack, Rebuffer, Reject, FailRestream,
                      outerVars
<1>8. CASE Connect \/ Disconnect \/ Seek \/ SetSubtitle \/ SetBoost
  <2>1. \E n \in {"connect", "disconnect", "seek", "subtitle", "boost"} : \E s :
          op' = [Unlocked EXCEPT !.name = n, !.step = s]
    BY <1>8 DEF Connect, Disconnect, Seek, SetSubtitle, SetBoost, BeginReload, Acquire
  <2>2. op'.name \notin Enders
    BY <1>1, <1>2, <2>1, HolderNames
  <2> QED
    BY <1>8, <2>2 DEF Connect, Disconnect, Seek, SetSubtitle, SetBoost, outerVars
<1>9. CASE Pause \/ Resume \/ TakeEvent \/ AutoStopTooLate \/ SwitchOff \/ Terminated
           \/ UNCHANGED vars
  BY <1>3, <1>9 DEF Pause, Resume, Flip, TakeEvent, AutoStopTooLate, SwitchOff,
                    Terminated, vars, outerVars
<1>10. CASE AutoStop \/ Shutdown
  BY <1>10 DEF AutoStop, Shutdown, outerVars
<1>11. ~Exit
  BY DEF Exit, At, Enders
<1>12. ASSUME NEW w \in Watchers,
              \/ PollStep(w) \/ Announce(w)
              \/ CastGreet(w) \/ CastPublish(w) \/ CastEnds(w) \/ CastLeaves(w)
       PROVE  op' = op /\ exited' = exited
  BY <1>12 DEF PollStep, PollCheck, PollAnswer, PollApply, Announce, CastGreet,
               CastPublish, CastEnds, CastLeaves, outerVars
<1>13. ASSUME NEW w \in Watchers, CastReady(w) \/ CastRefused(w)
       PROVE  op'.name = op.name /\ exited' = exited
  BY <1>13, TellMoves DEF CastReady, CastRefused, outerVars
<1> QED
  BY <1>3, <1>4, <1>5, <1>6, <1>7, <1>8, <1>9, <1>10, <1>11, <1>12, <1>13
  DEF Next, HolderStep, Request, AutoStopStep, CastStep

-------------------------------------------------------------------------------
(* The invariant *)

\* What a step of the ender itself does: the next step, and what it has emptied.
LEMMA EnderMoves ==
    ASSUME TypeInv
    PROVE  /\ TakeActive => /\ op'.step = "stopping" /\ op'.name = op.name
                            /\ conn' = NoConn /\ serve' = "none"
                            /\ UNCHANGED <<session, handling, exited>>
           /\ StopServer => /\ op'.name = op.name
                            /\ op.name = "autostop" => op'.step = "reset"
                            /\ op.name = "shutdown" => op'.step = "grace"
                            /\ op.step = "stopping"
                            /\ media' = FALSE
                            /\ UNCHANGED <<session, conn, serve, handling, exited>>
           /\ Exit => /\ op.name = "shutdown" /\ op.step = "grace"
                      /\ UNCHANGED <<session, op, conn, serve, media, handling>>
           /\ Reset => op'.name = "free" /\ op.name # "shutdown" /\ exited' = exited
<1>1. \A s : LET x == [op EXCEPT !.step = s] IN x.step = s /\ x.name = op.name
  BY Typed, OpKeeps
<1>2. TakeActive => /\ op'.step = "stopping" /\ op'.name = op.name
                    /\ conn' = NoConn /\ serve' = "none"
                    /\ UNCHANGED <<session, handling, exited>>
  BY <1>1 DEF TakeActive, Goto, outerVars
<1>3. StopServer => /\ op'.name = op.name
                    /\ op.name = "autostop" => op'.step = "reset"
                    /\ op.name = "shutdown" => op'.step = "grace"
                    /\ op.step = "stopping"
                    /\ media' = FALSE
                    /\ UNCHANGED <<session, conn, serve, handling, exited>>
  BY <1>1 DEF StopServer, Goto, AtAny, At, taskVars, outerVars
<1>4. Exit => /\ op.name = "shutdown" /\ op.step = "grace"
              /\ UNCHANGED <<session, op, conn, serve, media, handling>>
  BY DEF Exit, At, activeVars, taskVars
<1>5. Reset => op'.name = "free" /\ op.name # "shutdown" /\ exited' = exited
  BY Typed, HolderNames DEF Reset, Release, AtAny, outerVars
<1> QED
  BY <1>2, <1>3, <1>4, <1>5

\* While auto_stop is under way only its own reset replaces the session.
LEMMA EnderKeepsSession ==
    ASSUME LifeInv, [Next]_vars, op.name \in Enders, ~Reset
    PROVE  session'.id = session.id
<1>1. ~Publish /\ ~UnknownDevice
  BY DEF Publish, UnknownDevice, At, Enders
<1> QED
  BY <1>1, SessionMoves DEF ReportsSession

\* Nothing is under way at the start.
LEMMA TeardownInit == Init => TeardownInv
<1> SUFFICES ASSUME Init PROVE TeardownInv
  OBVIOUS
<1>1. op.name = "free" /\ exited = FALSE
  BY DEF Init, Unlocked
<1> QED
  BY <1>1, LifeInit DEF TeardownInv, AutoStopUnderway, ShutdownUnderway, ExitedByShutdown

\* Every step keeps the invariant.
LEMMA TeardownStepInv == TeardownInv /\ [Next]_vars => TeardownInv'
<1> SUFFICES ASSUME TeardownInv, [Next]_vars PROVE TeardownInv'
  OBVIOUS
<1>1. LifeInv /\ LifeInv' /\ TypeInv
  BY LifeStep DEF TeardownInv, LifeInv, ServerInv
<1>2. AutoStopUnderway /\ ShutdownUnderway /\ ExitedByShutdown
  BY DEF TeardownInv
<1>3. SUFFICES AutoStopUnderway' /\ ShutdownUnderway' /\ ExitedByShutdown'
  BY <1>1 DEF TeardownInv
<1>4. CASE op.name \notin Enders
  <2>1. exited = FALSE /\ exited' = FALSE
    <3>1. exited \in BOOLEAN /\ exited' = exited
      BY <1>1, <1>4, EndersBegin DEF TypeInv, TypeOK
    <3> QED
      BY <1>2, <1>4, <3>1 DEF ExitedByShutdown, Enders
  <2>2. CASE AutoStop
    <3>1. op' = [Unlocked EXCEPT !.name = "autostop", !.step = "teardown"]
      BY <2>2 DEF AutoStop, Acquire
    <3>2. op'.name = "autostop" /\ op'.step = "teardown"
      BY <1>1, <3>1, Typed, HolderNames, AcquireMoves
    <3>3. session'.id = handling' /\ handling' # 0
      BY <2>2 DEF AutoStop, taskVars
    <3> QED
      BY <2>1, <3>2, <3>3 DEF AutoStopUnderway, ShutdownUnderway, ExitedByShutdown
  <2>3. CASE Shutdown
    <3>1. op' = [Unlocked EXCEPT !.name = "shutdown", !.step = "teardown"]
      BY <2>3 DEF Shutdown, Acquire
    <3>2. op'.name = "shutdown" /\ op'.step = "teardown"
      BY <1>1, <3>1, Typed, HolderNames, AcquireMoves
    <3> QED
      BY <2>1, <3>2 DEF AutoStopUnderway, ShutdownUnderway, ExitedByShutdown
  <2>4. CASE op'.name \notin Enders
    BY <2>1, <2>4 DEF AutoStopUnderway, ShutdownUnderway, ExitedByShutdown, Enders
  <2> QED
    BY <1>1, <1>4, <2>2, <2>3, <2>4, EndersBegin
<1>5. CASE op.name = "autostop"
  <2>1. /\ op.step \in {"teardown", "stopping", "reset"}
        /\ session.id = handling /\ handling # 0 /\ ~exited
    BY <1>2, <1>5 DEF AutoStopUnderway, ExitedByShutdown
  <2>2. CASE Reset
    <3>1. op'.name = "free" /\ ~exited'
      BY <1>1, <2>1, <2>2, EnderMoves
    <3> QED
      BY <3>1 DEF AutoStopUnderway, ShutdownUnderway, ExitedByShutdown
  <2>3. CASE ~Reset
    <3>1. session'.id = session.id
      BY <1>1, <1>5, <2>3, EnderKeepsSession DEF Enders
    <3>2. TakeActive \/ StopServer \/ Bystander
      BY <1>1, <1>5, <2>3, OnlyBystanders, EnderMoves DEF Enders
    <3>3. /\ op'.name = "autostop" /\ op'.step \in {"teardown", "stopping", "reset"}
          /\ handling' = handling /\ ~exited'
      <4>1. CASE TakeActive
        <5>1. op'.name = op.name /\ op'.step = "stopping" /\ UNCHANGED <<handling, exited>>
          BY <1>1, <4>1, EnderMoves
        <5> QED
          BY <1>5, <2>1, <5>1
      <4>2. CASE StopServer
        <5>1. op'.name = op.name /\ op'.step = "reset" /\ UNCHANGED <<handling, exited>>
          BY <1>1, <1>5, <4>2, EnderMoves
        <5> QED
          BY <1>5, <2>1, <5>1
      <4>3. CASE Bystander
        BY <1>5, <2>1, <4>3 DEF Bystander
      <4> QED
        BY <3>2, <4>1, <4>2, <4>3
    <3> QED
      BY <2>1, <3>1, <3>3 DEF AutoStopUnderway, ShutdownUnderway, ExitedByShutdown
  <2> QED
    BY <2>2, <2>3
<1>6. CASE op.name = "shutdown"
  <2>1. /\ op.step \in {"teardown", "stopping", "grace"}
        /\ op.step # "teardown" => conn = NoConn /\ serve = "none"
        /\ op.step = "grace" => media = FALSE
        /\ exited => op.step = "grace"
    BY <1>2, <1>6 DEF ShutdownUnderway, ExitedByShutdown
  <2>2. CASE TakeActive
    <3>1. op'.name = "shutdown" /\ op'.step = "stopping" /\ ~exited'
          /\ conn' = NoConn /\ serve' = "none"
      BY <1>1, <1>6, <2>2, EnderMoves DEF TakeActive, AtAny, At
    <3> QED
      BY <3>1 DEF AutoStopUnderway, ShutdownUnderway, ExitedByShutdown
  <2>3. CASE StopServer
    <3>1. /\ op'.name = "shutdown" /\ op'.step = "grace"
          /\ conn' = NoConn /\ serve' = "none" /\ media' = FALSE
      BY <1>1, <1>6, <2>1, <2>3, EnderMoves
    <3> QED
      BY <3>1 DEF AutoStopUnderway, ShutdownUnderway, ExitedByShutdown
  <2>4. CASE Exit
    <3>1. /\ op'.name = "shutdown" /\ op'.step = "grace"
          /\ conn' = NoConn /\ serve' = "none" /\ media' = FALSE
      BY <1>1, <1>6, <2>1, <2>4, EnderMoves
    <3> QED
      BY <3>1 DEF AutoStopUnderway, ShutdownUnderway, ExitedByShutdown
  <2>5. CASE Bystander
    BY <1>6, <2>1, <2>5 DEF Bystander, AutoStopUnderway, ShutdownUnderway, ExitedByShutdown
  <2> QED
    BY <1>1, <1>6, <2>2, <2>3, <2>4, <2>5, OnlyBystanders, EnderMoves DEF Enders
<1> QED
  BY <1>4, <1>5, <1>6 DEF Enders

\* The invariant holds throughout.
LEMMA TeardownInvariant == Spec => []TeardownInv
  BY TeardownInit, TeardownStepInv, PTL DEF Spec

\* For any receivers, commands, watchers and timing: between its check and its
\* reset, however many awaits lie between, auto_stop works on the session whose
\* end was announced and on no other.
THEOREM AutoStopEndsItsSessionHolds == Spec => []AutoStopEndsItsSession
<1>1. TeardownInv => AutoStopEndsItsSession
  BY DEF TeardownInv, AutoStopUnderway, AutoStopEndsItsSession
<1> QED
  BY <1>1, TeardownInvariant, PTL

\* Whatever was being cast, and whatever the watchers did meanwhile, the process
\* exits with no server running and nothing registered in Active.
THEOREM ExitIsCleanHolds == Spec => []ExitIsClean
<1>1. ASSUME TeardownInv
      PROVE  ExitIsClean
  <2>1. exited => media = FALSE /\ serve = "none" /\ conn = NoConn
    BY <1>1 DEF TeardownInv, ShutdownUnderway, ExitedByShutdown
  <2>2. ~media => servers = 0
    BY <1>1, Counted DEF TeardownInv, LifeInv, ServerInv
  <2> QED
    BY <2>1, <2>2 DEF ExitIsClean
<1> QED
  BY <1>1, TeardownInvariant, PTL

-------------------------------------------------------------------------------
(* Part 3: Active and the watchers *)
(* What the holder of the mutex has in Active *)

NothingHeld == conn = NoConn /\ serve = "none" /\ media = FALSE

\* The steps at which Active has no watcher: connect from its teardown to its
\* register, and a restart between its two visits to Active.
Opening == {"stopping", "publish", "lookup", "firewall", "play", "handshake",
            "register", "reset", "grace"}
Restarting == {"replay", "putback"}
Serving == op.step = "serve" /\ op.name = "connect"

\* The steps at which an open session has its stream in Active.
Streaming == {"none", "settle", "swap", "restart", "buffering", "reject", "fail"}
Restreaming == op.step = "serve" /\ op.name # "connect"

\* Nothing is held for a session that was reset.
IdleHoldsNothing == session.id = 0 => NothingHeld

Unregistered == op.step \in Opening \cup Restarting \/ Serving => conn = NoConn

Unserved == op.step \in Opening \/ Serving => serve = "none"

HasStream ==
    /\ op.step \in Restarting => serve # "none"
    /\ (op.step \in Streaming \/ Restreaming) /\ session.id # 0
           => conn[session.proto] # NoWatcher /\ serve # "none"

\* Active has a watcher only under the protocol of the session.
OwnProtocol == \A p \in AllProtocols : conn[p] # NoWatcher => p = session.proto

\* A command has a watcher in hand just between its start and its registration.
InHand == op.att # NoWatcher <=> op.step \in {"handshake", "register", "putback"}

\* The protocol is known from the lookup on.
Known ==
    /\ op.step = "lookup" => session.id = op.id
    /\ session.id # 0 /\ op.step # "lookup" => session.proto \in Protocols

Held == /\ IdleHoldsNothing /\ Unregistered /\ Unserved /\ HasStream
        /\ OwnProtocol /\ InHand /\ Known

HeldInv == LifeInv /\ Held

\* What a move leaves alone.
LEMMA OpFields ==
    ASSUME NEW o \in OpType
    PROVE  /\ \A s : LET x == [o EXCEPT !.step = s]
                     IN  x.step = s /\ x.name = o.name /\ x.id = o.id /\ x.att = o.att
                         /\ x.ready = o.ready
           /\ \A n, s : LET x == [o EXCEPT !.id = n, !.step = s]
                        IN  x.step = s /\ x.name = o.name /\ x.id = n /\ x.att = o.att
           /\ \A w, s : LET x == [o EXCEPT !.att = w, !.step = s]
                        IN  x.step = s /\ x.name = o.name /\ x.att = w
           /\ \A w, s : LET x == [o EXCEPT !.att = w, !.ready = "none", !.step = s]
                        IN  x.step = s /\ x.name = o.name /\ x.att = w /\ x.ready = "none"
           /\ \A w, b, s : LET x == [o EXCEPT !.att = w, !.ok = b, !.step = s]
                           IN  x.step = s /\ x.name = o.name /\ x.att = w
           /\ \A w, s : LET x == [o EXCEPT !.att = w, !.ready = "none",
                                           !.retried = TRUE, !.step = s]
                        IN  x.step = s /\ x.name = o.name /\ x.att = w
           /\ \A r : LET x == [o EXCEPT !.ready = r]
                     IN  x.step = o.step /\ x.name = o.name /\ x.id = o.id
                         /\ x.att = o.att /\ x.ready = r
  BY DEF OpType

\* Who has just taken the mutex has no watcher in hand.
LEMMA TakenFields ==
    /\ Unlocked.step = "none" /\ Unlocked.name = "free" /\ Unlocked.att = NoWatcher
    /\ \A n, s : LET x == [Unlocked EXCEPT !.name = n, !.step = s]
                 IN  x.step = s /\ x.name = n /\ x.att = NoWatcher
  BY DEF Unlocked

\* All writes but four are about the state of the session.
LEMMA SessionKeeps ==
    ASSUME TypeInv, [Next]_vars
    PROVE  \/ Publish \/ Reset \/ UnknownDevice \/ Lookup
           \/ session'.id = session.id /\ session'.proto = session.proto
<1> DEFINE Reports == session' = session \/ \E x : session' = [session EXCEPT !.state = x]
<1>1. Reports => session'.id = session.id /\ session'.proto = session.proto
  <2>1. \A x : LET z == [session EXCEPT !.state = x]
               IN  z.id = session.id /\ z.proto = session.proto
    BY Typed DEF SessionType
  <2> QED
    BY <2>1
<1>7. /\ UNCHANGED session => Reports
      /\ \A x : session' = [session EXCEPT !.state = x] => Reports
  BY DEF Reports
<1> HIDE DEF Reports
<1>2. CASE TakeActive \/ StopServer \/ Exit \/ TakeEvent \/ AutoStopStep \/ SwitchOff
           \/ Terminated \/ UNCHANGED vars
  BY <1>2, <1>7 DEF TakeActive, StopServer, Exit, TakeEvent, AutoStopStep, AutoStop,
                    AutoStopTooLate, SwitchOff, Terminated, vars
<1>3. CASE ConnectStep /\ ~Publish /\ ~UnknownDevice /\ ~Lookup
  <2>1. CASE Settle
    BY <1>7, <2>1 DEF Settle
  <2>2. CASE ~Settle
    BY <1>3, <1>7, <2>2
    DEF ConnectStep, FirewallOpened, ConnectFails, ConnectServe, ConnectPlay,
        CastAttempt, CastConnected, CastAttemptFails, Register
  <2> QED
    BY <2>1, <2>2
<1>4. CASE ReloadStep
  <2>1. CASE Rebuffer
    BY <1>7, <2>1 DEF Rebuffer
  <2>2. CASE Reject \/ FailRestream
    <3>1. FailSession
      BY <2>2 DEF Reject, FailRestream
    <3>2. CASE IsActive(session.state)
      <4>1. session' = [session EXCEPT !.state = "Error"]
        BY <3>1, <3>2 DEF FailSession
      <4> QED
        BY <1>7, <4>1
    <3>3. CASE ~IsActive(session.state)
      BY <1>7, <3>1, <3>3 DEF FailSession
    <3> QED
      BY <3>2, <3>3
  <2>3. CASE ~Rebuffer /\ ~Reject /\ ~FailRestream
    BY <1>4, <1>7, <2>3
    DEF ReloadStep, StopOldServer, RestreamServe, RestreamServeFails, RestartTake,
        Replay, PutBack
  <2> QED
    BY <2>1, <2>2, <2>3
<1>5. CASE Request
  <2>2. CASE ~Pause /\ ~Resume
    BY <1>5, <1>7, <2>2
    DEF Request, Connect, Disconnect, Seek, SetSubtitle, SetBoost, Shutdown
  <2>3. CASE Pause
    <3>1. session' = [session EXCEPT !.state = "Paused"]
      BY <2>3 DEF Pause, Flip
    <3> QED
      BY <1>7, <3>1
  <2>4. CASE Resume
    <3>1. session' = [session EXCEPT !.state = "Playing"]
      BY <2>4 DEF Resume, Flip
    <3> QED
      BY <1>7, <3>1
  <2> QED
    BY <2>2, <2>3, <2>4
<1>6. ASSUME NEW w \in Watchers, PollStep(w) \/ CastStep(w) \/ Announce(w)
      PROVE  Reports
  <2>1. CASE PollStep(w)
    BY <1>7, <2>1 DEF PollStep, PollCheck, PollAnswer, PollApply
  <2>2. CASE CastStep(w)
    BY <1>7, <2>2 DEF CastStep, CastReady, CastRefused, CastGreet, CastPublish,
                CastEnds, CastLeaves, Update
  <2>3. CASE Announce(w)
    BY <1>7, <2>3 DEF Announce
  <2> QED
    BY <1>6, <2>1, <2>2, <2>3
<1> QED
  BY <1>1, <1>2, <1>3, <1>4, <1>5, <1>6 DEF Next, HolderStep, TeardownStep, ConnectStep

\* A step that leaves Active and the session's identity alone.
ActiveAside ==
    /\ UNCHANGED <<conn, serve, media>>
    /\ session'.id = session.id /\ session'.proto = session.proto

\* Such a step can only break what depends on where the holder is.
LEMMA ActiveKept ==
    ASSUME HeldInv, ActiveAside
    PROVE  IdleHoldsNothing' /\ OwnProtocol'
  BY DEF HeldInv, Held, ActiveAside, IdleHoldsNothing, NothingHeld, OwnProtocol

\* The mutex is taken for a teardown, or a connect gives up.
LEMMA HeldTeardown ==
    ASSUME HeldInv, ActiveAside, op'.step = "teardown", op'.att = NoWatcher,
           op.step # "lookup"
    PROVE  Held'
<1>1. IdleHoldsNothing' /\ OwnProtocol'
  BY ActiveKept
<1>2. Unregistered' /\ Unserved' /\ HasStream' /\ InHand'
  BY DEF Unregistered, Unserved, HasStream, InHand, Opening, Restarting, Serving,
         Streaming, Restreaming
<1>3. Known'
  BY DEF HeldInv, Held, Known, ActiveAside
<1> QED
  BY <1>1, <1>2, <1>3 DEF Held

\* A connect moves on while Active is empty.
LEMMA HeldOpening ==
    ASSUME HeldInv, UNCHANGED <<conn, serve>>, op.step \in Opening \/ Serving,
           session'.id = session.id, session'.id # 0,
           op'.step \in {"firewall", "play", "handshake", "register"} \/ Serving',
           InHand', Known'
    PROVE  Held'
<1>1. conn' = NoConn /\ serve' = "none"
  BY DEF HeldInv, Held, Unregistered, Unserved
<1>2. Unregistered' /\ Unserved' /\ HasStream'
  BY <1>1 DEF Unregistered, Unserved, HasStream, Opening, Restarting, Serving,
              Streaming, Restreaming
<1>3. IdleHoldsNothing' /\ OwnProtocol'
  BY <1>1 DEF IdleHoldsNothing, OwnProtocol, NoConn
<1> QED
  BY <1>2, <1>3 DEF Held

\* A reload, or whoever lets go of the mutex, leaves the stream where it is.
LEMMA HeldStreaming ==
    ASSUME HeldInv, UNCHANGED conn, serve' = serve \/ serve' # "none",
           session'.id = session.id, session'.proto = session.proto, session.id # 0,
           op.step \in Streaming \/ Restreaming,
           op'.step \in Streaming \/ Restreaming',
           op'.att = NoWatcher
    PROVE  Held'
<1>1. conn[session.proto] # NoWatcher /\ serve # "none"
  BY DEF HeldInv, Held, HasStream
<1>2. op.step # "lookup" /\ op'.step # "lookup" /\ op'.step \notin Opening \cup Restarting
      /\ op'.step \notin {"handshake", "register", "putback"} /\ ~Serving'
  BY DEF Streaming, Restreaming, Opening, Restarting, Serving
<1>3. HasStream'
  BY <1>1, <1>2 DEF HasStream
<1>4. Unregistered' /\ Unserved' /\ InHand'
  BY <1>2 DEF Unregistered, Unserved, InHand
<1>5. IdleHoldsNothing' /\ OwnProtocol' /\ Known'
  BY <1>2 DEF HeldInv, Held, IdleHoldsNothing, OwnProtocol, Known
<1> QED
  BY <1>3, <1>4, <1>5 DEF Held

\* A session that is reset has nothing in Active.
LEMMA HeldReset ==
    ASSUME HeldInv, Reset \/ UnknownDevice
    PROVE  Held'
<1>1. op.step \in {"reset", "lookup"} /\ UNCHANGED <<conn, serve, media>>
      /\ session' = NoSession /\ op' = Unlocked
  BY DEF Reset, UnknownDevice, AtAny, At, Release, activeVars
<1>2. conn = NoConn /\ serve = "none"
  BY <1>1 DEF HeldInv, Held, Unregistered, Unserved, Opening
<1>3. media = FALSE
  BY <1>1 DEF HeldInv, LifeInv, ServerInv, ServerIsDown
<1>4. session'.id = 0 /\ op'.step = "none" /\ op'.att = NoWatcher
  BY <1>1, TakenFields DEF NoSession
<1> QED
  BY <1>1, <1>2, <1>3, <1>4
  DEF Held, IdleHoldsNothing, NothingHeld, Unregistered, Unserved, HasStream,
      OwnProtocol, InHand, Known, Opening, Restarting, Serving, Streaming,
      Restreaming, NoConn

\* A watcher is registered under the protocol of the session.
LEMMA HeldRegister ==
    ASSUME HeldInv, Register \/ PutBack,
           session'.id = session.id, session'.proto = session.proto
    PROVE  Held'
<1>1. /\ op.step \in {"register", "putback"}
      /\ conn' = [conn EXCEPT ![session.proto] = op.att]
      /\ op'.step \in {"settle", "buffering"} /\ op'.att = NoWatcher
  <2>1. op' = [op EXCEPT !.att = NoWatcher, !.step = "settle"]
        \/ op' = [op EXCEPT !.att = NoWatcher, !.step = "buffering"]
    BY DEF Register, PutBack
  <2>2. \A x : LET y == [op EXCEPT !.att = NoWatcher, !.step = x]
               IN  y.step = x /\ y.att = NoWatcher
    BY Typed, OpFields DEF HeldInv, LifeInv, ServerInv
  <2>3. op'.step \in {"settle", "buffering"} /\ op'.att = NoWatcher
    BY <2>1, <2>2
  <2> QED
    BY <2>3 DEF Register, PutBack, AtAny, At
<1>2. session.id # 0
  BY <1>1 DEF HeldInv, LifeInv, HolderHasSession, WithSession
<1>3. conn = NoConn /\ op.att # NoWatcher /\ session.proto \in Protocols
  BY <1>1, <1>2 DEF HeldInv, Held, Unregistered, InHand, Known, Opening, Restarting
<1>4. session.proto \in AllProtocols
  BY <1>3, ProtocolsAssumption
<1>5. conn'[session.proto] = op.att
      /\ \A p \in AllProtocols : p # session.proto => conn'[p] = NoWatcher
  BY <1>1, <1>3, <1>4 DEF NoConn
<1>6. serve' # "none"
  <2>1. CASE Register
    BY <2>1 DEF Register
  <2>2. CASE PutBack
    BY <2>2 DEF PutBack, AtAny, At, HeldInv, Held, HasStream, Restarting
  <2> QED
    BY <2>1, <2>2
<1>7. HasStream' /\ OwnProtocol'
  BY <1>1, <1>3, <1>5, <1>6 DEF HasStream, OwnProtocol, Restarting
<1>8. Unregistered' /\ Unserved' /\ InHand' /\ IdleHoldsNothing' /\ Known'
  BY <1>1, <1>2, <1>3 DEF Unregistered, Unserved, InHand, IdleHoldsNothing, Known,
                          Opening, Restarting, Serving
<1> QED
  BY <1>7, <1>8 DEF Held

\* A watcher that goes on.
Alive(r) == r.pc \notin {"gone", "announce"} /\ ~r.cut

\* The others may read and write, but not move the holder.  A Cast thread may
\* tell it how its attempt went, and is over if it was refused.
HeldAside ==
    /\ ActiveAside
    /\ op'.step = op.step /\ op'.name = op.name /\ op'.att = op.att /\ op'.id = op.id
    /\ op'.ready \in {op.ready, "ok"} \/ ~Alive(watch'[op.att])

\* They keep what is known of Active.
LEMMA HeldAsideKeeps ==
    ASSUME HeldInv, HeldAside
    PROVE  Held'
<1>1. IdleHoldsNothing' /\ OwnProtocol'
  BY ActiveKept DEF HeldAside
<1>2. Unregistered' /\ Unserved' /\ HasStream' /\ InHand' /\ Known'
  BY DEF HeldInv, Held, HeldAside, ActiveAside, Unregistered, Unserved, HasStream,
         InHand, Known, Serving, Restreaming
<1> QED
  BY <1>1, <1>2 DEF Held

\* disconnect_locked takes everything out of Active, and the server goes.
LEMMA HeldEmptied ==
    ASSUME HeldInv, TakeActive \/ StopServer,
           session'.id = session.id, session'.proto = session.proto
    PROVE  Held'
<1>1. op \in OpType
  BY Typed DEF HeldInv, LifeInv, ServerInv
<1>2. \A x : LET y == [op EXCEPT !.step = x] IN y.step = x /\ y.att = op.att
  BY <1>1, OpFields
<1>3. CASE TakeActive
  <2>1. /\ op.step = "teardown" /\ op'.step = "stopping" /\ op'.att = op.att
        /\ conn' = NoConn /\ serve' = "none" /\ media' = media
    BY <1>2, <1>3 DEF TakeActive, Goto, AtAny, At
  <2> QED
    BY <2>1 DEF HeldInv, Held, IdleHoldsNothing, NothingHeld, Unregistered, Unserved,
                HasStream, OwnProtocol, InHand, Known, Opening, Restarting, Serving,
                Streaming, Restreaming, NoConn
<1>4. CASE StopServer
  <2>1. op.step = "stopping" /\ media' = FALSE /\ UNCHANGED <<conn, serve>>
    BY <1>4 DEF StopServer, AtAny, At
  <2>2. op'.step \in {"publish", "grace", "reset"} /\ op'.att = op.att
    <3>1. \E x \in {"publish", "grace", "reset"} : op' = [op EXCEPT !.step = x]
      BY <1>4 DEF StopServer, Goto
    <3> QED
      BY <1>2, <3>1
  <2> QED
    BY <2>1, <2>2
    DEF HeldInv, Held, IdleHoldsNothing, NothingHeld, Unregistered, Unserved, HasStream,
        OwnProtocol, InHand, Known, Opening, Restarting, Serving, Streaming, Restreaming
<1> QED
  BY <1>3, <1>4

\* A session is opened and its protocol found while Active is empty.
LEMMA HeldPublish ==
    ASSUME HeldInv, Publish \/ Lookup
    PROVE  Held'
<1>1. TypeInv /\ op \in OpType /\ session \in SessionType /\ nextId # 0
  BY Typed DEF HeldInv, LifeInv, ServerInv
<1>2. op.step \in {"publish", "lookup"} /\ UNCHANGED <<conn, serve, media>>
  BY DEF Publish, Lookup, At, activeVars
<1>3. conn = NoConn /\ serve = "none"
  BY <1>2 DEF HeldInv, Held, Unregistered, Unserved, Opening
<1>4. /\ op'.step \in {"lookup", "firewall"} /\ op'.att = op.att /\ session'.id # 0
      /\ op'.step = "lookup" => session'.id = op'.id
      /\ op'.step = "firewall" => session'.proto \in Protocols
  <2>1. CASE Publish
    <3>1. op'.step = "lookup" /\ op'.id = nextId /\ op'.att = op.att
      <4>1. op' = [op EXCEPT !.id = nextId, !.step = "lookup"]
        BY <2>1 DEF Publish
      <4> QED
        BY <1>1, <4>1, OpFields
    <3> QED
      BY <1>1, <2>1, <3>1 DEF Publish
  <2>2. CASE Lookup
    <3>1. op'.step = "firewall" /\ op'.att = op.att
      BY <1>1, <2>2, OpFields DEF Lookup, Goto
    <3>2. op.step = "lookup" /\ session.id = op.id /\ session.id # 0
      BY <2>2 DEF Lookup, At, HeldInv, Held, Known, LifeInv, HolderHasSession,
                  WithSession
    <3>3. PICK p \in Protocols : session' = [session EXCEPT !.proto = p]
      BY <2>2, <3>2 DEF Lookup
    <3>4. session'.id = session.id /\ session'.proto = p
      BY <1>1, <3>3 DEF SessionType
    <3> QED
      BY <3>1, <3>2, <3>4
  <2> QED
    BY <2>1, <2>2
<1>5. Unregistered' /\ Unserved' /\ HasStream'
  BY <1>2, <1>3, <1>4 DEF Unregistered, Unserved, HasStream, Restarting, Streaming,
                          Restreaming
<1>6. InHand'
  BY <1>2, <1>4 DEF HeldInv, Held, InHand
<1>7. IdleHoldsNothing' /\ OwnProtocol' /\ Known'
  BY <1>2, <1>3, <1>4 DEF IdleHoldsNothing, OwnProtocol, Known, NoConn
<1> QED
  BY <1>5, <1>6, <1>7 DEF Held

\* A restart takes the watcher out of Active and starts its successor.
LEMMA HeldRestart ==
    ASSUME HeldInv, RestartTake \/ Replay,
           session'.id = session.id, session'.proto = session.proto
    PROVE  Held'
<1>1. op \in OpType /\ conn \in [AllProtocols -> Watchers \cup {NoWatcher}]
  BY Typed DEF HeldInv, LifeInv, ServerInv
<1>2. session.id # 0 /\ op.step \in {"restart", "replay"} /\ serve' = serve
      /\ media' = media
  BY DEF RestartTake, Replay, AtAny, At, HeldInv, LifeInv, HolderHasSession,
         WithSession, activeVars
<1>3. CASE RestartTake
  <2>1. op.step = "restart"
    BY <1>3 DEF RestartTake, AtAny, At
  <2>2. conn[session.proto] # NoWatcher /\ serve # "none"
    BY <1>2, <2>1 DEF HeldInv, Held, HasStream, Streaming
  <2>3. /\ conn' = [conn EXCEPT ![session.proto] = NoWatcher]
        /\ op' = [op EXCEPT !.step = "replay"]
    BY <1>3, <2>2 DEF RestartTake, Goto
  <2>4. op'.step = "replay" /\ op'.att = op.att
    BY <1>1, <2>3, OpFields
  <2>5. conn' = NoConn
    BY <1>1, <2>3 DEF HeldInv, Held, OwnProtocol, NoConn
  <2>6. Unregistered' /\ Unserved' /\ HasStream' /\ InHand'
    BY <1>2, <2>1, <2>2, <2>4, <2>5
    DEF HeldInv, Held, Unregistered, Unserved, HasStream, InHand, Opening, Serving,
        Streaming, Restreaming
  <2>7. IdleHoldsNothing' /\ OwnProtocol' /\ Known'
    BY <1>2, <2>1, <2>4, <2>5
    DEF HeldInv, Held, IdleHoldsNothing, OwnProtocol, Known, NoConn
  <2> QED
    BY <2>6, <2>7 DEF Held
<1>4. CASE Replay
  <2>1. op.step = "replay" /\ conn' = conn
    BY <1>4 DEF Replay, AtAny, At, activeVars
  <2>2. PICK w \in Watchers : \E ok : op' = [op EXCEPT !.att = w, !.ok = ok, !.step = "putback"]
    BY <1>4 DEF Replay
  <2>3. op'.step = "putback" /\ op'.att = w /\ w # NoWatcher
    BY <1>1, <2>2, OpFields, WatchersAssumption
  <2>4. Unregistered' /\ Unserved' /\ HasStream' /\ InHand'
    BY <1>2, <2>1, <2>3
    DEF HeldInv, Held, Unregistered, Unserved, HasStream, InHand, Opening, Restarting,
        Serving, Streaming, Restreaming
  <2>5. IdleHoldsNothing' /\ OwnProtocol' /\ Known'
    BY <1>2, <2>1, <2>3 DEF HeldInv, Held, IdleHoldsNothing, OwnProtocol, Known
  <2> QED
    BY <2>4, <2>5 DEF Held
<1> QED
  BY <1>3, <1>4

\* The commands that take the mutex, and those that give up.
Tears == Connect \/ Disconnect \/ Shutdown \/ AutoStop \/ ConnectFails

\* They come to the teardown with no watcher in hand, and nothing touched.
LEMMA TearsMove ==
    ASSUME HeldInv, Tears
    PROVE  /\ op'.step = "teardown" /\ op'.att = NoWatcher /\ op.step # "lookup"
           /\ UNCHANGED <<conn, serve, media, session>>
<1>1. op.step \in {"none", "firewall", "serve", "play"}
  BY TakenFields DEF Tears, Connect, Disconnect, Shutdown, AutoStop, ConnectFails,
                     Acquire, Free
<1>2. \E n : op' = [Unlocked EXCEPT !.name = n, !.step = "teardown"]
  BY DEF Tears, Connect, Disconnect, Shutdown, AutoStop, ConnectFails, GiveUp, Acquire
<1>3. op'.step = "teardown" /\ op'.att = NoWatcher
  BY <1>2, TakenFields
<1>4. UNCHANGED <<conn, serve, media, session>>
  BY DEF Tears, Connect, Disconnect, Shutdown, AutoStop, ConnectFails, activeVars
<1> QED
  BY <1>1, <1>3, <1>4

\* The steps of connect between its lookup and its register.
Opens == FirewallOpened \/ ConnectServe \/ ConnectPlay \/ CastAttempt \/ CastConnected

\* Active is empty before and after them.
LEMMA OpensMove ==
    ASSUME HeldInv, Opens
    PROVE  /\ op.step \in Opening \/ Serving
           /\ op.step # "lookup"
           /\ op'.step \in {"play", "handshake", "register"} \/ Serving'
           /\ op'.step # "lookup"
           /\ InHand'
           /\ UNCHANGED <<conn, serve, session>>
           /\ session.id # 0
<1>1. op \in OpType /\ InHand
  BY Typed DEF HeldInv, LifeInv, ServerInv, Held
<1>2. op.name = "connect" /\ op.step \in {"firewall", "serve", "play", "handshake"}
  BY DEF Opens, FirewallOpened, ConnectServe, ConnectPlay, CastAttempt, CastConnected, At
<1>3. session.id # 0
  BY <1>2 DEF HeldInv, LifeInv, HolderHasSession, WithSession
<1>4. UNCHANGED <<conn, serve, session>>
  BY DEF Opens, FirewallOpened, ConnectServe, ConnectPlay, CastAttempt, CastConnected,
         activeVars
<1>5. CASE FirewallOpened
  <2>1. op'.step = "serve" /\ op'.name = "connect" /\ op'.att = op.att /\ op.step = "firewall"
    BY <1>1, <1>2, <1>5, OpFields DEF FirewallOpened, Goto, At
  <2> QED
    BY <1>1, <1>3, <1>4, <2>1 DEF InHand, Serving, Opening
<1>6. CASE ConnectServe
  <2>1. op'.step = "play" /\ op'.att = op.att /\ op.step = "serve"
    BY <1>1, <1>6, OpFields DEF ConnectServe, Goto, At
  <2> QED
    BY <1>1, <1>2, <1>3, <1>4, <2>1 DEF InHand, Serving, Opening
<1>7. CASE ConnectPlay \/ CastAttempt
  <2>1. \E w \in Watchers : \/ op' = [op EXCEPT !.att = w, !.step = "register"]
                            \/ op' = [op EXCEPT !.att = w, !.ready = "none",
                                                !.step = "handshake"]
    BY <1>7 DEF ConnectPlay, CastAttempt
  <2>2. op'.step \in {"register", "handshake"} /\ op'.att \in Watchers
    <3>1. ASSUME NEW w \in Watchers, op' = [op EXCEPT !.att = w, !.step = "register"]
          PROVE  op'.step = "register" /\ op'.att = w
      BY <1>1, <3>1, OpFields
    <3>2. ASSUME NEW w \in Watchers,
                 op' = [op EXCEPT !.att = w, !.ready = "none", !.step = "handshake"]
          PROVE  op'.step = "handshake" /\ op'.att = w
      BY <1>1, <3>2, OpFields
    <3> QED
      BY <2>1, <3>1, <3>2
  <2>3. op.step = "play"
    BY <1>7 DEF ConnectPlay, CastAttempt, At
  <2> QED
    BY <1>3, <1>4, <2>2, <2>3, WatchersAssumption DEF InHand, Opening
<1>8. CASE CastConnected
  <2>1. op'.step = "register" /\ op'.att = op.att /\ op.step = "handshake"
    BY <1>1, <1>8, OpFields DEF CastConnected, Goto, At
  <2> QED
    BY <1>1, <1>3, <1>4, <2>1 DEF InHand, Opening
<1> QED
  BY <1>5, <1>6, <1>7, <1>8 DEF Opens

\* The steps that leave the stream and the watcher of an open session in Active.
Streams == \/ Seek \/ SetSubtitle \/ SetBoost \/ Settle \/ StopOldServer
           \/ RestreamServe \/ RestreamServeFails \/ Rebuffer \/ Reject \/ FailRestream

\* They have an open session, and its stream before and after.
LEMMA StreamsMove ==
    ASSUME HeldInv, Streams
    PROVE  /\ UNCHANGED conn
           /\ serve' = serve \/ serve' # "none"
           /\ session.id # 0
           /\ op.step \in Streaming \/ Restreaming
           /\ op'.step \in Streaming \/ Restreaming'
           /\ op'.att = NoWatcher
<1>1. op \in OpType /\ InHand
  BY Typed DEF HeldInv, LifeInv, ServerInv, Held
<1>2. UNCHANGED conn /\ (serve' = serve \/ serve' # "none")
  BY DEF Streams, Seek, SetSubtitle, SetBoost, Settle, StopOldServer, RestreamServe,
         RestreamServeFails, Rebuffer, Reject, FailRestream, activeVars
<1>3. CASE Seek \/ SetSubtitle \/ SetBoost
  <2>1. session.id # 0
    BY <1>3, ReloadMoves DEF HeldInv
  <2>2. op.step = "none"
    BY <1>3, TakenFields DEF Seek, SetSubtitle, SetBoost, BeginReload, Acquire, Free
  <2>3. \E n, x : /\ x \in {"restart", "fail", "swap"}
                  /\ op' = [Unlocked EXCEPT !.name = n, !.step = x]
    BY <1>3 DEF Seek, SetSubtitle, SetBoost, BeginReload, Acquire
  <2>4. op'.step \in {"restart", "fail", "swap"} /\ op'.att = NoWatcher
    BY <2>3, TakenFields
  <2> QED
    BY <1>2, <2>1, <2>2, <2>4 DEF Streaming
<1>4. CASE ~(Seek \/ SetSubtitle \/ SetBoost)
  <2>1. \/ op.step \in {"settle", "swap", "buffering", "reject", "fail"}
        \/ op.step = "serve" /\ op.name = "boost"
    BY <1>4 DEF Streams, Settle, StopOldServer, RestreamServe, RestreamServeFails,
                Rebuffer, Reject, FailRestream, AtAny, At
  <2>2. session.id # 0 /\ op.att = NoWatcher
    BY <1>1, <2>1 DEF HeldInv, LifeInv, HolderHasSession, WithSession, InHand
  <2>3. \/ op' = Unlocked
        \/ \E x \in {"restart", "fail", "reject"} : op' = [op EXCEPT !.step = x]
        \/ op' = [op EXCEPT !.step = "serve"] /\ op.name = "boost"
    BY <1>4 DEF Streams, Settle, StopOldServer, RestreamServe, RestreamServeFails,
                Rebuffer, Reject, FailRestream, Goto, Release, At
  <2>4. /\ \/ op'.step \in {"none", "restart", "fail", "reject"}
           \/ op'.step = "serve" /\ op'.name = "boost"
        /\ op'.att = NoWatcher
    <3>1. \A x : LET y == [op EXCEPT !.step = x]
                 IN  y.step = x /\ y.att = NoWatcher /\ y.name = op.name
      BY <1>1, <2>2, OpFields
    <3>2. CASE op' = Unlocked
      BY <3>2, TakenFields
    <3>3. CASE op' = [op EXCEPT !.step = "serve"] /\ op.name = "boost"
      BY <3>1, <3>3
    <3>4. ASSUME NEW x \in {"restart", "fail", "reject"}, op' = [op EXCEPT !.step = x]
          PROVE  op'.step = x /\ op'.att = NoWatcher
      BY <3>1, <3>4
    <3> QED
      BY <2>3, <3>2, <3>3, <3>4
  <2> QED
    BY <1>2, <2>1, <2>2, <2>4 DEF Streaming, Restreaming
<1> QED
  BY <1>3, <1>4

\* An attempt that failed is retried or given up.
LEMMA HeldAttemptFails ==
    ASSUME HeldInv, CastAttemptFails
    PROVE  Held'
<1>1. op \in OpType /\ session.id # 0 /\ op.step = "handshake"
      /\ UNCHANGED <<session, conn, serve, media>>
  BY Typed DEF CastAttemptFails, At, HeldInv, LifeInv, ServerInv, HolderHasSession,
               WithSession, activeVars
<1>2. CASE op' = [op EXCEPT !.att = NoWatcher, !.ready = "none", !.retried = TRUE,
                            !.step = "play"]
  <2>1. op'.step = "play" /\ op'.att = NoWatcher
    BY <1>1, <1>2, OpFields
  <2>2. InHand' /\ Known'
    BY <1>1, <2>1 DEF HeldInv, Held, InHand, Known
  <2> QED
    BY <1>1, <2>1, <2>2, HeldOpening DEF Opening
<1>3. CASE op' = [Unlocked EXCEPT !.name = "disconnect", !.step = "teardown"]
  <2>1. op'.step = "teardown" /\ op'.att = NoWatcher
    BY <1>3, TakenFields
  <2> QED
    BY <1>1, <2>1, HeldTeardown DEF ActiveAside
<1> QED
  BY <1>2, <1>3 DEF CastAttemptFails, GiveUp

\* Nothing else moves the holder or touches Active.
LEMMA OthersStayAside ==
    ASSUME HeldInv, [Next]_vars
    PROVE  \/ Tears \/ Opens \/ Streams \/ CastAttemptFails \/ Register \/ PutBack
           \/ TakeActive \/ StopServer \/ Reset \/ UnknownDevice \/ Publish \/ Lookup
           \/ RestartTake \/ Replay \/ HeldAside
<1>1. TypeInv
  BY DEF HeldInv, LifeInv, ServerInv
<1>2. ASSUME op' = op, UNCHANGED <<conn, serve, media>>,
             ~Publish, ~Reset, ~UnknownDevice, ~Lookup
      PROVE  HeldAside
  BY <1>1, <1>2, SessionKeeps DEF HeldAside, ActiveAside
<1>3. CASE Exit \/ Pause \/ Resume \/ TakeEvent \/ AutoStopTooLate \/ SwitchOff
           \/ Terminated \/ UNCHANGED vars
  BY <1>2, <1>3 DEF Exit, Pause, Resume, Flip, TakeEvent, AutoStopTooLate, SwitchOff,
                    Terminated, vars, activeVars
<1>4. ASSUME NEW w \in Watchers,
             \/ PollStep(w) \/ Announce(w)
             \/ CastGreet(w) \/ CastPublish(w) \/ CastEnds(w) \/ CastLeaves(w)
      PROVE  \/ Publish \/ Reset \/ UnknownDevice \/ Lookup \/ HeldAside
  BY <1>2, <1>4 DEF PollStep, PollCheck, PollAnswer, PollApply, Announce, CastGreet,
                    CastPublish, CastEnds, CastLeaves, activeVars
<1>5. ASSUME NEW w \in Watchers, CastReady(w) \/ CastRefused(w)
      PROVE  HeldAside
  <2>1. CASE op' = op
    BY <1>2, <1>5, <2>1 DEF CastReady, CastRefused, activeVars, Publish, Reset,
                            UnknownDevice, Lookup, AtAny, At, HeldAside, ActiveAside
  <2>2. CASE op' # op
    <3>1. /\ op.att = w
          /\ \/ op' = [op EXCEPT !.ready = "ok"]
             \/ op' = [op EXCEPT !.ready = "err"] /\ CastRefused(w)
      <4>1. CASE CastReady(w)
        <5>1. TellReady(w, "ok")
          BY <4>1 DEF CastReady
        <5> QED
          BY <2>2, <5>1, Zenon DEF TellReady
      <4>2. CASE CastRefused(w)
        <5>1. TellReady(w, "err")
          BY <4>2 DEF CastRefused
        <5> QED
          BY <2>2, <4>2, <5>1, Zenon DEF TellReady
      <4> QED
        BY <1>5, <4>1, <4>2
    <3>2. op \in OpType /\ watch \in [Watchers -> WatchType]
      BY <1>1, Typed
    <3>3. CASE op' = [op EXCEPT !.ready = "ok"]
      <4>1. op'.step = op.step /\ op'.name = op.name /\ op'.id = op.id
            /\ op'.att = op.att /\ op'.ready = "ok"
        BY <3>2, <3>3, OpFields
      <4> QED
        BY <1>5, <4>1 DEF CastReady, CastRefused, HeldAside, ActiveAside, activeVars
    <3>4. CASE op' = [op EXCEPT !.ready = "err"] /\ CastRefused(w)
      <4>1. op'.step = op.step /\ op'.name = op.name /\ op'.id = op.id
            /\ op'.att = op.att
        BY <3>2, <3>4, OpFields
      <4>2. ~Alive(watch'[op.att])
        BY <3>1, <3>2, <3>4 DEF CastRefused, Alive, Gone
      <4> QED
        BY <3>4, <4>1, <4>2 DEF CastRefused, HeldAside, ActiveAside, activeVars
    <3> QED
      BY <3>1, <3>3, <3>4
  <2> QED
    BY <2>1, <2>2
<1> QED
  BY <1>3, <1>4, <1>5
  DEF Next, HolderStep, TeardownStep, ConnectStep, ReloadStep, Request, AutoStopStep,
      CastStep, Tears, Opens, Streams

\* Every step keeps what is known of Active.
LEMMA HeldStep == HeldInv /\ [Next]_vars => HeldInv'
<1> SUFFICES ASSUME HeldInv, [Next]_vars PROVE Held'
  BY LifeStep DEF HeldInv
<1>1. \/ Publish \/ Reset \/ UnknownDevice \/ Lookup
      \/ session'.id = session.id /\ session'.proto = session.proto
  BY SessionKeeps DEF HeldInv, LifeInv, ServerInv
<1>2. CASE Publish \/ Lookup
  BY <1>2, HeldPublish
<1>3. CASE Reset \/ UnknownDevice
  BY <1>3, HeldReset
<1>4. CASE session'.id = session.id /\ session'.proto = session.proto
  <2>1. CASE Tears
    BY <1>4, <2>1, TearsMove, HeldTeardown DEF ActiveAside
  <2>2. CASE Opens
    <3>1. Known'
      BY <2>2, OpensMove DEF HeldInv, Held, Known
    <3> QED
      BY <1>4, <2>2, <3>1, OpensMove, HeldOpening
  <2>3. CASE Streams
    BY <1>4, <2>3, StreamsMove, HeldStreaming
  <2>4. CASE CastAttemptFails
    BY <2>4, HeldAttemptFails
  <2>5. CASE Register \/ PutBack
    BY <1>4, <2>5, HeldRegister
  <2>6. CASE TakeActive \/ StopServer
    BY <1>4, <2>6, HeldEmptied
  <2>7. CASE RestartTake \/ Replay
    BY <1>4, <2>7, HeldRestart
  <2>8. CASE HeldAside
    BY <2>8, HeldAsideKeeps
  <2> QED
    BY <1>2, <1>3, <2>1, <2>2, <2>3, <2>4, <2>5, <2>6, <2>7, <2>8, OthersStayAside
<1> QED
  BY <1>1, <1>2, <1>3, <1>4

\* At the start there is no session and nothing in Active.
LEMMA HeldInit == Init => HeldInv
<1> SUFFICES ASSUME Init PROVE HeldInv
  OBVIOUS
<1>1. /\ session.id = 0 /\ conn = NoConn /\ serve = "none" /\ media = FALSE
      /\ op.step = "none" /\ op.att = NoWatcher
  BY TakenFields DEF Init, NoSession
<1> QED
  BY <1>1, LifeInit
  DEF HeldInv, Held, IdleHoldsNothing, NothingHeld, Unregistered, Unserved, HasStream,
      OwnProtocol, InHand, Known, Opening, Restarting, Serving, Streaming, Restreaming,
      NoConn

\* The invariant holds throughout.
LEMMA HeldInvariant == Spec => []HeldInv
  BY HeldInit, HeldStep, PTL DEF Spec

\* For any receivers, commands, watchers and timing: when nobody holds the action
\* mutex, an open session has its stream and its connection, and without a
\* session nothing is served or watched.
THEOREM AtRestHolds == Spec => []AtRest
<1>1. ASSUME HeldInv
      PROVE  AtRest
  <2>1. op = Unlocked => op.step = "none"
    BY TakenFields
  <2> QED
    BY <1>1, <2>1 DEF AtRest, Free, HeldInv, Held, IdleHoldsNothing, NothingHeld,
                      HasStream, Known, Streaming
<1> QED
  BY <1>1, HeldInvariant, PTL

-------------------------------------------------------------------------------
(* Who watches *)

\* Only a poller nobody aborted is at the start of an iteration.
PollsFreely(r) == r.pc \in {"tick", "query"} => r.kind \in Pollable /\ ~r.cut

\* What may become of a watcher: it never comes back, and stays what it is.
Evolves(r, s) ==
    \/ s = Gone
    \/ /\ s.kind = r.kind
       /\ Alive(s) => Alive(r)
       /\ PollsFreely(r) => PollsFreely(s)

\* A registered watcher is of the protocol it is registered under.
OwnKind == \A p \in AllProtocols :
               conn[p] # NoWatcher => watch[conn[p]].kind \in {p, "none"}

HandKind == op.step \in {"handshake", "register", "putback"}
                => watch[op.att].kind \in {session.proto, "none"}

\* The thread of an attempt that was refused is over.
RefusedIsOver ==
    op.step = "handshake" /\ op.ready = "err" => ~Alive(watch[op.att])

\* The steps at which the old stream is down.
Swapping == \/ op.step \in {"swap", "replay"}
            \/ op.name = "boost" /\ op.step \in {"serve", "restart"}

SwapIsQuiet == Swapping => \A w \in Watchers : watch[w].kind \in Pollable => ~Alive(watch[w])

RestartsPollable == op.step \in {"restart", "replay"} => session.proto \in Pollable

Watching == /\ NoOrphanWatcher /\ OwnKind /\ HandKind /\ RefusedIsOver
            /\ SwapIsQuiet /\ RestartsPollable
            /\ \A w \in Watchers : PollsFreely(watch[w])

WatchInv == HeldInv /\ Watching

\* An aborted watcher is none that goes on.
LEMMA AbortedIsOver ==
    ASSUME NEW r \in WatchType
    PROVE  ~Alive(Aborted(r)) /\ Evolves(r, Aborted(r))
<1>1. ~Alive(Gone)
  BY DEF Alive, Gone
<1>2. LET x == [r EXCEPT !.cut = TRUE] IN ~Alive(x) /\ x.kind = r.kind /\ x.pc = r.pc
  BY DEF Alive, WatchType
<1>3. CASE r.kind = "cast" \/ r.pc \in {"apply", "announce"}
  <2>1. Aborted(r) = [r EXCEPT !.cut = TRUE]
    BY <1>3 DEF Aborted
  <2>2. PollsFreely(r) => PollsFreely(Aborted(r))
    BY <1>2, <1>3, <2>1 DEF PollsFreely, Pollable
  <2> QED
    BY <1>2, <2>1, <2>2 DEF Evolves
<1>4. CASE ~(r.kind = "cast" \/ r.pc \in {"apply", "announce"})
  BY <1>1, <1>4 DEF Aborted, Evolves
<1> QED
  BY <1>3, <1>4

\* A poller after an iteration.
LEMMA PolledEvolves ==
    ASSUME NEW r \in WatchType, r.pc = "apply", r.kind \in Pollable
    PROVE  Evolves(r, Polled(r))
<1>1. CASE r.cut
  BY <1>1 DEF Polled, Evolves
<1>2. CASE ~r.cut
  <2>1. \A a, b : LET x == [r EXCEPT !.pc = "tick", !.sample = "none", !.seen = a, !.miss = b]
                  IN  x.kind = r.kind /\ ~x.cut
    BY <1>2 DEF WatchType
  <2>2. Polled(r).kind = r.kind /\ ~Polled(r).cut
    BY <1>2, <2>1 DEF Polled
  <2> QED
    BY <1>2, <2>2 DEF Evolves, Alive, PollsFreely
<1> QED
  BY <1>1, <1>2

\* The moves of a watcher.
LEMMA MovesEvolve ==
    ASSUME NEW r \in WatchType
    PROVE  /\ Evolves(r, r)
           /\ r.kind \in Pollable /\ r.pc = "tick" => Evolves(r, [r EXCEPT !.pc = "query"])
           /\ \A x : r.pc = "query" => Evolves(r, [r EXCEPT !.sample = x, !.pc = "apply"])
           /\ Evolves(r, [r EXCEPT !.pc = "announce"])
           /\ r.pc = "handshake" => Evolves(r, [r EXCEPT !.pc = "greet"])
           /\ r.pc = "greet" => Evolves(r, [r EXCEPT !.pc = "running"])
<1>1. \A y : LET x == [r EXCEPT !.pc = y] IN x.kind = r.kind /\ x.pc = y /\ x.cut = r.cut
  BY DEF WatchType
<1>2. \A x : LET z == [r EXCEPT !.sample = x, !.pc = "apply"]
             IN  z.kind = r.kind /\ z.pc = "apply" /\ z.cut = r.cut
  BY DEF WatchType
<1>3. Evolves(r, r)
  BY DEF Evolves
<1>4. r.kind \in Pollable /\ r.pc = "tick" => Evolves(r, [r EXCEPT !.pc = "query"])
  BY <1>1 DEF Evolves, Alive, PollsFreely
<1>5. \A x : r.pc = "query" => Evolves(r, [r EXCEPT !.sample = x, !.pc = "apply"])
  BY <1>2 DEF Evolves, Alive, PollsFreely
<1>6. Evolves(r, [r EXCEPT !.pc = "announce"])
  BY <1>1 DEF Evolves, Alive, PollsFreely
<1>7. r.pc = "handshake" => Evolves(r, [r EXCEPT !.pc = "greet"])
  BY <1>1 DEF Evolves, Alive, PollsFreely
<1>8. r.pc = "greet" => Evolves(r, [r EXCEPT !.pc = "running"])
  BY <1>1 DEF Evolves, Alive, PollsFreely
<1> QED
  BY <1>3, <1>4, <1>5, <1>6, <1>7, <1>8

\* One watcher moves.
LEMMA OneEvolves ==
    ASSUME watch \in [Watchers -> WatchType], NEW w \in Watchers, NEW x,
           Evolves(watch[w], x), watch' = [watch EXCEPT ![w] = x]
    PROVE  \A v \in Watchers : Evolves(watch[v], watch'[v])
<1>1. \A v \in Watchers : watch[v] \in WatchType
  OBVIOUS
<1> QED
  BY <1>1, MovesEvolve

\* A watcher comes to life only by the three steps that start one.
LEMMA WatchersEvolve ==
    ASSUME TypeInv, [Next]_vars
    PROVE  \/ ConnectPlay \/ CastAttempt \/ Replay
           \/ \A w \in Watchers : Evolves(watch[w], watch'[w])
<1>1. watch \in [Watchers -> WatchType] /\ \A w \in Watchers : watch[w] \in WatchType
  BY Typed
<1>2. ASSUME UNCHANGED watch
      PROVE  \A w \in Watchers : Evolves(watch[w], watch'[w])
  BY <1>1, <1>2, MovesEvolve
<1>3. ASSUME NEW ws, watch' = Abort(ws)
      PROVE  \A w \in Watchers : Evolves(watch[w], watch'[w])
  BY <1>1, <1>3, MovesEvolve, AbortedIsOver DEF Abort
<1>4. ASSUME NEW w \in Watchers,
             \/ watch' = [watch EXCEPT ![w] = Gone]
             \/ watch' = [watch EXCEPT ![w] = [watch[w] EXCEPT !.pc = "announce"]]
      PROVE  \A v \in Watchers : Evolves(watch[v], watch'[v])
  <2>1. Evolves(watch[w], Gone) /\ Evolves(watch[w], [watch[w] EXCEPT !.pc = "announce"])
    BY <1>1, MovesEvolve DEF Evolves
  <2> QED
    BY <1>1, <1>4, <2>1, OneEvolves
<1>5. ASSUME NEW w \in Watchers, PollCheck(w) \/ PollAnswer(w) \/ Announce(w) \/ CastStep(w)
      PROVE  \A v \in Watchers : Evolves(watch[v], watch'[v])
  <2>1. CASE PollCheck(w)
    <3>1. \/ watch' = [watch EXCEPT ![w] = Gone]
          \/ watch' = [watch EXCEPT ![w] = [watch[w] EXCEPT !.pc = "query"]]
      BY <1>1, <2>1 DEF PollCheck
    <3>2. Evolves(watch[w], [watch[w] EXCEPT !.pc = "query"])
      BY <1>1, <2>1, MovesEvolve DEF PollCheck, PollerAt
    <3> QED
      BY <1>1, <1>4, <3>1, <3>2, OneEvolves
  <2>2. CASE PollAnswer(w)
    <3>1. PICK x : watch' = [watch EXCEPT ![w] = [watch[w] EXCEPT !.sample = x, !.pc = "apply"]]
      BY <1>1, <2>2 DEF PollAnswer
    <3>2. Evolves(watch[w], [watch[w] EXCEPT !.sample = x, !.pc = "apply"])
      BY <1>1, <2>2, MovesEvolve DEF PollAnswer, PollerAt
    <3> QED
      BY <1>1, <3>1, <3>2, OneEvolves
  <2>3. CASE Announce(w) \/ CastRefused(w) \/ CastLeaves(w) \/ CastPublish(w) \/ CastEnds(w)
    <3>1. \/ watch' = [watch EXCEPT ![w] = Gone]
          \/ watch' = [watch EXCEPT ![w] = [watch[w] EXCEPT !.pc = "announce"]]
          \/ UNCHANGED watch
      BY <1>1, <2>3 DEF Announce, CastRefused, CastLeaves, CastPublish, CastEnds, taskVars
    <3> QED
      BY <1>2, <1>4, <3>1
  <2>4. CASE CastReady(w)
    <3>1. watch' = [watch EXCEPT ![w] = [watch[w] EXCEPT !.pc = "greet"]]
      BY <1>1, <2>4 DEF CastReady
    <3>2. Evolves(watch[w], [watch[w] EXCEPT !.pc = "greet"])
      BY <1>1, <2>4, MovesEvolve DEF CastReady, CastAt
    <3> QED
      BY <1>1, <3>1, <3>2, OneEvolves
  <2>5. CASE CastGreet(w)
    <3>1. watch' = [watch EXCEPT ![w] = [watch[w] EXCEPT !.pc = "running"]]
      BY <1>1, <2>5 DEF CastGreet
    <3>2. Evolves(watch[w], [watch[w] EXCEPT !.pc = "running"])
      BY <1>1, <2>5, MovesEvolve DEF CastGreet, CastAt
    <3> QED
      BY <1>1, <3>1, <3>2, OneEvolves
  <2> QED
    BY <1>5, <2>1, <2>2, <2>3, <2>4, <2>5 DEF CastStep
<1>6. ASSUME NEW w \in Watchers, NEW late \in BOOLEAN, PollApply(w, late)
      PROVE  \A v \in Watchers : Evolves(watch[v], watch'[v])
  <2>1. \/ watch' = [watch EXCEPT ![w] = Gone]
        \/ watch' = [watch EXCEPT ![w] = Polled(watch[w])]
        \/ watch' = [watch EXCEPT ![w] = [watch[w] EXCEPT !.pc = "announce"]]
    BY <1>6, <1>1 DEF PollApply
  <2>2. Evolves(watch[w], Polled(watch[w]))
    BY <1>1, <1>6, PolledEvolves DEF PollApply, PollerAt
  <2> QED
    BY <1>1, <1>4, <2>1, <2>2, OneEvolves
<1>7. CASE TeardownStep
  BY <1>2, <1>3, <1>7 DEF TeardownStep, TakeActive, StopServer, Reset, taskVars
<1>8. CASE ConnectStep /\ ~ConnectPlay /\ ~CastAttempt
  BY <1>2, <1>3, <1>8
  DEF ConnectStep, Publish, Lookup, UnknownDevice, FirewallOpened, ConnectFails,
      ConnectServe, CastConnected, CastAttemptFails, Register, Settle, taskVars
<1>9. CASE ReloadStep /\ ~Replay
  BY <1>2, <1>3, <1>9
  DEF ReloadStep, StopOldServer, RestreamServe, RestreamServeFails, RestartTake,
      PutBack, Rebuffer, Reject, FailRestream, taskVars
<1>10. CASE Request
  BY <1>2, <1>3, <1>10
  DEF Request, Connect, Disconnect, Pause, Resume, Flip, Seek, SetSubtitle,
      SetBoost, Shutdown, taskVars
<1>11. CASE Exit \/ TakeEvent \/ AutoStopStep \/ SwitchOff \/ Terminated \/ UNCHANGED vars
  BY <1>2, <1>11
  DEF Exit, TakeEvent, AutoStopStep, AutoStop, AutoStopTooLate, SwitchOff,
      Terminated, vars, taskVars
<1> QED
  BY <1>5, <1>6, <1>7, <1>8, <1>9, <1>10, <1>11
  DEF Next, HolderStep, PollStep, ConnectStep, ReloadStep

\* All watchers stay what they are, or end.
AllEvolve == \A w \in Watchers : Evolves(watch[w], watch'[w])

\* What a watcher is that is no longer Gone.
LEMMA EvolvedKinds ==
    ASSUME NEW r, NEW s, Evolves(r, s)
    PROVE  /\ Alive(s) => Alive(r)
           /\ \A k : r.kind \in {k, "none"} => s.kind \in {k, "none"}
           /\ PollsFreely(r) => PollsFreely(s)
           /\ s.kind \in Pollable /\ Alive(s) => r.kind \in Pollable /\ Alive(r)
  BY DEF Evolves, Alive, Gone, PollsFreely, Pollable

\* The registrations are untouched and no one comes to life.
LEMMA QuietlyOwned ==
    ASSUME WatchInv, UNCHANGED conn, AllEvolve
    PROVE  /\ OwnKind'
           /\ \A w \in Watchers : PollsFreely(watch'[w])
           /\ \A w \in Watchers : Live(w)' => Live(w)
           /\ Registered' = Registered
<1>1. conn \in [AllProtocols -> Watchers \cup {NoWatcher}]
  BY Typed DEF WatchInv, HeldInv, LifeInv, ServerInv
<1>2. OwnKind'
  <2>1. ASSUME NEW p \in AllProtocols, conn[p] # NoWatcher
        PROVE  watch'[conn[p]].kind \in {p, "none"}
    <3>1. conn[p] \in Watchers /\ watch[conn[p]].kind \in {p, "none"}
      BY <1>1, <2>1 DEF WatchInv, Watching, OwnKind
    <3> QED
      BY <3>1, EvolvedKinds DEF AllEvolve
  <2> QED
    BY <2>1 DEF OwnKind
<1>3. \A w \in Watchers : PollsFreely(watch'[w])
  BY EvolvedKinds DEF AllEvolve, WatchInv, Watching
<1>4. \A w \in Watchers : Live(w)' => Live(w)
  BY EvolvedKinds DEF AllEvolve, Live, Alive
<1>5. Registered' = Registered
  BY DEF Registered
<1> QED
  BY <1>2, <1>3, <1>4, <1>5

\* Steps at which nothing special is asked of the watchers.
Calm == {"none", "teardown", "stopping", "publish", "lookup", "firewall", "play",
         "settle", "buffering", "reject", "fail", "reset", "grace"}

\* The holder comes to such a step with nothing alive in its hands.
LEMMA WatchCalm ==
    ASSUME WatchInv, UNCHANGED conn, AllEvolve, op'.step \in Calm,
           op.att # NoWatcher => ~Alive(watch'[op.att])
    PROVE  Watching'
<1>1. NoOrphanWatcher'
  <2>1. ASSUME NEW w \in Watchers, Live(w)'
        PROVE  w \in Registered'
    <3>1. Live(w) /\ Registered' = Registered
      BY <2>1, QuietlyOwned
    <3>2. w # op.att
      <4>1. Alive(watch'[w]) /\ w # NoWatcher
        BY <2>1, WatchersAssumption DEF Live, Alive
      <4> QED
        BY <4>1
    <3> QED
      BY <3>1, <3>2 DEF WatchInv, Watching, NoOrphanWatcher
  <2> QED
    BY <2>1 DEF NoOrphanWatcher
<1>2. HandKind' /\ RefusedIsOver' /\ SwapIsQuiet' /\ RestartsPollable'
  BY DEF HandKind, RefusedIsOver, SwapIsQuiet, RestartsPollable, Swapping, Calm
<1> QED
  BY <1>1, <1>2, QuietlyOwned DEF Watching

\* The holder keeps what it has in hand.
LEMMA WatchKept ==
    ASSUME WatchInv, UNCHANGED conn, AllEvolve, op'.att = op.att,
           HandKind', RefusedIsOver', SwapIsQuiet', RestartsPollable'
    PROVE  Watching'
<1>1. NoOrphanWatcher'
  BY QuietlyOwned DEF WatchInv, Watching, NoOrphanWatcher
<1> QED
  BY <1>1, QuietlyOwned DEF Watching

\* A new watcher is in the hands of the command that started it.
LEMMA WatchStarted ==
    ASSUME WatchInv, [Next]_vars, ConnectPlay \/ CastAttempt \/ Replay
    PROVE  Watching'
<1>1. /\ TypeInv /\ op \in OpType /\ watch \in [Watchers -> WatchType]
      /\ conn \in [AllProtocols -> Watchers \cup {NoWatcher}]
  BY Typed DEF WatchInv, HeldInv, LifeInv, ServerInv
<1>2. op.step \in {"play", "replay"} /\ UNCHANGED <<conn, session>>
  BY DEF ConnectPlay, CastAttempt, Replay, AtAny, At, activeVars
<1>3. op.att = NoWatcher
  BY <1>2 DEF WatchInv, HeldInv, Held, InHand
<1>4. PICK w \in Watchers :
        /\ Vacant(w)
        /\ \/ /\ watch' = [watch EXCEPT ![w] = Poller(session.proto, op.id)]
              /\ session.proto \in Pollable
              /\ op' = [op EXCEPT !.att = w, !.step = "register"]
           \/ /\ watch' = [watch EXCEPT ![w] = CastThread(op.id)]
              /\ session.proto = "cast"
              /\ op' = [op EXCEPT !.att = w, !.ready = "none", !.step = "handshake"]
           \/ /\ watch' = [watch EXCEPT ![w] = Poller(session.proto, session.id)]
              /\ session.proto \in Pollable
              /\ \E ok : op' = [op EXCEPT !.att = w, !.ok = ok, !.step = "putback"]
  <2>1. Replay => session.proto \in Pollable
    BY DEF Replay, AtAny, At, WatchInv, Watching, RestartsPollable
  <2>2. CASE ConnectPlay
    BY <2>2 DEF ConnectPlay
  <2>3. CASE CastAttempt
    BY <2>3 DEF CastAttempt
  <2>4. CASE Replay
    BY <2>1, <2>4 DEF Replay
  <2> QED
    BY <2>2, <2>3, <2>4
<1>5. /\ op'.step \in {"register", "handshake", "putback"} /\ op'.att = w
      /\ op'.step = "handshake" => op'.ready = "none"
  <2>1. CASE op' = [op EXCEPT !.att = w, !.step = "register"]
    BY <1>1, <2>1, OpFields
  <2>2. CASE op' = [op EXCEPT !.att = w, !.ready = "none", !.step = "handshake"]
    BY <1>1, <2>2, OpFields
  <2>3. ASSUME NEW ok, op' = [op EXCEPT !.att = w, !.ok = ok, !.step = "putback"]
        PROVE  op'.step = "putback" /\ op'.att = w
    BY <1>1, <2>3, OpFields
  <2> QED
    BY <1>4, <2>1, <2>2, <2>3
<1>6. watch'[w].kind = session.proto /\ PollsFreely(watch'[w])
  <2>1. \A n : CastThread(n).kind = "cast" /\ PollsFreely(CastThread(n))
    BY DEF CastThread, Gone, PollsFreely
  <2>2. \A n : session.proto \in Pollable => /\ Poller(session.proto, n).kind = session.proto
                                             /\ PollsFreely(Poller(session.proto, n))
    BY DEF Poller, Gone, PollsFreely
  <2>3. \/ watch'[w] = CastThread(op.id) /\ session.proto = "cast"
        \/ /\ session.proto \in Pollable
           /\ \E n : watch'[w] = Poller(session.proto, n)
    BY <1>1, <1>4
  <2>4. CASE watch'[w] = CastThread(op.id) /\ session.proto = "cast"
    BY <2>1, <2>4
  <2>5. ASSUME NEW n, watch'[w] = Poller(session.proto, n), session.proto \in Pollable
        PROVE  watch'[w].kind = session.proto /\ PollsFreely(watch'[w])
    BY <2>2, <2>5
  <2> QED
    BY <2>3, <2>4, <2>5
<1>7. \A v \in Watchers : v # w => watch'[v] = watch[v]
  BY <1>1, <1>4
<1>8. NoOrphanWatcher'
  <2>1. ASSUME NEW v \in Watchers, v # w, Live(v)'
        PROVE  v \in Registered'
    BY <1>2, <1>3, <1>7, <2>1, WatchersAssumption
    DEF Live, Registered, WatchInv, Watching, NoOrphanWatcher
  <2> QED
    BY <1>5, <2>1 DEF NoOrphanWatcher
<1>9. OwnKind'
  <2>1. ASSUME NEW p \in AllProtocols, conn[p] # NoWatcher
        PROVE  watch'[conn[p]].kind \in {p, "none"}
    <3>1. conn[p] \in Watchers /\ conn[p] # w
      BY <1>1, <1>4, <2>1 DEF Vacant, Registered
    <3> QED
      BY <1>7, <2>1, <3>1 DEF WatchInv, Watching, OwnKind
  <2> QED
    BY <1>2, <2>1 DEF OwnKind
<1>10. HandKind' /\ RefusedIsOver' /\ SwapIsQuiet' /\ RestartsPollable'
  BY <1>2, <1>5, <1>6 DEF HandKind, RefusedIsOver, SwapIsQuiet, RestartsPollable, Swapping
<1>11. \A v \in Watchers : PollsFreely(watch'[v])
  BY <1>6, <1>7 DEF WatchInv, Watching
<1> QED
  BY <1>8, <1>9, <1>10, <1>11 DEF Watching

\* The watcher in hand is handed over to Active, which had none.
LEMMA WatchRegistered ==
    ASSUME WatchInv, Register \/ PutBack
    PROVE  Watching'
<1>1. /\ op \in OpType /\ watch \in [Watchers -> WatchType]
      /\ op.att \in Watchers \cup {NoWatcher}
  BY Typed, OpShapes DEF WatchInv, HeldInv, LifeInv, ServerInv
<1>2. /\ op.step \in {"register", "putback"} /\ UNCHANGED <<session, watch>>
      /\ conn' = [conn EXCEPT ![session.proto] = op.att]
  BY DEF Register, PutBack, AtAny, At, taskVars
<1>3. op'.step \in {"settle", "buffering"}
  <2>1. op' = [op EXCEPT !.att = NoWatcher, !.step = "settle"]
        \/ op' = [op EXCEPT !.att = NoWatcher, !.step = "buffering"]
    BY DEF Register, PutBack
  <2>2. \A x : [op EXCEPT !.att = NoWatcher, !.step = x].step = x
    BY <1>1, OpFields
  <2> QED
    BY <2>1, <2>2
<1>4. conn = NoConn /\ op.att \in Watchers /\ session.proto \in AllProtocols
  <2>1. session.id # 0
    BY <1>2 DEF WatchInv, HeldInv, LifeInv, HolderHasSession, WithSession
  <2> QED
    BY <1>1, <1>2, <2>1, ProtocolsAssumption
    DEF WatchInv, HeldInv, Held, Unregistered, InHand, Known, Opening, Restarting
<1>5. conn'[session.proto] = op.att
      /\ \A p \in AllProtocols : p # session.proto => conn'[p] = NoWatcher
  BY <1>2, <1>4 DEF NoConn
<1>6. NoOrphanWatcher'
  <2>1. ASSUME NEW w \in Watchers, Live(w)'
        PROVE  w \in Registered'
    <3>1. w = op.att
      <4>1. Live(w)
        BY <1>2, <2>1 DEF Live
      <4>2. w \notin Registered
        BY <1>4, WatchersAssumption DEF Registered, NoConn
      <4> QED
        BY <4>1, <4>2 DEF WatchInv, Watching, NoOrphanWatcher
    <3> QED
      BY <1>4, <1>5, <3>1, WatchersAssumption DEF Registered
  <2> QED
    BY <2>1 DEF NoOrphanWatcher
<1>7. OwnKind'
  BY <1>2, <1>5 DEF OwnKind, WatchInv, Watching, HandKind
<1>8. HandKind' /\ RefusedIsOver' /\ SwapIsQuiet' /\ RestartsPollable'
  BY <1>3 DEF HandKind, RefusedIsOver, SwapIsQuiet, RestartsPollable, Swapping
<1> QED
  BY <1>2, <1>6, <1>7, <1>8 DEF Watching, WatchInv

\* Whoever takes or frees the mutex, or moves on with it, disturbs no watcher.
LEMMA WatchHolder ==
    ASSUME WatchInv, [Next]_vars,
           \/ Tears \/ Reset \/ UnknownDevice \/ Publish \/ Lookup \/ StopServer
           \/ FirewallOpened \/ ConnectServe \/ CastConnected
    PROVE  Watching'
<1>1. TypeInv /\ op \in OpType /\ InHand /\ HeldInv
  BY Typed DEF WatchInv, HeldInv, LifeInv, ServerInv, Held
<1>2. AllEvolve /\ UNCHANGED conn
  <2>1. UNCHANGED <<watch, conn>>
    BY DEF Tears, Connect, Disconnect, Shutdown, AutoStop, ConnectFails, Reset,
           UnknownDevice, Publish, Lookup, StopServer, FirewallOpened, ConnectServe,
           CastConnected, activeVars, taskVars
  <2> QED
    BY <1>1, <2>1, MovesEvolve, Typed DEF AllEvolve
<1>3. CASE Tears
  <2>1. op'.step = "teardown" /\ op.step \in {"none", "firewall", "serve", "play"}
    BY <1>1, <1>3, TearsMove, TakenFields
    DEF Tears, Connect, Disconnect, Shutdown, AutoStop, ConnectFails, Acquire, Free
  <2> QED
    BY <1>1, <1>2, <2>1, WatchCalm DEF InHand, Calm
<1>4. CASE Reset \/ UnknownDevice
  <2>1. op'.step = "none" /\ op.step \in {"reset", "lookup"}
    BY <1>4, TakenFields DEF Reset, UnknownDevice, Release, AtAny, At
  <2> QED
    BY <1>1, <1>2, <2>1, WatchCalm DEF InHand, Calm
<1>5. CASE Publish \/ Lookup
  <2>1. op'.step \in {"lookup", "firewall"} /\ op.step \in {"publish", "lookup"}
    BY <1>1, <1>5, ConnectMoves DEF Publish, Lookup, At
  <2> QED
    BY <1>1, <1>2, <2>1, WatchCalm DEF InHand, Calm
<1>6. CASE StopServer
  <2>1. op'.step \in {"publish", "grace", "reset"} /\ op.step = "stopping"
    <3>1. \E x \in {"publish", "grace", "reset"} : op' = [op EXCEPT !.step = x]
      BY <1>6 DEF StopServer, Goto
    <3> QED
      BY <1>1, <1>6, <3>1, OpMoves DEF StopServer, AtAny, At
  <2> QED
    BY <1>1, <1>2, <2>1, WatchCalm DEF InHand, Calm
<1>7. CASE ConnectServe
  <2>1. op'.step = "play" /\ op.step = "serve"
    BY <1>1, <1>7, ConnectMoves DEF ConnectServe, At
  <2> QED
    BY <1>1, <1>2, <2>1, WatchCalm DEF InHand, Calm
<1>8. CASE FirewallOpened
  <2>1. op'.step = "serve" /\ op'.name = "connect" /\ op'.att = op.att
    BY <1>1, <1>8, OpFields DEF FirewallOpened, Goto, At
  <2>2. HandKind' /\ RefusedIsOver' /\ SwapIsQuiet' /\ RestartsPollable'
    BY <2>1 DEF HandKind, RefusedIsOver, SwapIsQuiet, RestartsPollable, Swapping
  <2> QED
    BY <1>2, <2>1, <2>2, WatchKept
<1>9. CASE CastConnected
  <2>1. op'.step = "register" /\ op'.att = op.att /\ op.step = "handshake"
        /\ UNCHANGED <<session, watch>>
    BY <1>1, <1>9, OpFields DEF CastConnected, Goto, At, taskVars
  <2>2. HandKind' /\ RefusedIsOver' /\ SwapIsQuiet' /\ RestartsPollable'
    BY <2>1 DEF HandKind, RefusedIsOver, SwapIsQuiet, RestartsPollable, Swapping,
                WatchInv, Watching
  <2> QED
    BY <1>2, <2>1, <2>2, WatchKept
<1> QED
  BY <1>3, <1>4, <1>5, <1>6, <1>7, <1>8, <1>9

\* An attempt that failed leaves no thread that nobody told to stop.
LEMMA WatchAttemptFails ==
    ASSUME WatchInv, [Next]_vars, CastAttemptFails
    PROVE  Watching'
<1>1. /\ TypeInv /\ op \in OpType /\ watch \in [Watchers -> WatchType]
      /\ op.att \in Watchers \cup {NoWatcher}
  BY Typed, OpShapes DEF WatchInv, HeldInv, LifeInv, ServerInv
<1>2. op.step = "handshake" /\ UNCHANGED conn /\ op'.step \in Calm
  BY <1>1, AttemptMoves DEF CastAttemptFails, At, activeVars, Calm
<1>3. op.att \in Watchers
  BY <1>1, <1>2 DEF WatchInv, HeldInv, Held, InHand
<1>4. AllEvolve /\ ~Alive(watch'[op.att])
  <2>1. CASE op.ready = "err" /\ UNCHANGED watch
    <3>1. ~Alive(watch[op.att])
      BY <1>2, <2>1 DEF WatchInv, Watching, RefusedIsOver
    <3> QED
      BY <1>1, <2>1, <3>1, MovesEvolve DEF AllEvolve
  <2>2. CASE watch' = Abort({op.att})
    BY <1>1, <1>3, <2>2, MovesEvolve, AbortedIsOver DEF Abort, AllEvolve
  <2> QED
    BY <2>1, <2>2 DEF CastAttemptFails
<1> QED
  BY <1>2, <1>4, WatchCalm

\* A teardown finds every watcher that goes on.
LEMMA WatchTakeActive ==
    ASSUME WatchInv, [Next]_vars, TakeActive
    PROVE  Watching'
<1>1. /\ TypeInv /\ op \in OpType /\ watch \in [Watchers -> WatchType]
      /\ \A w \in Watchers : watch[w] \in WatchType
  BY Typed DEF WatchInv, HeldInv, LifeInv, ServerInv
<1>2. op.step = "teardown" /\ op.att = NoWatcher /\ op'.step = "stopping"
  BY <1>1, OpMoves DEF TakeActive, AtAny, At, Goto, WatchInv, HeldInv, Held, InHand
<1>3. /\ \A w \in Watchers : Evolves(watch[w], watch'[w])
      /\ \A w \in Registered : w \in Watchers => ~Alive(watch'[w])
  BY <1>1, MovesEvolve, AbortedIsOver DEF TakeActive, Abort
<1>4. \A w \in Watchers : ~Live(w)'
  BY <1>2, <1>3, EvolvedKinds, WatchersAssumption
  DEF Live, Alive, WatchInv, Watching, NoOrphanWatcher
<1>5. NoOrphanWatcher' /\ OwnKind'
  BY <1>4 DEF NoOrphanWatcher, OwnKind, TakeActive, NoConn
<1>6. HandKind' /\ RefusedIsOver' /\ SwapIsQuiet' /\ RestartsPollable'
  BY <1>2 DEF HandKind, RefusedIsOver, SwapIsQuiet, RestartsPollable, Swapping
<1>7. \A w \in Watchers : PollsFreely(watch'[w])
  BY <1>3, EvolvedKinds DEF WatchInv, Watching
<1> QED
  BY <1>5, <1>6, <1>7 DEF Watching

\* A restart finds the only watcher that goes on.
LEMMA WatchRestartTake ==
    ASSUME WatchInv, [Next]_vars, RestartTake
    PROVE  Watching'
<1>1. /\ TypeInv /\ op \in OpType /\ watch \in [Watchers -> WatchType]
      /\ conn \in [AllProtocols -> Watchers \cup {NoWatcher}]
      /\ \A w \in Watchers : watch[w] \in WatchType
  BY Typed DEF WatchInv, HeldInv, LifeInv, ServerInv
<1>2. op.step = "restart" /\ op.att = NoWatcher /\ UNCHANGED session
  BY DEF RestartTake, AtAny, At, WatchInv, HeldInv, Held, InHand
<1>3. conn[session.proto] # NoWatcher /\ serve # "none"
  BY <1>2 DEF WatchInv, HeldInv, Held, HasStream, Streaming, LifeInv, HolderHasSession,
              WithSession
<1>4. /\ watch' = Abort({conn[session.proto]})
      /\ conn' = [conn EXCEPT ![session.proto] = NoWatcher]
      /\ op' = [op EXCEPT !.step = "replay"]
  BY <1>3 DEF RestartTake, Goto
<1>5. op'.step = "replay"
  BY <1>1, <1>4, OpMoves
<1>6. /\ \A w \in Watchers : Evolves(watch[w], watch'[w])
      /\ \A w \in Watchers : w = conn[session.proto] => ~Alive(watch'[w])
  BY <1>1, <1>4, MovesEvolve, AbortedIsOver DEF Abort
<1>7. \A w \in Watchers : ~Live(w)' /\ ~Alive(watch'[w])
  <2>1. \A w \in Watchers : Live(w) => w = conn[session.proto]
    BY <1>2, WatchersAssumption
    DEF WatchInv, Watching, NoOrphanWatcher, Registered, HeldInv, Held, OwnProtocol
  <2> QED
    BY <1>6, <2>1, EvolvedKinds DEF Live, Alive
<1>8. conn' = NoConn
  BY <1>1, <1>4 DEF WatchInv, HeldInv, Held, OwnProtocol, NoConn
<1>9. NoOrphanWatcher' /\ OwnKind' /\ SwapIsQuiet'
  BY <1>7, <1>8 DEF NoOrphanWatcher, OwnKind, SwapIsQuiet, NoConn
<1>10. HandKind' /\ RefusedIsOver' /\ RestartsPollable'
  BY <1>2, <1>5 DEF HandKind, RefusedIsOver, RestartsPollable, WatchInv, Watching
<1>11. \A w \in Watchers : PollsFreely(watch'[w])
  BY <1>6, EvolvedKinds DEF WatchInv, Watching
<1> QED
  BY <1>9, <1>10, <1>11 DEF Watching

\* A restream takes every poller down before it swaps the streams.
LEMMA WatchSetBoost ==
    ASSUME WatchInv, [Next]_vars, SetBoost
    PROVE  Watching'
<1>1. /\ TypeInv /\ op \in OpType /\ watch \in [Watchers -> WatchType]
      /\ conn \in [AllProtocols -> Watchers \cup {NoWatcher}]
      /\ \A w \in Watchers : watch[w] \in WatchType
  BY Typed DEF WatchInv, HeldInv, LifeInv, ServerInv
<1>2. /\ UNCHANGED conn /\ watch' = Abort({conn[p] : p \in Pollable} \ {NoWatcher})
      /\ op.att = NoWatcher
  BY TakenFields DEF SetBoost, BeginReload, Acquire, Free, activeVars
<1>3. op'.step \in {"fail", "swap"} /\ op'.att = NoWatcher
  <2>1. \E x \in {"fail", "swap"} : op' = [Unlocked EXCEPT !.name = "boost", !.step = x]
    BY DEF SetBoost, BeginReload, Acquire
  <2> QED
    BY <2>1, TakenFields
<1>4. AllEvolve
  BY <1>1, <1>2, MovesEvolve, AbortedIsOver DEF Abort, AllEvolve
<1>5. SwapIsQuiet'
  <2>1. ASSUME NEW w \in Watchers, watch'[w].kind \in Pollable, Alive(watch'[w])
        PROVE  FALSE
    <3>1. watch[w].kind \in Pollable /\ Alive(watch[w])
      BY <1>4, <2>1, EvolvedKinds DEF AllEvolve
    <3>2. w # NoWatcher /\ w # op.att
      BY <1>2, WatchersAssumption
    <3>3. PICK p \in AllProtocols : conn[p] = w
      BY <3>1, <3>2 DEF Alive, Live, Registered, WatchInv, Watching, NoOrphanWatcher
    <3>4. p \in Pollable
      BY <3>1, <3>2, <3>3 DEF WatchInv, Watching, OwnKind, Pollable
    <3>5. watch'[w] = Aborted(watch[w])
      BY <1>2, <3>2, <3>3, <3>4 DEF Abort
    <3> QED
      BY <1>1, <2>1, <3>5, AbortedIsOver
  <2> QED
    BY <2>1 DEF SwapIsQuiet
<1>6. HandKind' /\ RefusedIsOver' /\ RestartsPollable'
  BY <1>3 DEF HandKind, RefusedIsOver, RestartsPollable
<1> QED
  BY <1>2, <1>3, <1>4, <1>5, <1>6, WatchKept

\* The other steps of a reload.
LEMMA WatchStreams ==
    ASSUME WatchInv, [Next]_vars, Streams, ~SetBoost
    PROVE  Watching'
<1>1. /\ TypeInv /\ op \in OpType /\ watch \in [Watchers -> WatchType] /\ InHand
      /\ session \in SessionType
  BY Typed DEF WatchInv, HeldInv, LifeInv, ServerInv, Held
<1>2. UNCHANGED <<conn, watch>> /\ op.att = NoWatcher /\ op'.att = NoWatcher
  <2>1. UNCHANGED <<conn, watch>>
    BY DEF Streams, Seek, SetSubtitle, Settle, StopOldServer, RestreamServe,
           RestreamServeFails, Rebuffer, Reject, FailRestream, activeVars, taskVars
  <2>2. op'.att = NoWatcher /\ (op.step \in Streaming \/ Restreaming)
    BY StreamsMove DEF WatchInv
  <2> QED
    BY <1>1, <2>1, <2>2 DEF InHand, Streaming, Restreaming
<1>3. AllEvolve
  BY <1>1, <1>2, MovesEvolve DEF AllEvolve
<1>4. \A x : LET y == [op EXCEPT !.step = x] IN y.step = x /\ y.name = op.name
  BY <1>1, OpFields
<1>5. CASE Seek \/ SetSubtitle
  <2>1. \E n \in {"seek", "subtitle"} : op' = [Unlocked EXCEPT !.name = n, !.step = "restart"]
    BY <1>5 DEF Seek, SetSubtitle, BeginReload, Acquire
  <2>2. op'.name \in {"seek", "subtitle"} /\ op'.step = "restart"
    BY <2>1, TakenFields
  <2>3. session.proto \in Pollable /\ UNCHANGED session
    BY <1>5 DEF Seek, SetSubtitle, Pollable
  <2>4. HandKind' /\ RefusedIsOver' /\ SwapIsQuiet' /\ RestartsPollable'
    BY <2>2, <2>3 DEF HandKind, RefusedIsOver, SwapIsQuiet, RestartsPollable, Swapping
  <2> QED
    BY <1>2, <1>3, <2>4, WatchKept
<1>6. CASE Settle \/ RestreamServeFails \/ Rebuffer \/ Reject \/ FailRestream
  <2>1. \/ op' = Unlocked
        \/ op' = [op EXCEPT !.step = "fail"]
        \/ op' = [op EXCEPT !.step = "reject"]
    BY <1>6 DEF Settle, RestreamServeFails, Rebuffer, Reject, FailRestream, Goto, Release
  <2>2. \A x : op' = [op EXCEPT !.step = x] => op'.step = x
    BY <1>4
  <2>3. op'.step \in {"none", "fail", "reject"}
    BY <2>1, <2>2, TakenFields
  <2>4. op'.step \in Calm
    BY <2>3 DEF Calm
  <2> QED
    BY <1>2, <1>3, <2>4, WatchCalm
<1>7. CASE StopOldServer
  <2>1. op.step = "swap" /\ op'.step = "serve" /\ UNCHANGED session
    BY <1>4, <1>7 DEF StopOldServer, Goto, At
  <2>2. HandKind' /\ RefusedIsOver' /\ SwapIsQuiet' /\ RestartsPollable'
    BY <1>2, <2>1 DEF HandKind, RefusedIsOver, SwapIsQuiet, RestartsPollable, Swapping,
                      WatchInv, Watching
  <2> QED
    BY <1>2, <1>3, <2>2, WatchKept
<1>8. CASE RestreamServe
  <2>1. op.step = "serve" /\ op.name = "boost" /\ UNCHANGED session
    BY <1>8 DEF RestreamServe, At
  <2>2. CASE session.proto # "cast"
    <3>1. op' = [op EXCEPT !.step = "restart"]
      BY <1>8, <2>2 DEF RestreamServe, Goto
    <3>2. op'.step = "restart"
      BY <1>4, <3>1
    <3>3. session.proto \in Pollable
      <4>1. session.id # 0 /\ op.step # "lookup"
        BY <2>1 DEF WatchInv, HeldInv, LifeInv, HolderHasSession, WithSession
      <4>2. session.proto \in Protocols
        BY <4>1 DEF WatchInv, HeldInv, Held, Known
      <4> QED
        BY <2>2, <4>2, ProtocolsAssumption DEF AllProtocols
    <3>4. HandKind' /\ RefusedIsOver' /\ SwapIsQuiet' /\ RestartsPollable'
      BY <1>2, <2>1, <3>2, <3>3
      DEF HandKind, RefusedIsOver, SwapIsQuiet, RestartsPollable, Swapping, WatchInv,
          Watching
    <3> QED
      BY <1>2, <1>3, <3>4, WatchKept
  <2>3. CASE session.proto = "cast"
    <3>1. op' = Unlocked \/ op' = [op EXCEPT !.step = "fail"]
      BY <1>8, <2>3 DEF RestreamServe, Goto, Release
    <3>2. CASE op' = Unlocked
      BY <1>2, <1>3, <3>2, TakenFields, WatchCalm DEF Calm
    <3>3. CASE op' = [op EXCEPT !.step = "fail"]
      <4>1. op'.step = "fail"
        BY <1>4, <3>3
      <4> QED
        BY <1>2, <1>3, <4>1, WatchCalm DEF Calm
    <3> QED
      BY <3>1, <3>2, <3>3
  <2> QED
    BY <2>2, <2>3
<1> QED
  BY <1>5, <1>6, <1>7, <1>8 DEF Streams

\* The watchers' own steps, and everybody else's who does not hold the mutex.
LEMMA WatchAside ==
    ASSUME WatchInv, HeldAside, AllEvolve
    PROVE  Watching'
<1>1. HandKind'
  <2>1. op.step \in {"handshake", "register", "putback"} => op.att \in Watchers
    <3>1. op.att \in Watchers \cup {NoWatcher}
      BY Typed, OpShapes DEF WatchInv, HeldInv, LifeInv, ServerInv
    <3> QED
      BY <3>1 DEF WatchInv, HeldInv, Held, InHand
  <2>2. op.step \in {"handshake", "register", "putback"}
          => watch[op.att].kind \in {session.proto, "none"}
    BY DEF HandKind, WatchInv, Watching
  <2>3. op.step \in {"handshake", "register", "putback"}
          => watch'[op.att].kind \in {session.proto, "none"}
    <3>1. SUFFICES ASSUME op.att \in Watchers, watch[op.att].kind \in {session.proto, "none"}
                   PROVE  watch'[op.att].kind \in {session.proto, "none"}
      BY <2>1, <2>2
    <3>2. Evolves(watch[op.att], watch'[op.att])
      BY <3>1 DEF AllEvolve
    <3> QED
      BY <3>1, <3>2 DEF Evolves, Gone
  <2> QED
    BY <2>3 DEF HeldAside, ActiveAside, HandKind
<1>2. RefusedIsOver'
  <2>1. ASSUME op.step = "handshake", op'.ready = "err"
        PROVE  ~Alive(watch'[op.att])
    <3>1. op.att \in Watchers
      <4>1. op.att \in Watchers \cup {NoWatcher}
        BY Typed, OpShapes DEF WatchInv, HeldInv, LifeInv, ServerInv
      <4> QED
        BY <2>1, <4>1 DEF WatchInv, HeldInv, Held, InHand
    <3>2. op.ready = "err" => ~Alive(watch[op.att])
      BY <2>1 DEF WatchInv, Watching, RefusedIsOver
    <3> QED
      BY <2>1, <3>1, <3>2, EvolvedKinds DEF HeldAside, AllEvolve
  <2> QED
    BY <2>1 DEF RefusedIsOver, HeldAside
<1>3. SwapIsQuiet'
  BY EvolvedKinds DEF HeldAside, AllEvolve, SwapIsQuiet, Swapping, WatchInv, Watching
<1>4. RestartsPollable'
  BY DEF HeldAside, ActiveAside, RestartsPollable, WatchInv, Watching
<1> QED
  BY <1>1, <1>2, <1>3, <1>4, WatchKept DEF HeldAside, ActiveAside

\* The starts of a watcher move the holder on.
LEMMA StartsMove ==
    ASSUME TypeInv, ConnectPlay \/ CastAttempt \/ Replay
    PROVE  op'.step # op.step
<1>1. op.step \in {"play", "replay"} /\ op \in OpType
  BY Typed DEF ConnectPlay, CastAttempt, Replay, AtAny, At
<1>2. CASE CastAttempt
  BY <1>1, <1>2, ConnectMoves
<1>3. CASE ConnectPlay
  <2>1. \E w : op' = [op EXCEPT !.att = w, !.step = "register"]
    BY <1>3 DEF ConnectPlay
  <2> QED
    BY <1>1, <2>1, OpMoves
<1>4. CASE Replay
  <2>1. \E w, b : op' = [op EXCEPT !.att = w, !.ok = b, !.step = "putback"]
    BY <1>4 DEF Replay
  <2> QED
    BY <1>1, <2>1, OpMoves
<1> QED
  BY <1>2, <1>3, <1>4

\* Every step keeps what is known of the watchers.
LEMMA WatchStepInv == WatchInv /\ [Next]_vars => WatchInv'
<1> SUFFICES ASSUME WatchInv, [Next]_vars PROVE Watching'
  BY HeldStep DEF WatchInv
<1>1. HeldInv /\ TypeInv
  BY DEF WatchInv, HeldInv, LifeInv, ServerInv
<1>2. CASE HeldAside
  <2>1. AllEvolve
    BY <1>1, <1>2, WatchersEvolve, StartsMove DEF AllEvolve, HeldAside
  <2> QED
    BY <1>2, <2>1, WatchAside
<1>3. CASE Opens
  BY <1>3, WatchStarted, WatchHolder DEF Opens
<1>4. CASE Streams
  BY <1>4, WatchSetBoost, WatchStreams
<1> QED
  BY <1>1, <1>2, <1>3, <1>4, OthersStayAside, WatchHolder, WatchAttemptFails,
     WatchRegistered, WatchTakeActive, WatchRestartTake, WatchStarted

\* At the start nobody watches.
LEMMA WatchInit == Init => WatchInv
<1> SUFFICES ASSUME Init PROVE WatchInv
  OBVIOUS
<1>1. /\ conn = NoConn /\ op.step = "none"
      /\ \A w \in Watchers : watch[w] = Gone
  BY TakenFields DEF Init
<1>2. ~Alive(Gone) /\ PollsFreely(Gone) /\ Gone.pc = "gone"
  BY DEF Alive, PollsFreely, Gone
<1> QED
  BY <1>1, <1>2, HeldInit
  DEF WatchInv, Watching, NoOrphanWatcher, Live, OwnKind, HandKind, RefusedIsOver,
      SwapIsQuiet, RestartsPollable, Swapping, NoConn

\* The invariant holds throughout.
LEMMA WatchInvariant == Spec => []WatchInv
  BY WatchInit, WatchStepInv, PTL DEF Spec

\* For any number of sessions and watchers: a poller that will poll again, or a
\* Cast thread nobody told to shut down, can be stopped by the next teardown.
THEOREM NoOrphanWatcherHolds == Spec => []NoOrphanWatcher
<1>1. WatchInv => NoOrphanWatcher
  BY DEF WatchInv, Watching
<1> QED
  BY <1>1, WatchInvariant, PTL

\* While the old stream of a reload is down no poller waits for an answer that it
\* could take for the end of playback.
THEOREM NoPollDuringSwapHolds == Spec => []NoPollDuringSwap
<1>1. ASSUME WatchInv
      PROVE  NoPollDuringSwap
  <2>1. ASSUME Swapping, NEW w \in Watchers
        PROVE  watch[w].pc \notin {"tick", "query"}
    BY <1>1, <2>1 DEF WatchInv, Watching, SwapIsQuiet, PollsFreely, Alive
  <2> QED
    BY <2>1 DEF NoPollDuringSwap, Swapping
<1> QED
  BY <1>1, WatchInvariant, PTL
===============================================================================
