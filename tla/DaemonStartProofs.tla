--------------------------- MODULE DaemonStartProofs ---------------------------
(***************************************************************************)
(* At most one daemon casts, it can be reached, and its subtitles are its  *)
(* own, for any number of daemon processes and clients.                    *)
(*                                                                         *)
(* None of the three is inductive: two daemons on their way to serving     *)
(* would break them in two steps.  The strengthening is what the lock is   *)
(* for: every process past acquire_daemon_lock is its holder.              *)
(***************************************************************************)
EXTENDS DaemonStart, TLAPS

\* The steps of main and shutdown that are under the lock.
Locked == {"locked", "alone", "unlinked", "ready", "serving", "stopping", "leaving"}

\* What the proof needs of the types.
Typed ==
    /\ at \in [Daemons -> Steps] /\ lock \in Daemons \cup {Nobody}
    /\ converted \subseteq Daemons

\* A process under the lock holds it.
HoldsTheLock == \A d \in Daemons : at[d] \in Locked => lock = d

\* The socket file is that of the daemon that accepts on it.
SocketIsServed == \A d \in Daemons : at[d] \in {"serving", "stopping"} => socket = d

\* Only a daemon that has served has converted anything.
ConvertedHaveServed ==
    \A d \in converted : at[d] \in {"serving", "stopping", "leaving", "gone"}

IInv == Typed /\ HoldsTheLock /\ SocketIsServed /\ SubtitlesAreSafe /\ ConvertedHaveServed

\* No process runs at first.
LEMMA InitIInv == Init => IInv
BY NobodyAssumption
   DEF Init, IInv, Typed, Steps, Starting, Leaving, Locked, HoldsTheLock, SocketIsServed,
       SubtitlesAreSafe, ConvertedHaveServed

\* A step of a process: it takes the lock when it is free, and what it does to the
\* socket and the files it does as the holder.
LEMMA DaemonStepIInv ==
    ASSUME IInv, NEW d \in Daemons, DaemonStep(d)
    PROVE  IInv'
<1> USE NobodyAssumption
    DEF IInv, Typed, Steps, Starting, Leaving, Locked, HoldsTheLock, SocketIsServed,
        SubtitlesAreSafe, ConvertedHaveServed, Goto, Ended, clientVars
<1>1. CASE Acquire(d)
  BY <1>1 DEF Acquire
<1>2. CASE PingOther(d)
  BY <1>2 DEF PingOther
<1>3. CASE RemoveSocket(d)
  BY <1>3 DEF RemoveSocket
<1>4. CASE RemoveSubtitles(d)
  BY <1>4 DEF RemoveSubtitles
<1>5. CASE Bind(d)
  BY <1>5 DEF Bind
<1>6. CASE Convert(d)
  BY <1>6 DEF Convert
<1>7. CASE Terminate(d)
  BY <1>7 DEF Terminate
<1>8. CASE Unlink(d)
  BY <1>8 DEF Unlink
<1>9. CASE Exit(d)
  BY <1>9 DEF Exit
<1>10. CASE Kill(d)
  BY <1>10 DEF Kill
<1>11. CASE StartUnit(d)
  BY <1>11 DEF StartUnit, Fork
<1> QED
  BY <1>1, <1>2, <1>3, <1>4, <1>5, <1>6, <1>7, <1>8, <1>9, <1>10, <1>11 DEF DaemonStep

\* A step of a client starts a process at most, which has not asked for the lock.
LEMMA ClientStepIInv ==
    ASSUME IInv, NEW c \in Clients, ClientStep(c)
    PROVE  IInv'
<1> USE DEF IInv, Typed, Steps, Starting, Leaving, Locked, HoldsTheLock, SocketIsServed,
            SubtitlesAreSafe, ConvertedHaveServed, Goto, daemonVars
<1>1. CASE Begin(c)
  BY <1>1 DEF Begin
<1>2. CASE Ping(c)
  BY <1>2 DEF Ping
<1>3. CASE InstallFails(c)
  BY <1>3 DEF InstallFails
<1>4. CASE Enable(c)
  <2>1. UNCHANGED <<lock, socket, files, converted>>
    BY <1>4 DEF Enable
  <2>2. CASE UnitRuns
    <3>1. UNCHANGED at
      BY <1>4, <2>2 DEF Enable
    <3> QED
      BY <2>1, <3>1
  <2>3. CASE ~UnitRuns
    <3>1. PICK d \in Daemons : Fork(d, {d})
      BY <1>4, <2>3 DEF Enable
    <3> QED
      BY <2>1, <3>1 DEF Fork
  <2> QED
    BY <2>2, <2>3
<1>5. CASE GiveUp(c)
  BY <1>5 DEF GiveUp
<1>6. CASE Spawn(c)
  BY <1>6 DEF Spawn, Fork
<1>7. CASE Send(c)
  BY <1>7 DEF Send
<1> QED
  BY <1>1, <1>2, <1>3, <1>4, <1>5, <1>6, <1>7 DEF ClientStep

THEOREM IInvHolds == Spec => []IInv
<1>1. IInv /\ [Next]_vars => IInv'
  <2> SUFFICES ASSUME IInv, [Next]_vars PROVE IInv'
    OBVIOUS
  <2>1. CASE Next
    BY <2>1, DaemonStepIInv, ClientStepIInv DEF Next
  <2>2. CASE UNCHANGED vars
    BY <2>2 DEF vars, IInv, Typed, HoldsTheLock, SocketIsServed, SubtitlesAreSafe,
                  ConvertedHaveServed
  <2> QED
    BY <2>1, <2>2
<1> QED
  BY InitIInv, <1>1, PTL DEF Spec

\* A daemon that serves keeps its socket file.
THEOREM ServingIsReachableHolds == Spec => []ServingIsReachable
<1>1. IInv => ServingIsReachable
  BY DEF IInv, SocketIsServed, ServingIsReachable
<1> QED
  BY IInvHolds, <1>1, PTL

\* A daemon that serves keeps its converted subtitles.
THEOREM SubtitlesAreSafeHolds == Spec => []SubtitlesAreSafe
<1>1. IInv => SubtitlesAreSafe
  BY DEF IInv
<1> QED
  BY IInvHolds, <1>1, PTL

-------------------------------------------------------------------------------
(* The commands of clients *)

\* What more the answers to clients rest on.  A lock is held by a process that is
\* there, and who has removed the socket file finds none in its place.
LockIsHeld ==
    /\ socket \in Daemons \cup {Nobody}
    /\ lock # Nobody => at[lock] \in Locked
    /\ \A d \in Daemons : at[d] \in {"unlinked", "ready"} => socket = Nobody

\* A calm client whose wait goes on has a daemon on its way to serving or there,
\* and one whose ping was answered still has the daemon that answered.
CalmHaveADaemon ==
    \A c \in calm :
        /\ \A d \in Daemons : at[d] \notin Leaving
        /\ client[c] = "wait" => \E d \in Daemons : at[d] \in Starting \cup {"serving"}
        /\ client[c] = "available" => \E d \in Daemons : at[d] = "serving"

CalmInv == LockIsHeld /\ CalmHaveADaemon /\ CalmIsAnswered /\ calm \subseteq Clients
           /\ client \in [Clients -> {"idle", "ping", "install", "waitUnit", "wait",
                                      "spawn", "available", "answered", "unavailable"}]

LEMMA InitCalmInv == Init => CalmInv
BY DEF Init, CalmInv, LockIsHeld, CalmHaveADaemon, CalmIsAnswered

\* A process that ends short of serving leaves another that has the lock.
LEMMA DaemonStepCalm ==
    ASSUME IInv, CalmInv, NEW d \in Daemons, DaemonStep(d)
    PROVE  CalmInv'
<1> USE NobodyAssumption
    DEF IInv, Typed, Steps, Starting, Leaving, Locked, HoldsTheLock, SocketIsServed,
        CalmInv, LockIsHeld, CalmHaveADaemon, CalmIsAnswered, Goto, Ended, clientVars
<1>1. CASE Acquire(d)
  <2>1. CASE lock = Nobody
    BY <1>1, <2>1 DEF Acquire
  <2>2. CASE lock # Nobody
    <3>1. lock # d /\ lock \in Daemons /\ at'[lock] = at[lock]
      BY <1>1, <2>2 DEF Acquire
    <3>2. \A c \in calm : at[lock] \in Starting \cup {"serving"}
      BY <2>2, <3>1
    <3> QED
      BY <1>1, <2>2, <3>1, <3>2 DEF Acquire
  <2> QED
    BY <2>1, <2>2
<1>2. CASE PingOther(d)
  <2>1. ~Answers
    BY <1>2 DEF PingOther, Answers
  <2> QED
    BY <1>2, <2>1 DEF PingOther
<1>3. CASE RemoveSocket(d)
  BY <1>3 DEF RemoveSocket
<1>4. CASE RemoveSubtitles(d)
  BY <1>4 DEF RemoveSubtitles
<1>5. CASE Bind(d)
  BY <1>5 DEF Bind
<1>6. CASE Convert(d)
  BY <1>6 DEF Convert
<1>7. CASE Terminate(d)
  BY <1>7 DEF Terminate
<1>8. CASE Unlink(d)
  BY <1>8 DEF Unlink
<1>9. CASE Exit(d)
  BY <1>9 DEF Exit
<1>10. CASE Kill(d)
  BY <1>10 DEF Kill, Running
<1>11. CASE StartUnit(d)
  BY <1>11 DEF StartUnit, Fork
<1> QED
  BY <1>1, <1>2, <1>3, <1>4, <1>5, <1>6, <1>7, <1>8, <1>9, <1>10, <1>11 DEF DaemonStep

\* A client goes on to wait only once it has started a process.
LEMMA ClientStepCalm ==
    ASSUME IInv, CalmInv, NEW c \in Clients, ClientStep(c)
    PROVE  CalmInv'
<1> USE NobodyAssumption
    DEF IInv, Typed, Steps, Starting, Leaving, Locked, HoldsTheLock, SocketIsServed,
        CalmInv, LockIsHeld, CalmHaveADaemon, CalmIsAnswered, Goto, ClientGoto, daemonVars
<1>1. CASE Begin(c)
  BY <1>1 DEF Begin
<1>2. CASE Ping(c)
  BY <1>2 DEF Ping, Answers
<1>3. CASE InstallFails(c)
  BY <1>3 DEF InstallFails
<1>4. CASE Enable(c)
  <2>1. UNCHANGED <<lock, socket, files, converted, setup, calm>>
        /\ client' = [client EXCEPT ![c] = "waitUnit"]
    BY <1>4 DEF Enable
  <2>2. CASE UnitRuns
    <3>1. UNCHANGED at
      BY <1>4, <2>2 DEF Enable
    <3> QED
      BY <2>1, <3>1
  <2>3. CASE ~UnitRuns
    <3>1. PICK d \in Daemons : Fork(d, {d})
      BY <1>4, <2>3 DEF Enable
    <3> QED
      BY <2>1, <3>1 DEF Fork
  <2> QED
    BY <2>2, <2>3
<1>5. CASE GiveUp(c)
  BY <1>5 DEF GiveUp, Answers
<1>6. CASE Spawn(c)
  <2>1. CASE (\E d \in Daemons : Fork(d, {})) /\ ClientGoto(c, "wait")
    <3>1. PICK d \in Daemons : Fork(d, {})
      BY <2>1
    <3>2. at' = [at EXCEPT ![d] = "started"] /\ at[d] = "absent"
      BY <3>1 DEF Fork
    <3> QED
      BY <1>6, <2>1, <3>2 DEF Spawn
  <2>2. CASE ~setup.spawns /\ ClientGoto(c, "unavailable") /\ UNCHANGED <<at, unit>>
    BY <1>6, <2>2 DEF Spawn
  <2> QED
    BY <1>6, <2>1, <2>2 DEF Spawn
<1>7. CASE Send(c)
  BY <1>7 DEF Send, Answers
<1> QED
  BY <1>1, <1>2, <1>3, <1>4, <1>5, <1>6, <1>7 DEF ClientStep

\* A calm and trusted client that can start a process gets its answer (client.rs:226).
THEOREM CalmIsAnsweredHolds == Spec => []CalmIsAnswered
<1>1. IInv /\ CalmInv /\ [Next]_vars => CalmInv'
  <2> SUFFICES ASSUME IInv, CalmInv, [Next]_vars PROVE CalmInv'
    OBVIOUS
  <2>1. CASE Next
    BY <2>1, DaemonStepCalm, ClientStepCalm DEF Next
  <2>2. CASE UNCHANGED vars
    BY <2>2 DEF vars, CalmInv, LockIsHeld, CalmHaveADaemon, CalmIsAnswered
  <2> QED
    BY <2>1, <2>2
<1>2. CalmInv => CalmIsAnswered
  BY DEF CalmInv
<1> QED
  BY InitCalmInv, <1>1, <1>2, IInvHolds, PTL DEF Spec
===============================================================================
