--------------------------- MODULE CastSessionProofs ---------------------------
(***************************************************************************)
(* The theorems about CastSession, in three parts that build on each other.*)
(* 1. ThreadInv: the types, that a wait is open only where the thread      *)
(*    waits, and that Shutdown is the last command.  Under it every step   *)
(*    of the thread, of the daemon and of the receiver is a step of        *)
(*    CastWatcher, the thread as CastDaemon sees it, or a stutter.         *)
(* 2. EndInv: what the thread has still to read, the messages it held back *)
(*    while it waited and then those on the wire.  If the receiver has     *)
(*    left a media session that the thread tracks, one of them ends the    *)
(*    loop, and no message makes the thread track such a session without   *)
(*    another behind it that does.                                         *)
(* 3. LoadInv: a URL that was given to one load only names that load, and  *)
(*    what the receiver says of it, as long as no later load came between. *)
(*    A thread whose load was answered tracks the media of that load, so a *)
(*    status of another one cannot be its end.                             *)
(***************************************************************************)
EXTENDS CastSession, SequenceTheorems, TLAPS

-------------------------------------------------------------------------------
(* Types, and where the thread waits *)

Steps == {"setup", "wait", "greet", "drain", "check", "receive", "poll", "ending",
          "announce", "gone"}
Waits == {"none", "first", "load", "pause", "resume", "seek", "adjust", "poll"}
States == {"Connecting", "Playing", "Paused", "Buffering", "Stopped", "Error", "Idle"}

Message ==
    [type : {"none", "status", "loadFailed", "invalid", "error", "other", "odd"},
     id : Nat, url : Nat, player : Players \cup Overs \cup {"none"}, re : BOOLEAN]

Request ==
    [op : {"load", "pause", "resume", "seek", "adjust", "poll", "stop"},
     id : Nat, url : Nat, re : BOOLEAN]

Thread ==
    [at : Steps, wait : Waits, msid : Nat, url : Nat, running : BOOLEAN, errors : Nat,
     got : Message, accepted : BOOLEAN, reused : BOOLEAN, over : Overs \cup {"none"}]

Tv == [app : BOOLEAN, media : Nat, url : Nat, player : Players \cup {"none"}, last : Nat]

TypeOK ==
    /\ session \in [ours : BOOLEAN, state : States]
    /\ queue \in Seq(Commands \cup {"shutdown"})
    /\ told \in BOOLEAN
    /\ thread \in Thread
    /\ held \in Seq(Message)
    /\ wire \in Seq(Message)
    /\ calls \in Seq(Request)
    /\ tv \in Tv

\* The thread waits for an answer at one of its points.
WaitsAtWait == thread.wait # "none" <=> thread.at = "wait"

\* Shutdown is the last command, and the loop is left once it was taken.
ShutdownIsLast ==
    /\ \A i \in DOMAIN queue : queue[i] = "shutdown" => told /\ i = Len(queue)
    /\ ~thread.running => told /\ queue = <<>> /\ thread.at \in {"drain", "ending", "gone"}

ThreadInv == TypeOK /\ WaitsAtWait /\ ShutdownIsLast

-------------------------------------------------------------------------------
(* Messages, requests and their queues *)

LEMMA Messages ==
    /\ \A id \in Nat, url \in Nat, player \in Players \cup Overs \cup {"none"}, re \in BOOLEAN :
         Status(id, url, player, re) \in Message
    /\ \A type \in {"none", "status", "loadFailed", "invalid", "error", "other", "odd"}, re \in BOOLEAN :
         Bare(type, re) \in Message
  BY DEF Status, Bare, Message

LEMMA Requests ==
    \A op \in {"load", "pause", "resume", "seek", "adjust", "poll", "stop"}, id \in Nat, url \in Nat :
       Call(op, id, url) \in Request
  BY DEF Call, Request

\* The receiver's queue of requests: the new one is the last, the others were
\* there, in their order.
LEMMA SentIsLast ==
    ASSUME calls \in Seq(Request), NEW c \in Request
    PROVE  /\ Sent(c) \in Seq(Request)
           /\ Len(Sent(c)) > 0
           /\ Sent(c)[Len(Sent(c))] = c
           /\ \E d \in {0, 1} : \A i \in 1..(Len(Sent(c)) - 1) :
                 i + d \in DOMAIN calls /\ Sent(c)[i] = calls[i + d]
<1>1. CASE Len(calls) < MaxCalls
  <2>1. Sent(c) = Append(calls, c)
    BY <1>1 DEF Sent
  <2>2. Append(calls, c) \in Seq(Request) /\ Len(Append(calls, c)) = Len(calls) + 1
        /\ Append(calls, c)[Len(calls) + 1] = c
        /\ \A i \in 1..Len(calls) : Append(calls, c)[i] = calls[i] /\ i \in DOMAIN calls
    OBVIOUS
  <2>3. Len(calls) \in Nat
    OBVIOUS
  <2> QED
    BY <2>1, <2>2, <2>3
<1>2. CASE ~(Len(calls) < MaxCalls)
  <2>1. Sent(c) = Append(Tail(calls), c)
    BY <1>2 DEF Sent
  <2>2. Len(calls) \in Nat /\ calls # <<>>
    BY <1>2, BoundsAssumption
  <2>3. Tail(calls) \in Seq(Request) /\ Len(Tail(calls)) = Len(calls) - 1
        /\ \A i \in 1..Len(Tail(calls)) : Tail(calls)[i] = calls[i + 1] /\ i + 1 \in DOMAIN calls
    BY <2>2
  <2> DEFINE q == Tail(calls)
  <2>4. q \in Seq(Request) /\ Len(q) = Len(calls) - 1
        /\ \A i \in 1..Len(q) : q[i] = calls[i + 1] /\ i + 1 \in DOMAIN calls
    BY <2>3
  <2> HIDE DEF q
  <2>5. Append(q, c) \in Seq(Request) /\ Len(Append(q, c)) = Len(q) + 1
        /\ Append(q, c)[Len(q) + 1] = c
        /\ \A i \in 1..Len(q) : Append(q, c)[i] = q[i]
    BY <2>4
  <2>6. Sent(c) = Append(q, c)
    BY <2>1 DEF q
  <2>7. Len(q) \in Nat
    BY <2>4
  <2> QED
    BY <2>2, <2>4, <2>5, <2>6, <2>7
<1> QED
  BY <1>1, <1>2

LEMMA UnmarkedMessages ==
    ASSUME NEW q \in Seq(Message)
    PROVE  /\ Unmarked(q) \in Seq(Message)
           /\ Len(Unmarked(q)) = Len(q)
           /\ \A i \in 1..Len(q) :
                /\ q[i] \in Message
                /\ Unmarked(q)[i] = [q[i] EXCEPT !.re = FALSE]
<1>1. \A i \in 1..Len(q) : q[i] \in Message
  OBVIOUS
<1>2. \A m \in Message : [m EXCEPT !.re = FALSE] \in Message
  BY DEF Message
<1>3. DOMAIN q = 1..Len(q) /\ Len(q) \in Nat
  OBVIOUS
<1>4. Unmarked(q) = [i \in 1..Len(q) |-> [q[i] EXCEPT !.re = FALSE]]
  BY <1>3 DEF Unmarked
<1>5. \A i \in 1..Len(q) : [q[i] EXCEPT !.re = FALSE] \in Message
  BY <1>1, <1>2
<1> QED
  BY <1>1, <1>3, <1>4, <1>5, IsASeq

LEMMA UnmarkedRequests ==
    ASSUME NEW q \in Seq(Request)
    PROVE  /\ Unmarked(q) \in Seq(Request)
           /\ Len(Unmarked(q)) = Len(q)
           /\ \A i \in 1..Len(q) :
                /\ q[i] \in Request
                /\ Unmarked(q)[i] = [q[i] EXCEPT !.re = FALSE]
<1>1. \A i \in 1..Len(q) : q[i] \in Request
  OBVIOUS
<1>2. \A m \in Request : [m EXCEPT !.re = FALSE] \in Request
  BY DEF Request
<1>3. DOMAIN q = 1..Len(q) /\ Len(q) \in Nat
  OBVIOUS
<1>4. Unmarked(q) = [i \in 1..Len(q) |-> [q[i] EXCEPT !.re = FALSE]]
  BY <1>3 DEF Unmarked
<1>5. \A i \in 1..Len(q) : [q[i] EXCEPT !.re = FALSE] \in Request
  BY <1>1, <1>2
<1> QED
  BY <1>1, <1>3, <1>4, <1>5, IsASeq

-------------------------------------------------------------------------------
(* Writes of the session *)

SessionType == [ours : BOOLEAN, state : States]

LEMMA Updates ==
    ASSUME session \in SessionType, NEW s \in States
    PROVE  /\ Update(s) \in SessionType
           /\ Update(s).ours = session.ours
           /\ session.ours => Update(s).state = s
           /\ ~session.ours => Update(s) = session
  BY DEF SessionType, Update

LEMMA Flips ==
    ASSUME session \in SessionType, NEW from, NEW s \in States
    PROVE  /\ Flipped(from, s) \in SessionType
           /\ Flipped(from, s).ours = session.ours
           /\ \/ Flipped(from, s) = session
              \/ session.ours /\ Flipped(from, s).state = s
  BY Updates DEF Flipped

LEMMA Publications ==
    ASSUME session \in SessionType, NEW m \in Message, NEW msid
    PROVE  /\ Published(m, msid) \in SessionType
           /\ Published(m, msid).ours = session.ours
           /\ ~session.ours => Published(m, msid) = session
           /\ ~Ends(m, msid) =>
                \/ Published(m, msid) = session
                \/ session.ours /\ Published(m, msid).state \in Players
           /\ Ends(m, msid) =>
                session.ours /\ Published(m, msid).state \in {"Stopped", "Error"}
           /\ Ends(m, msid) => m.player \in Overs
<1>1. m.player \in Players \cup Overs \cup {"none"}
  BY DEF Message
<1>2. Players \subseteq States /\ {"Stopped", "Error"} \subseteq States
  BY DEF Players, States
<1>3. CASE m.player \in Players
  <2>1. Published(m, msid) = Update(m.player) /\ ~Ends(m, msid)
    BY <1>3 DEF Published, Ends, Players
  <2> QED
    BY <2>1, <1>2, <1>3, Updates
<1>4. CASE m.player \notin Players /\ ~Ends(m, msid)
  BY <1>4 DEF Published
<1>5. CASE m.player \notin Players /\ Ends(m, msid)
  <2> DEFINE verdict == IF m.player = "Error" THEN "Error" ELSE "Stopped"
  <2>1. Published(m, msid) = Update(verdict)
    BY <1>5 DEF Published
  <2>2. verdict \in {"Stopped", "Error"}
    OBVIOUS
  <2>3. session.ours /\ m.player \in Overs
    BY <1>5 DEF Ends, Overs
  <2> HIDE DEF verdict
  <2> QED
    BY <2>1, <2>2, <2>3, <1>2, <1>5, Updates
<1> QED
  BY <1>3, <1>4, <1>5

-------------------------------------------------------------------------------
(* The thread as CastWatcher sees it *)

PhaseOf(t) ==
    CASE t.at = "setup" \/ t.wait = "first" -> "handshake"
      [] t.at = "ending" /\ t.running -> "announce"
      [] t.at \in {"greet", "announce", "gone"} -> t.at
      [] OTHER -> "running"

LEMMA PhaseIsOfThread == Phase = PhaseOf(thread) /\ Phase' = PhaseOf(thread')
  BY DEF Phase, PhaseOf

LEMMA Phases ==
    ASSUME NEW t \in Thread
    PROVE  /\ t.wait = "first" /\ t.at = "wait" => PhaseOf(t) = "handshake"
           /\ t.at = "setup" => PhaseOf(t) = "handshake"
           /\ t.wait # "first" =>
                /\ t.at = "ending" /\ t.running => PhaseOf(t) = "announce"
                /\ t.at \in {"greet", "announce", "gone"} => PhaseOf(t) = t.at
                /\ t.at \in {"wait", "drain", "check", "receive", "poll"} =>
                     PhaseOf(t) = "running"
                /\ t.at = "ending" /\ ~t.running => PhaseOf(t) = "running"
<1>0. ASSUME t.wait = "first", t.at = "wait"
      PROVE  PhaseOf(t) = "handshake"
  BY <1>0 DEF PhaseOf
<1>1. ASSUME t.at = "setup"
      PROVE  PhaseOf(t) = "handshake"
  BY <1>1 DEF PhaseOf
<1>2. ASSUME t.wait # "first", t.at = "ending", t.running
      PROVE  PhaseOf(t) = "announce"
  BY <1>2 DEF PhaseOf
<1>3. ASSUME t.wait # "first", t.at \in {"greet", "announce", "gone"}
      PROVE  PhaseOf(t) = t.at
  BY <1>3 DEF PhaseOf
<1>4. ASSUME t.wait # "first", t.at \in {"wait", "drain", "check", "receive", "poll"}
      PROVE  PhaseOf(t) = "running"
  BY <1>4 DEF PhaseOf
<1>5. ASSUME t.wait # "first", t.at = "ending", ~t.running
      PROVE  PhaseOf(t) = "running"
  BY <1>5 DEF PhaseOf
<1> QED
  BY <1>0, <1>1, <1>2, <1>3, <1>4, <1>5

SameForWatcher == session' = session /\ told' = told /\ announced' = announced

LEMMA FieldsOfSession ==
    /\ session.ours' = session'.ours /\ session.state' = session'.state
    /\ SameForWatcher => session' = session /\ told' = told /\ announced' = announced
  BY DEF SameForWatcher

LEMMA AsStutter ==
    ASSUME Phase' = Phase, SameForWatcher
    PROVE  UNCHANGED Watcher!vars
  BY FieldsOfSession DEF Watcher!vars

LEMMA AsReadyOrRefused ==
    ASSUME Phase = "handshake", Phase' \in {"greet", "gone"}, SameForWatcher
    PROVE  Watcher!Next
  BY FieldsOfSession DEF Watcher!Next, Watcher!Ready, Watcher!Refused

LEMMA AsGreet ==
    ASSUME Phase = "greet", Phase' = "running", told' = told, announced' = announced,
           session'.ours = session.ours,
           \/ session' = session
           \/ session.ours /\ session'.state \in Players \cup {"Stopped", "Error"}
    PROVE  Watcher!Next
<1>1. session.state' # session.state => session.ours
  BY FieldsOfSession
<1>2. session.state' \in {session.state, "Playing", "Paused", "Buffering", "Stopped", "Error"}
  BY FieldsOfSession DEF Players
<1> QED
  BY FieldsOfSession, <1>1, <1>2 DEF Watcher!Next, Watcher!Greet

LEMMA AsPublish ==
    ASSUME Phase = "running", Phase' = "running", told' = told, announced' = announced,
           session'.ours = session.ours, session.ours, session'.state \in Players
    PROVE  Watcher!Next
  BY FieldsOfSession DEF Watcher!Next, Watcher!Publish, Players

LEMMA AsEnd ==
    ASSUME Phase = "running", Phase' = "announce", told' = told, announced' = announced,
           session'.ours = session.ours,
           \/ session.ours /\ session'.state \in {"Stopped", "Error"}
           \/ ~session.ours /\ session' = session
    PROVE  Watcher!Next
<1>1. CASE session.ours
  BY FieldsOfSession, <1>1 DEF Watcher!Next, Watcher!End
<1>2. CASE ~session.ours
  <2>1. /\ "Error" = "Stopped" => session.ours
        /\ session.state' = (IF session.ours THEN "Error" ELSE session.state)
    BY FieldsOfSession, <1>2
  <2> QED
    BY <2>1, FieldsOfSession DEF Watcher!Next, Watcher!End
<1> QED
  BY <1>1, <1>2

LEMMA AsAnnounce ==
    ASSUME Phase = "announce", Phase' = "gone", told' = told, announced' = TRUE,
           session' = session
    PROVE  Watcher!Next
  BY FieldsOfSession DEF Watcher!Next, Watcher!Announce

LEMMA AsLeave ==
    ASSUME Phase = "running", Phase' = "gone", SameForWatcher, told \/ ~session.ours
    PROVE  Watcher!Next
  BY FieldsOfSession DEF Watcher!Next, Watcher!Leave

LEMMA AsDaemon ==
    ASSUME Phase' = Phase, announced' = announced,
           \/ ~told /\ told' = TRUE /\ session' = session
           \/ /\ ~told /\ told' = told /\ session.ours /\ session'.ours = session.ours
              /\ session'.state \in {"Playing", "Paused"}
           \/ /\ told /\ told' = told /\ session.ours
              /\ session'.ours = FALSE /\ session'.state = "Idle"
    PROVE  Watcher!Next
  BY FieldsOfSession DEF Watcher!Next, Watcher!Daemon

-------------------------------------------------------------------------------
(* Every step keeps ThreadInv, and is a step of CastWatcher or a stutter.  The *)
(* actions one by one.                                                         *)

GoodStep == ThreadInv' /\ [Watcher!Next]_Watcher!vars

\* What the invariant asks of a thread record by itself.
WellPlaced(t) == t \in Thread /\ (t.wait # "none" <=> t.at = "wait")

LEMMA Typed ==
    ASSUME ThreadInv
    PROVE  /\ WellPlaced(thread) /\ session \in SessionType
           /\ held \in Seq(Message) /\ wire \in Seq(Message) /\ calls \in Seq(Request)
           /\ tv \in Tv
  BY DEF ThreadInv, TypeOK, WaitsAtWait, WellPlaced, SessionType

\* A step that leaves the queue alone, and a thread that goes on.
LEMMA QueueKept ==
    ASSUME ThreadInv, queue' = queue, told' = told, session' \in SessionType,
           WellPlaced(thread'), held' \in Seq(Message), wire' \in Seq(Message),
           calls' \in Seq(Request), tv' \in Tv,
           thread'.running = thread.running,
           ~thread.running => thread'.at \in {"drain", "ending", "gone"}
    PROVE  ThreadInv'
<1>1. TypeOK'
  BY DEF ThreadInv, TypeOK, WellPlaced, SessionType
<1>2. WaitsAtWait'
  BY DEF WaitsAtWait, WellPlaced
<1>3. ShutdownIsLast'
  BY DEF ThreadInv, ShutdownIsLast
<1> QED
  BY <1>1, <1>2, <1>3 DEF ThreadInv

\* The places a thread may be sent to.
LEMMA Moves ==
    ASSUME NEW t \in Thread
    PROVE  /\ \A at \in Steps :
                /\ [t EXCEPT !.at = at] \in Thread
                /\ [t EXCEPT !.at = at].at = at
                /\ [t EXCEPT !.at = at].wait = t.wait
                /\ [t EXCEPT !.at = at].running = t.running
  BY DEF Thread

LEMMA SetUpStep ==
    ASSUME ThreadInv, SetUp
    PROVE  GoodStep
<1> USE DEF Steps, Waits
<1>1. thread.at = "setup" /\ thread.wait = "none" /\ thread.running /\ thread \in Thread
      /\ thread.url \in Nat
  BY DEF ThreadInv, WaitsAtWait, ShutdownIsLast, SetUp, TypeOK, Thread
<1>2. UNCHANGED <<session, queue, told, held, wire, tv, announced>>
  BY DEF SetUp, daemonVars, tvVars
<1>3. CASE link /\ Ask("first", Call("load", 0, thread.url))
  <2>1. thread' = [thread EXCEPT !.at = "wait", !.wait = "first"]
        /\ calls' = Sent(Call("load", 0, thread.url))
    BY <1>3 DEF Ask
  <2>2. thread' \in Thread /\ thread'.at = "wait" /\ thread'.wait = "first" /\ thread'.running = thread.running
    BY <2>1, <1>1 DEF Thread
  <2>3. calls' \in Seq(Request)
    BY <2>1, <1>1, Requests, SentIsLast, Typed
  <2>4. ThreadInv'
    BY <1>1, <1>2, <2>2, <2>3, QueueKept, Typed DEF WellPlaced
  <2>5. Phase = "handshake" /\ Phase' = "handshake"
    BY <1>1, <2>2, Phases, PhaseIsOfThread
  <2> QED
    BY <1>2, <2>4, <2>5, AsStutter DEF GoodStep, SameForWatcher
<1>4. CASE Go("gone") /\ UNCHANGED calls
  <2>1. thread' = [thread EXCEPT !.at = "gone"]
    BY <1>4 DEF Go
  <2>2. thread' \in Thread /\ thread'.at = "gone" /\ thread'.wait = "none" /\ thread'.running = thread.running
    BY <2>1, <1>1, Moves
  <2>4. ThreadInv'
    BY <1>1, <1>2, <1>4, <2>2, QueueKept, Typed DEF WellPlaced
  <2>5. Phase = "handshake" /\ Phase' = "gone"
    BY <1>1, <2>2, Phases, PhaseIsOfThread
  <2> QED
    BY <1>2, <2>4, <2>5, AsReadyOrRefused DEF GoodStep, SameForWatcher
<1> QED
  BY <1>3, <1>4 DEF SetUp

LEMMA GreetStep ==
    ASSUME ThreadInv, Greet
    PROVE  GoodStep
<1> USE DEF Steps, Waits
<1>1. thread.at = "greet" /\ thread.wait = "none" /\ thread.running /\ thread \in Thread
      /\ thread.got \in Message
  BY DEF ThreadInv, WaitsAtWait, ShutdownIsLast, Greet, TypeOK, Thread
<1>2. UNCHANGED <<queue, told, held, wire, calls, tv, announced>>
  BY DEF Greet, daemonVars, tvVars
<1>3. session' = Published(thread.got, -1) /\ session \in SessionType
  BY Typed DEF Greet
<1>4. session' \in SessionType /\ session'.ours = session.ours
      /\ (session' = session
          \/ (session.ours /\ session'.state \in Players \cup {"Stopped", "Error"}))
  BY <1>1, <1>3, Publications
<1>5. thread' \in Thread /\ thread'.at = "drain" /\ thread'.wait = "none" /\ thread'.running = thread.running
  <2>1. Bare("none", FALSE) \in Message
    BY Messages
  <2>2. thread.got.id \in Nat
    BY <1>1 DEF Message
  <2> QED
    BY <1>1, <2>1, <2>2 DEF Greet, Thread
<1>6. ThreadInv'
  BY <1>1, <1>2, <1>4, <1>5, QueueKept, Typed DEF WellPlaced
<1>7. Phase = "greet" /\ Phase' = "running"
  BY <1>1, <1>5, Phases, PhaseIsOfThread
<1> QED
  BY <1>2, <1>4, <1>6, <1>7, AsGreet DEF GoodStep

\* The loop only turns: nothing that the daemon sees.
LEMMA AsTurn ==
    ASSUME ThreadInv, thread' \in Thread, SameForWatcher, UNCHANGED <<queue, held, wire, tv>>,
           calls' \in Seq(Request), thread'.running = thread.running, thread.running,
           thread.at \in {"drain", "check", "receive", "poll"},
           thread'.at \in {"wait", "drain", "check", "receive", "poll"},
           thread'.wait # "none" <=> thread'.at = "wait", thread'.wait # "first"
    PROVE  GoodStep
<1>1. ThreadInv'
  BY QueueKept, Typed DEF WellPlaced, SameForWatcher
<1>2. thread.wait = "none" /\ thread \in Thread
  BY DEF ThreadInv, WaitsAtWait, TypeOK
<1>3. Phase = "running" /\ Phase' = "running"
  BY <1>2, Phases, PhaseIsOfThread
<1> QED
  BY <1>1, <1>3, AsStutter DEF GoodStep

LEMMA DrainStep ==
    ASSUME ThreadInv, Drain
    PROVE  GoodStep
<1>1. thread.at = "drain" /\ thread.wait = "none" /\ thread \in Thread /\ queue # <<>> /\ thread.running
      /\ thread.msid \in Nat /\ thread.url \in Nat
  BY DEF ThreadInv, WaitsAtWait, ShutdownIsLast, Drain, TypeOK, Thread
<1>2. UNCHANGED <<session, told, held, wire, tv, announced>>
  BY DEF Drain, tvVars
<1>3. SameForWatcher
  BY <1>2 DEF SameForWatcher
<1>4. /\ queue \in Seq(Commands \cup {"shutdown"}) /\ queue' = Tail(queue)
      /\ \A i \in DOMAIN queue : queue[i] = "shutdown" => told /\ i = Len(queue)
  BY DEF ThreadInv, TypeOK, ShutdownIsLast, Drain
<1>5. /\ queue' \in Seq(Commands \cup {"shutdown"})
      /\ \A i \in DOMAIN queue' : queue'[i] = "shutdown" => told' /\ i = Len(queue')
      /\ Head(queue) = "shutdown" => told /\ queue' = <<>>
  <2>1. DOMAIN queue = 1..Len(queue) /\ Len(queue) \in Nat /\ Len(queue) > 0 /\ Head(queue) = queue[1]
    BY <1>1, <1>4
  <2>2. queue' \in Seq(Commands \cup {"shutdown"}) /\ Len(queue') = Len(queue) - 1
        /\ DOMAIN queue' = 1..(Len(queue) - 1)
        /\ \A i \in 1..(Len(queue) - 1) : queue'[i] = queue[i + 1]
    BY <1>1, <1>4
  <2>3. Head(queue) = "shutdown" => told /\ queue' = <<>>
    BY <1>4, <2>1, <2>2
  <2>4. ASSUME NEW i \in 1..(Len(queue) - 1), queue'[i] = "shutdown"
        PROVE  told' /\ i = Len(queue')
    <3>1. i + 1 \in DOMAIN queue /\ queue[i + 1] = "shutdown"
      BY <2>1, <2>2, <2>4
    <3>2. told /\ i + 1 = Len(queue)
      BY <3>1, <1>4
    <3> QED
      BY <3>2, <2>1, <2>2, <1>2
  <2> QED
    BY <2>2, <2>3, <2>4
<1>6. /\ thread' \in Thread
      /\ (thread'.wait # "none" <=> thread'.at = "wait") /\ thread'.wait # "first"
      /\ calls' \in Seq(Request)
      /\ thread'.at \in {"drain", "wait"}
      /\ ~thread'.running => thread'.at = "drain" /\ Head(queue) = "shutdown"
  <2>1. CASE /\ Head(queue) = "shutdown"
             /\ thread' = [thread EXCEPT !.running = FALSE]
             /\ UNCHANGED calls
    BY <2>1, <1>1, Typed DEF Thread
  <2>2. CASE /\ Head(queue) = "reload"
             /\ \E url \in {thread.url, thread.url + 1} :
                  /\ calls' = Sent(Call("load", 0, url))
                  /\ thread' = [thread EXCEPT !.at = "wait", !.wait = "load",
                                              !.url = url, !.reused = (url = thread.url)]
    <3>1. PICK url \in {thread.url, thread.url + 1} :
                  /\ calls' = Sent(Call("load", 0, url))
                  /\ thread' = [thread EXCEPT !.at = "wait", !.wait = "load",
                                              !.url = url, !.reused = (url = thread.url)]
      BY <2>2
    <3>2. url \in Nat /\ (url = thread.url) \in BOOLEAN
      BY <1>1
    <3>3. Call("load", 0, url) \in Request
      BY <3>2, Requests
    <3>4. calls' \in Seq(Request)
      BY <3>1, <3>3, SentIsLast, Typed
    <3>5. thread' \in Thread /\ thread'.at = "wait" /\ thread'.wait = "load" /\ thread'.running = thread.running
      BY <3>1, <3>2, <1>1 DEF Thread, Steps, Waits
    <3> QED
      BY <3>4, <3>5, <1>1
  <2>3. CASE /\ Head(queue) \in {"pause", "resume", "seek", "adjust"} /\ thread.msid # 0
             /\ Ask(Head(queue), Call(Head(queue), thread.msid, 0))
    <3> DEFINE c == Head(queue)
    <3>1. c \in {"pause", "resume", "seek", "adjust"}
      BY <2>3
    <3>2. calls' = Sent(Call(c, thread.msid, 0)) /\ thread' = [thread EXCEPT !.at = "wait", !.wait = c]
      BY <2>3 DEF Ask
    <3> HIDE DEF c
    <3>3. Call(c, thread.msid, 0) \in Request
      BY <3>1, <1>1, Requests
    <3>4. calls' \in Seq(Request)
      BY <3>2, <3>3, SentIsLast, Typed
    <3>5. thread' \in Thread /\ thread'.at = "wait" /\ thread'.wait = c /\ thread'.running = thread.running
      BY <3>1, <3>2, <1>1 DEF Thread, Steps, Waits
    <3> QED
      BY <3>1, <3>4, <3>5, <1>1
  <2>4. CASE UNCHANGED <<thread, calls>>
    BY <2>4, <1>1, Typed
  <2> QED
    BY <2>1, <2>2, <2>3, <2>4 DEF Drain
<1>7. ThreadInv'
  <2>1. TypeOK'
    BY <1>2, <1>5, <1>6, Typed DEF ThreadInv, TypeOK
  <2>2. ShutdownIsLast'
    BY <1>2, <1>5, <1>6 DEF ShutdownIsLast
  <2> QED
    BY <2>1, <2>2, <1>6 DEF ThreadInv, WaitsAtWait
<1>8. Phase = "running" /\ Phase' = "running"
  BY <1>1, <1>6, Phases, PhaseIsOfThread
<1> QED
  BY <1>3, <1>7, <1>8, AsStutter DEF GoodStep

LEMMA DrainedStep ==
    ASSUME ThreadInv, Drained
    PROVE  GoodStep
<1>1. thread.at = "drain" /\ thread.wait = "none" /\ thread \in Thread
  BY DEF ThreadInv, WaitsAtWait, Drained, TypeOK
<1>2. UNCHANGED <<session, queue, told, held, wire, calls, tv, announced>>
  BY DEF Drained, daemonVars, tvVars
<1>3. thread' = [thread EXCEPT !.at = IF thread.running THEN "check" ELSE "ending"]
  BY DEF Drained, Go
<1>4. CASE thread.running
  <2>1. thread' \in Thread /\ thread'.at = "check" /\ thread'.wait = "none" /\ thread'.running = thread.running
    BY <1>1, <1>3, <1>4 DEF Thread, Steps
  <2> QED
    BY <1>1, <1>2, <1>4, <2>1, AsTurn, Typed DEF SameForWatcher
<1>5. CASE ~thread.running
  <2>1. thread' \in Thread /\ thread'.at = "ending" /\ thread'.wait = "none" /\ thread'.running = thread.running
    BY <1>1, <1>3, <1>5 DEF Thread, Steps
  <2>2. ThreadInv'
    BY <1>1, <1>2, <2>1, QueueKept, Typed DEF WellPlaced
  <2>3. Phase = "running" /\ Phase' = "running"
    BY <1>1, <1>5, <2>1, Phases, PhaseIsOfThread
  <2> QED
    BY <1>2, <2>2, <2>3, AsStutter DEF GoodStep, SameForWatcher
<1> QED
  BY <1>4, <1>5

LEMMA CheckStep ==
    ASSUME ThreadInv, Check
    PROVE  GoodStep
<1>1. thread.at = "check" /\ thread.wait = "none" /\ thread \in Thread /\ thread.running
  BY DEF ThreadInv, WaitsAtWait, ShutdownIsLast, Check, TypeOK
<1>2. UNCHANGED <<session, queue, told, held, wire, calls, tv, announced>>
  BY DEF Check, daemonVars, tvVars
<1>3. CASE session.ours /\ thread' = [thread EXCEPT !.at = "receive"]
  <2>1. thread' \in Thread /\ thread'.at = "receive" /\ thread'.wait = "none" /\ thread'.running = thread.running
    BY <1>1, <1>3 DEF Thread, Steps
  <2> QED
    BY <1>1, <1>2, <2>1, AsTurn, Typed DEF SameForWatcher
<1>4. CASE ~session.ours /\ thread' = [thread EXCEPT !.at = "gone"]
  <2>1. thread' \in Thread /\ thread'.at = "gone" /\ thread'.wait = "none" /\ thread'.running = thread.running
    BY <1>1, <1>4 DEF Thread, Steps
  <2>2. ThreadInv'
    BY <1>1, <1>2, <2>1, QueueKept, Typed DEF WellPlaced
  <2>3. Phase = "running" /\ Phase' = "gone"
    BY <1>1, <2>1, Phases, PhaseIsOfThread
  <2> QED
    BY <1>2, <1>4, <2>2, <2>3, AsLeave DEF GoodStep, SameForWatcher
<1> QED
  BY <1>3, <1>4 DEF Check, Go

LEMMA PollStep ==
    ASSUME ThreadInv, Poll
    PROVE  GoodStep
<1>1. thread.at = "poll" /\ thread.wait = "none" /\ thread \in Thread /\ thread.running
      /\ thread.msid \in Nat
  BY DEF ThreadInv, WaitsAtWait, ShutdownIsLast, Poll, TypeOK, Thread
<1>2. UNCHANGED <<session, queue, told, held, wire, tv, announced>>
  BY DEF Poll, daemonVars, tvVars
<1>3. CASE Go("drain") /\ UNCHANGED calls
  <2>1. thread' \in Thread /\ thread'.at = "drain" /\ thread'.wait = "none" /\ thread'.running = thread.running
    BY <1>1, <1>3 DEF Thread, Steps, Go
  <2> QED
    BY <1>1, <1>2, <1>3, <2>1, AsTurn, Typed DEF SameForWatcher
<1>4. CASE Ask("poll", Call("poll", thread.msid, 0))
  <2>1. thread' \in Thread /\ thread'.at = "wait" /\ thread'.wait = "poll" /\ thread'.running = thread.running
    BY <1>1, <1>4 DEF Thread, Steps, Waits, Ask
  <2>2. calls' \in Seq(Request)
    BY <1>1, <1>4, Requests, SentIsLast, Typed DEF Ask
  <2> QED
    BY <1>1, <1>2, <2>1, <2>2, AsTurn DEF SameForWatcher
<1> QED
  BY <1>3, <1>4 DEF Poll

LEMMA TeardownStep ==
    ASSUME ThreadInv, Teardown
    PROVE  GoodStep
<1>1. thread.at = "ending" /\ thread.wait = "none" /\ thread \in Thread /\ thread.msid \in Nat
  BY DEF ThreadInv, WaitsAtWait, Teardown, TypeOK, Thread
<1>2. UNCHANGED <<session, queue, told, held, wire, tv, announced>>
  BY DEF Teardown, daemonVars, tvVars
<1>3. calls' \in Seq(Request)
  <2>1. Call("stop", thread.msid, 0) \in Request
    BY <1>1, Requests
  <2> QED
    BY <2>1, SentIsLast, Typed DEF Teardown
<1>4. CASE thread.running
  <2>1. thread' = [thread EXCEPT !.at = "announce"]
    BY <1>4 DEF Teardown, Go
  <2>2. thread' \in Thread /\ thread'.at = "announce" /\ thread'.wait = "none" /\ thread'.running = thread.running
    BY <1>1, <2>1 DEF Thread, Steps
  <2>3. ThreadInv'
    BY <1>1, <1>2, <1>3, <1>4, <2>2, QueueKept, Typed DEF WellPlaced
  <2>4. Phase = "announce" /\ Phase' = "announce"
    BY <1>1, <1>4, <2>2, Phases, PhaseIsOfThread
  <2> QED
    BY <1>2, <2>3, <2>4, AsStutter DEF GoodStep, SameForWatcher
<1>5. CASE ~thread.running
  <2>1. thread' = [thread EXCEPT !.at = "gone"]
    BY <1>5 DEF Teardown, Go
  <2>2. thread' \in Thread /\ thread'.at = "gone" /\ thread'.wait = "none" /\ thread'.running = thread.running
    BY <1>1, <2>1 DEF Thread, Steps
  <2>3. ThreadInv'
    BY <1>1, <1>2, <1>3, <1>5, <2>2, QueueKept, Typed DEF WellPlaced
  <2>4. Phase = "running" /\ Phase' = "gone"
    BY <1>1, <1>5, <2>2, Phases, PhaseIsOfThread
  <2>5. told
    BY <1>5 DEF ThreadInv, ShutdownIsLast
  <2> QED
    BY <1>2, <2>3, <2>4, <2>5, AsLeave DEF GoodStep, SameForWatcher
<1> QED
  BY <1>4, <1>5

LEMMA AnnounceStep ==
    ASSUME ThreadInv, Announce
    PROVE  GoodStep
<1>1. thread.at = "announce" /\ thread.wait = "none" /\ thread \in Thread /\ thread.running
  BY DEF ThreadInv, WaitsAtWait, ShutdownIsLast, Announce, TypeOK
<1>2. UNCHANGED <<session, queue, told, held, wire, calls, tv>> /\ announced' = TRUE
  BY DEF Announce, daemonVars, tvVars
<1>3. thread' \in Thread /\ thread'.at = "gone" /\ thread'.wait = "none" /\ thread'.running = thread.running
  BY <1>1 DEF Announce, Go, Thread, Steps
<1>4. ThreadInv'
  BY <1>1, <1>2, <1>3, QueueKept, Typed DEF WellPlaced
<1>5. Phase = "announce" /\ Phase' = "gone"
  BY <1>1, <1>3, Phases, PhaseIsOfThread
<1> QED
  BY <1>2, <1>4, <1>5, AsAnnounce DEF GoodStep

\* What the receive loop and an answered poll do with a message: they go on, and
\* may publish a playing state, or they leave the loop with a verdict.
LEMMA AsPublishOrEnd ==
    ASSUME ThreadInv, thread.at \in {"wait", "drain", "check", "receive", "poll"},
           thread.wait # "first", thread.running,
           UNCHANGED <<queue, told, tv, announced>>,
           held' \in Seq(Message), wire' \in Seq(Message), calls' \in Seq(Request),
           thread' \in Thread, thread'.wait = "none", thread'.running = thread.running,
           session' \in SessionType, session'.ours = session.ours,
           \/ /\ thread'.at \in {"drain", "check", "receive", "poll"}
              /\ \/ session' = session
                 \/ session.ours /\ session'.state \in Players
           \/ /\ thread'.at \in {"ending", "announce"}
              /\ \/ session.ours /\ session'.state \in {"Stopped", "Error"}
                 \/ ~session.ours /\ session' = session
    PROVE  GoodStep
<1>1. ThreadInv'
  BY QueueKept, Typed DEF WellPlaced
<1>2. thread \in Thread
  BY DEF ThreadInv, TypeOK
<1>3. Phase = "running"
  BY <1>2, Phases, PhaseIsOfThread
<1>4. CASE thread'.at \in {"drain", "check", "receive", "poll"} /\ session' = session
  <2>1. Phase' = "running"
    BY <1>4, Phases, PhaseIsOfThread
  <2> QED
    BY <1>1, <1>3, <1>4, <2>1, AsStutter DEF GoodStep, SameForWatcher
<1>5. CASE /\ thread'.at \in {"drain", "check", "receive", "poll"}
           /\ session.ours /\ session'.state \in Players
  <2>1. Phase' = "running"
    BY <1>5, Phases, PhaseIsOfThread
  <2> QED
    BY <1>1, <1>3, <1>5, <2>1, AsPublish DEF GoodStep
<1>6. CASE /\ thread'.at \in {"ending", "announce"}
           /\ \/ session.ours /\ session'.state \in {"Stopped", "Error"}
              \/ ~session.ours /\ session' = session
  <2>1. Phase' = "announce"
    BY <1>6, Phases, PhaseIsOfThread
  <2> QED
    BY <1>1, <1>3, <1>6, <2>1, AsEnd DEF GoodStep
<1> QED
  BY <1>4, <1>5, <1>6

\* The cases of Handled.
LEMMA HandledCases ==
    ASSUME NEW m \in Message, Handled(m), thread \in Thread
    PROVE  \/ /\ m.type = "status" /\ ~Ends(m, thread.msid)
              /\ session' = Published(m, thread.msid)
              /\ thread' = [thread EXCEPT !.errors = 0, !.at = "poll",
                                          !.msid = IF @ = 0 THEN m.id ELSE @]
           \/ /\ m.type = "status" /\ Ends(m, thread.msid)
              /\ session' = Published(m, thread.msid)
              /\ thread' = [thread EXCEPT !.errors = 0, !.at = "ending",
                                          !.msid = IF @ = 0 THEN m.id ELSE @,
                                          !.over = m.player]
           \/ /\ m.type \in {"loadFailed", "error"}
              /\ session' = Update("Error")
              /\ thread' = [thread EXCEPT !.errors = 0, !.at = "ending", !.over = "Error"]
           \/ /\ m.type = "odd"
              /\ session' = Update("Error")
              /\ thread' = [thread EXCEPT !.errors = @ + 1, !.at = "announce"]
           \/ /\ m.type \notin {"status", "loadFailed", "error"}
              /\ session' = session
              /\ \E n \in Nat : thread' = [thread EXCEPT !.errors = n, !.at = "poll"]
<1> DEFINE errors == IF m.type = "odd" THEN thread.errors + 1 ELSE 0
           next == [thread EXCEPT !.errors = errors, !.at = "poll"]
           adopted == [next EXCEPT !.msid = IF @ = 0 THEN m.id ELSE @]
<1>1. errors \in Nat /\ (m.type # "odd" => errors = 0) /\ (m.type = "odd" => errors = thread.errors + 1)
  BY DEF Thread
<1>2. CASE m.type = "status"
  <2>1. /\ session' = Published(m, thread.msid)
        /\ thread' = IF Ends(m, thread.msid)
                     THEN [adopted EXCEPT !.at = "ending", !.over = m.player]
                     ELSE adopted
    BY <1>2 DEF Handled
  <2>2. adopted = [thread EXCEPT !.errors = 0, !.at = "poll",
                                 !.msid = IF @ = 0 THEN m.id ELSE @]
    BY <1>1, <1>2 DEF Thread
  <2>3. [adopted EXCEPT !.at = "ending", !.over = m.player]
        = [thread EXCEPT !.errors = 0, !.at = "ending",
                         !.msid = IF @ = 0 THEN m.id ELSE @, !.over = m.player]
    BY <1>1, <1>2 DEF Thread
  <2> QED
    BY <1>2, <2>1, <2>2, <2>3
<1>3. CASE m.type \in {"loadFailed", "error"}
  <2>1. /\ session' = Update("Error")
        /\ thread' = [next EXCEPT !.at = "ending", !.over = "Error"]
    BY <1>3 DEF Handled
  <2>2. [next EXCEPT !.at = "ending", !.over = "Error"]
        = [thread EXCEPT !.errors = 0, !.at = "ending", !.over = "Error"]
    BY <1>1, <1>3 DEF Thread
  <2> QED
    BY <1>3, <2>1, <2>2
<1>4. CASE m.type = "odd" /\ errors > ErrorLimit
  <2>1. session' = Update("Error") /\ thread' = [next EXCEPT !.at = "announce"]
    BY <1>4 DEF Handled
  <2>2. [next EXCEPT !.at = "announce"] = [thread EXCEPT !.errors = @ + 1, !.at = "announce"]
    BY <1>1, <1>4 DEF Thread
  <2> QED
    BY <1>4, <2>1, <2>2
<1>5. CASE m.type \notin {"status", "loadFailed", "error"} /\ ~(m.type = "odd" /\ errors > ErrorLimit)
  <2>1. session' = session /\ thread' = next
    BY <1>5 DEF Handled
  <2> HIDE DEF errors
  <2> QED
    BY <1>1, <1>5, <2>1
<1> QED
  BY <1>2, <1>3, <1>4, <1>5

LEMMA HandledStep ==
    ASSUME ThreadInv, NEW m \in Message, thread.at = "receive", Handled(m),
           UNCHANGED <<queue, told, calls, tv, announced>>,
           held' \in Seq(Message), wire' \in Seq(Message)
    PROVE  GoodStep
<1>1. thread.wait = "none" /\ thread \in Thread /\ thread.running /\ session \in SessionType
      /\ calls' \in Seq(Request)
  BY Typed DEF ThreadInv, WaitsAtWait, ShutdownIsLast, TypeOK
<1>2. m.id \in Nat /\ thread.errors + 1 \in Nat
  BY <1>1 DEF Message, Thread
<1>3. "Error" \in States
  BY DEF States
<1>4. \/ /\ session.ours
         /\ Update("Error").state = "Error" /\ Update("Error").ours = session.ours
      \/ ~session.ours /\ Update("Error") = session
  BY <1>1, <1>3, Updates
<1>5. Update("Error") \in SessionType /\ Update("Error").ours = session.ours
  BY <1>1, <1>3, Updates
<1>6. CASE /\ m.type = "status" /\ ~Ends(m, thread.msid)
           /\ session' = Published(m, thread.msid)
           /\ thread' = [thread EXCEPT !.errors = 0, !.at = "poll",
                                       !.msid = IF @ = 0 THEN m.id ELSE @]
  <2>1. thread' \in Thread /\ thread'.at = "poll" /\ thread'.wait = "none" /\ thread'.running = thread.running
    BY <1>1, <1>2, <1>6 DEF Thread, Steps
  <2>2. session' \in SessionType /\ session'.ours = session.ours
        /\ (session' = session \/ (session.ours /\ session'.state \in Players))
    BY <1>1, <1>6, Publications
  <2> QED
    BY <1>1, <2>1, <2>2, AsPublishOrEnd
<1>7. CASE /\ m.type = "status" /\ Ends(m, thread.msid)
           /\ session' = Published(m, thread.msid)
           /\ thread' = [thread EXCEPT !.errors = 0, !.at = "ending",
                                       !.msid = IF @ = 0 THEN m.id ELSE @,
                                       !.over = m.player]
  <2>1. session' \in SessionType /\ session'.ours = session.ours
        /\ session.ours /\ session'.state \in {"Stopped", "Error"} /\ m.player \in Overs
    BY <1>1, <1>7, Publications
  <2>2. thread' \in Thread /\ thread'.at = "ending" /\ thread'.wait = "none" /\ thread'.running = thread.running
    BY <1>1, <1>2, <1>7, <2>1 DEF Thread, Steps
  <2> QED
    BY <1>1, <2>1, <2>2, AsPublishOrEnd
<1>8. CASE /\ m.type \in {"loadFailed", "error"}
           /\ session' = Update("Error")
           /\ thread' = [thread EXCEPT !.errors = 0, !.at = "ending", !.over = "Error"]
  <2>1. "Error" \in Overs
    BY DEF Overs
  <2>2. thread' \in Thread /\ thread'.at = "ending" /\ thread'.wait = "none" /\ thread'.running = thread.running
    BY <1>1, <1>8, <2>1 DEF Thread, Steps
  <2> QED
    BY <1>1, <1>4, <1>5, <1>8, <2>2, AsPublishOrEnd
<1>9. CASE /\ session' = Update("Error")
           /\ thread' = [thread EXCEPT !.errors = @ + 1, !.at = "announce"]
  <2>2. thread' \in Thread /\ thread'.at = "announce" /\ thread'.wait = "none" /\ thread'.running = thread.running
    BY <1>1, <1>2, <1>9 DEF Thread, Steps
  <2> QED
    BY <1>1, <1>4, <1>5, <1>9, <2>2, AsPublishOrEnd
<1>10. CASE /\ session' = session
            /\ \E n \in Nat : thread' = [thread EXCEPT !.errors = n, !.at = "poll"]
  <2>1. thread' \in Thread /\ thread'.at = "poll" /\ thread'.wait = "none" /\ thread'.running = thread.running
    BY <1>1, <1>10 DEF Thread, Steps
  <2> QED
    BY <1>1, <1>10, <2>1, AsPublishOrEnd
<1> QED
  BY <1>1, <1>6, <1>7, <1>8, <1>9, <1>10, HandledCases

LEMMA ReceiveStep ==
    ASSUME ThreadInv, Receive
    PROVE  GoodStep
<1>1. thread.at = "receive" /\ UNCHANGED <<queue, told, calls, tv, announced>>
  BY DEF Receive, daemonVars, tvVars
<1>2. CASE held # <<>> /\ Handled(Head(held)) /\ held' = Tail(held) /\ wire' = wire
  <2>1. Head(held) \in Message /\ held' \in Seq(Message) /\ wire' \in Seq(Message)
    BY <1>2, Typed
  <2> QED
    BY <1>1, <1>2, <2>1, HandledStep
<1>3. CASE wire # <<>> /\ Handled(Head(wire)) /\ wire' = Tail(wire) /\ held' = held
  <2>1. Head(wire) \in Message /\ held' \in Seq(Message) /\ wire' \in Seq(Message)
    BY <1>3, Typed
  <2> QED
    BY <1>1, <1>3, <2>1, HandledStep
<1> QED
  BY <1>2, <1>3 DEF Receive, Readable

LEMMA ReceiveNothingStep ==
    ASSUME ThreadInv, ReceiveNothing
    PROVE  GoodStep
<1>1. thread.at = "receive" /\ thread.wait = "none" /\ thread \in Thread /\ thread.running
      /\ session \in SessionType /\ thread.errors + 1 \in Nat
  BY Typed DEF ThreadInv, WaitsAtWait, ShutdownIsLast, ReceiveNothing, TypeOK, Thread
<1>2. UNCHANGED <<queue, told, held, wire, calls, tv, announced>>
  BY DEF ReceiveNothing, daemonVars, tvVars
<1>3. "Error" \in States
  BY DEF States
<1>4. CASE session' = session /\ thread' = [thread EXCEPT !.at = "poll"]
  <2>1. thread' \in Thread /\ thread'.at = "poll" /\ thread'.wait = "none" /\ thread'.running = thread.running
    BY <1>1, <1>4 DEF Thread, Steps
  <2> QED
    BY <1>1, <1>2, <1>4, <2>1, AsPublishOrEnd, Typed
<1>5. CASE session' = session /\ thread' = [thread EXCEPT !.errors = @ + 1, !.at = "poll"]
  <2>1. thread' \in Thread /\ thread'.at = "poll" /\ thread'.wait = "none" /\ thread'.running = thread.running
    BY <1>1, <1>5 DEF Thread, Steps
  <2> QED
    BY <1>1, <1>2, <1>5, <2>1, AsPublishOrEnd, Typed
<1>6. CASE session' = Update("Error") /\ thread' = [thread EXCEPT !.errors = @ + 1, !.at = "announce"]
  <2>1. thread' \in Thread /\ thread'.at = "announce" /\ thread'.wait = "none" /\ thread'.running = thread.running
    BY <1>1, <1>6 DEF Thread, Steps
  <2>2. session' \in SessionType /\ session'.ours = session.ours
        /\ \/ session.ours /\ session'.state \in {"Stopped", "Error"}
           \/ ~session.ours /\ session' = session
    BY <1>1, <1>3, <1>6, Updates
  <2> QED
    BY <1>1, <1>2, <2>1, <2>2, AsPublishOrEnd, Typed
<1> QED
  BY <1>4, <1>5, <1>6 DEF ReceiveNothing, Go

\* The cases of Accept.
LEMMA AcceptCases ==
    ASSUME NEW m \in Message, Accept(m), thread \in Thread, thread.wait # "none"
    PROVE  \/ /\ thread.wait = "first" /\ session' = session
              /\ thread' = [thread EXCEPT !.wait = "none", !.at = "greet", !.got = m]
           \/ /\ thread.wait = "load" /\ session' = Update("Buffering")
              /\ thread' = [thread EXCEPT !.wait = "none", !.at = "drain",
                                          !.accepted = m.id # 0,
                                          !.msid = IF m.id = 0 THEN @ ELSE m.id]
           \/ /\ thread.wait = "poll" /\ session' = Published(m, thread.msid)
              /\ ~Ends(m, thread.msid)
              /\ thread' = [thread EXCEPT !.wait = "none", !.at = "drain"]
           \/ /\ thread.wait = "poll" /\ session' = Published(m, thread.msid)
              /\ Ends(m, thread.msid)
              /\ thread' = [thread EXCEPT !.wait = "none", !.at = "ending", !.over = m.player]
           \/ /\ thread.wait = "pause" /\ session' = Flipped("Playing", "Paused")
              /\ thread' = [thread EXCEPT !.wait = "none", !.at = "drain"]
           \/ /\ thread.wait \in {"resume", "seek"} /\ session' = Flipped("Paused", "Playing")
              /\ thread' = [thread EXCEPT !.wait = "none", !.at = "drain"]
           \/ /\ thread.wait = "adjust" /\ session' = session
              /\ thread' = [thread EXCEPT !.wait = "none", !.at = "drain"]
<1> DEFINE next == [thread EXCEPT !.wait = "none", !.at = "drain"]
<1>1. CASE thread.wait = "first"
  <2>1. session' = session /\ thread' = [next EXCEPT !.at = "greet", !.got = m]
    BY <1>1 DEF Accept
  <2>2. [next EXCEPT !.at = "greet", !.got = m] = [thread EXCEPT !.wait = "none", !.at = "greet", !.got = m]
    BY DEF Thread
  <2> QED
    BY <1>1, <2>1, <2>2
<1>2. CASE thread.wait = "load"
  <2>1. session' = Update("Buffering")
        /\ thread' = [next EXCEPT !.accepted = m.id # 0, !.msid = IF m.id = 0 THEN @ ELSE m.id]
    BY <1>2 DEF Accept
  <2>2. [next EXCEPT !.accepted = m.id # 0, !.msid = IF m.id = 0 THEN @ ELSE m.id]
        = [thread EXCEPT !.wait = "none", !.at = "drain", !.accepted = m.id # 0,
                         !.msid = IF m.id = 0 THEN @ ELSE m.id]
    BY DEF Thread
  <2> QED
    BY <1>2, <2>1, <2>2
<1>3. CASE thread.wait = "poll"
  <2>1. session' = Published(m, thread.msid)
        /\ thread' = IF Ends(m, thread.msid)
                     THEN [next EXCEPT !.at = "ending", !.over = m.player]
                     ELSE next
    BY <1>3 DEF Accept
  <2>2. [next EXCEPT !.at = "ending", !.over = m.player]
        = [thread EXCEPT !.wait = "none", !.at = "ending", !.over = m.player]
    BY DEF Thread
  <2> QED
    BY <1>3, <2>1, <2>2
<1>4. CASE thread.wait = "pause"
  BY <1>4 DEF Accept
<1>5. CASE thread.wait \in {"resume", "seek"}
  BY <1>5 DEF Accept
<1>6. CASE thread.wait = "adjust"
  BY <1>6 DEF Accept
<1> QED
  BY <1>1, <1>2, <1>3, <1>4, <1>5, <1>6 DEF Thread, Waits

\* What a helper leaves underway belongs to nobody's request.
LEMMA UnmarkedTypes ==
    ASSUME ThreadInv
    PROVE  /\ Unmarked(wire) \in Seq(Message) /\ Unmarked(calls) \in Seq(Request)
           /\ wire # <<>> => /\ Head(wire) \in Message /\ Tail(wire) \in Seq(Message)
                             /\ Unmarked(Tail(wire)) \in Seq(Message)
<1>1. wire \in Seq(Message) /\ calls \in Seq(Request)
  BY Typed
<1>2. wire # <<>> => Head(wire) \in Message /\ Tail(wire) \in Seq(Message)
  BY <1>1
<1> QED
  BY <1>1, <1>2, UnmarkedMessages, UnmarkedRequests

LEMMA AcceptStep ==
    ASSUME ThreadInv, NEW m \in Message, thread.at = "wait", wire # <<>>, Accept(m),
           UNCHANGED <<queue, told, tv, announced>>
    PROVE  GoodStep
<1>1. /\ thread.wait # "none" /\ thread \in Thread /\ thread.running
      /\ session \in SessionType /\ m.id \in Nat
  BY Typed DEF ThreadInv, WaitsAtWait, ShutdownIsLast, TypeOK, Message
<1>2. held' \in Seq(Message) /\ wire' \in Seq(Message) /\ calls' \in Seq(Request)
  BY UnmarkedTypes, Typed DEF Accept
<1>3. {"Buffering", "Paused", "Playing"} \subseteq States /\ {"Buffering", "Paused", "Playing"} \subseteq Players
  BY DEF States, Players
<1>4. CASE /\ thread.wait = "first" /\ session' = session
           /\ thread' = [thread EXCEPT !.wait = "none", !.at = "greet", !.got = m]
  <2>1. thread' \in Thread /\ thread'.at = "greet" /\ thread'.wait = "none" /\ thread'.running = thread.running
    BY <1>1, <1>4 DEF Thread, Steps, Waits
  <2>2. ThreadInv'
    BY <1>1, <1>2, <1>4, <2>1, QueueKept, Typed DEF WellPlaced
  <2>3. Phase = "handshake" /\ Phase' = "greet"
    BY <1>1, <1>4, <2>1, Phases, PhaseIsOfThread
  <2> QED
    BY <1>4, <2>2, <2>3, AsReadyOrRefused DEF GoodStep, SameForWatcher
<1>5. CASE /\ thread.wait = "load" /\ session' = Update("Buffering")
           /\ thread' = [thread EXCEPT !.wait = "none", !.at = "drain",
                                       !.accepted = m.id # 0,
                                       !.msid = IF m.id = 0 THEN @ ELSE m.id]
  <2>1. thread' \in Thread /\ thread'.at = "drain" /\ thread'.wait = "none" /\ thread'.running = thread.running
    BY <1>1, <1>5 DEF Thread, Steps, Waits
  <2>2. session' \in SessionType /\ session'.ours = session.ours
        /\ (session' = session \/ (session.ours /\ session'.state \in Players))
    BY <1>1, <1>3, <1>5, Updates
  <2> QED
    BY <1>1, <1>2, <1>5, <2>1, <2>2, AsPublishOrEnd
<1>6. CASE /\ thread.wait = "poll" /\ session' = Published(m, thread.msid)
           /\ ~Ends(m, thread.msid)
           /\ thread' = [thread EXCEPT !.wait = "none", !.at = "drain"]
  <2>1. thread' \in Thread /\ thread'.at = "drain" /\ thread'.wait = "none" /\ thread'.running = thread.running
    BY <1>1, <1>6 DEF Thread, Steps, Waits
  <2>2. session' \in SessionType /\ session'.ours = session.ours
        /\ (session' = session \/ (session.ours /\ session'.state \in Players))
    BY <1>1, <1>6, Publications
  <2> QED
    BY <1>1, <1>2, <1>6, <2>1, <2>2, AsPublishOrEnd
<1>7. CASE /\ thread.wait = "poll" /\ session' = Published(m, thread.msid)
           /\ Ends(m, thread.msid)
           /\ thread' = [thread EXCEPT !.wait = "none", !.at = "ending", !.over = m.player]
  <2>1. session' \in SessionType /\ session'.ours = session.ours
        /\ session.ours /\ session'.state \in {"Stopped", "Error"} /\ m.player \in Overs
    BY <1>1, <1>7, Publications
  <2>2. thread' \in Thread /\ thread'.at = "ending" /\ thread'.wait = "none" /\ thread'.running = thread.running
    BY <1>1, <1>7, <2>1 DEF Thread, Steps, Waits
  <2> QED
    BY <1>1, <1>2, <1>7, <2>1, <2>2, AsPublishOrEnd
<1>8. CASE /\ thread.wait # "first"
           /\ \/ session' = Flipped("Playing", "Paused")
              \/ session' = Flipped("Paused", "Playing")
              \/ session' = session
           /\ thread' = [thread EXCEPT !.wait = "none", !.at = "drain"]
  <2>1. thread' \in Thread /\ thread'.at = "drain" /\ thread'.wait = "none" /\ thread'.running = thread.running
    BY <1>1, <1>8 DEF Thread, Steps, Waits
  <2>2. session' \in SessionType /\ session'.ours = session.ours
        /\ (session' = session \/ (session.ours /\ session'.state \in Players))
    BY <1>1, <1>3, <1>8, Flips
  <2> QED
    BY <1>1, <1>2, <1>8, <2>1, <2>2, AsPublishOrEnd
<1> QED
  BY <1>1, <1>4, <1>5, <1>6, <1>7, <1>8, AcceptCases

LEMMA AbandonStep ==
    ASSUME ThreadInv, NEW rest \in Seq(Message), thread.at = "wait", Abandon(rest),
           UNCHANGED <<queue, told, tv, announced>>
    PROVE  GoodStep
<1>1. /\ thread.wait # "none" /\ thread \in Thread /\ thread.running
      /\ (thread.accepted /\ ~Loading) \in BOOLEAN
  BY DEF ThreadInv, WaitsAtWait, ShutdownIsLast, TypeOK
<1>2. held' \in Seq(Message) /\ wire' \in Seq(Message) /\ calls' \in Seq(Request)
  BY UnmarkedMessages, UnmarkedRequests, Typed DEF Abandon
<1>3. session' = session
  BY DEF Abandon
<1>4. CASE thread.wait = "first"
  <2>1. thread' = [thread EXCEPT !.at = "gone", !.accepted = @ /\ ~Loading, !.wait = "none"]
    BY <1>4 DEF Abandon
  <2>2. thread' \in Thread /\ thread'.at = "gone" /\ thread'.wait = "none" /\ thread'.running = thread.running
    BY <1>1, <2>1 DEF Thread, Steps, Waits
  <2>3. ThreadInv'
    BY <1>1, <1>2, <1>3, <2>2, QueueKept, Typed DEF WellPlaced
  <2>4. Phase = "handshake" /\ Phase' = "gone"
    BY <1>1, <1>4, <2>2, Phases, PhaseIsOfThread
  <2> QED
    BY <1>3, <2>3, <2>4, AsReadyOrRefused DEF GoodStep, SameForWatcher
<1>5. CASE thread.wait # "first"
  <2>1. thread' = [thread EXCEPT !.at = "drain", !.accepted = @ /\ ~Loading, !.wait = "none"]
    BY <1>5 DEF Abandon
  <2>2. thread' \in Thread /\ thread'.at = "drain" /\ thread'.wait = "none" /\ thread'.running = thread.running
    BY <1>1, <2>1 DEF Thread, Steps, Waits
  <2> QED
    BY <1>1, <1>2, <1>3, <1>5, <2>2, AsPublishOrEnd, Typed
<1> QED
  BY <1>4, <1>5

LEMMA WaitReadStep ==
    ASSUME ThreadInv, WaitRead
    PROVE  GoodStep
<1>1. thread.at = "wait" /\ wire # <<>> /\ UNCHANGED <<queue, told, tv, announced>>
  BY DEF WaitRead, Readable, daemonVars, tvVars
<1>2. Head(wire) \in Message /\ Tail(wire) \in Seq(Message)
  BY <1>1, UnmarkedTypes
<1>3. CASE Accept(Head(wire))
  BY <1>1, <1>2, <1>3, AcceptStep
<1>4. CASE Abandon(Tail(wire))
  BY <1>1, <1>2, <1>4, AbandonStep
<1>5. CASE /\ \/ held' = held
              \/ held' = Append(held, Head(wire))
           /\ wire' = Tail(wire)
           /\ UNCHANGED <<session, thread, calls>>
  <2>1. held' \in Seq(Message)
    <3>1. held \in Seq(Message)
      BY Typed
    <3>2. Append(held, Head(wire)) \in Seq(Message)
      BY <1>2, <3>1
    <3> QED
      BY <1>5, <3>1, <3>2
  <2>2. ThreadInv'
    BY <1>1, <1>2, <1>5, <2>1, QueueKept, Typed DEF ThreadInv, ShutdownIsLast, WellPlaced
  <2>3. Phase' = Phase
    BY <1>5, PhaseIsOfThread
  <2> QED
    BY <1>1, <1>5, <2>2, <2>3, AsStutter DEF GoodStep, SameForWatcher
<1> QED
  BY <1>3, <1>4, <1>5 DEF WaitRead

LEMMA WaitFailsStep ==
    ASSUME ThreadInv, WaitJams \/ WaitEnds
    PROVE  GoodStep
<1>1. /\ thread.at = "wait" /\ Abandon(wire)
      /\ UNCHANGED <<queue, told, tv, announced>>
  BY DEF WaitJams, WaitEnds, daemonVars, tvVars
<1> QED
  BY <1>1, Typed, AbandonStep

LEMMA SendStep ==
    ASSUME ThreadInv, NEW c \in Commands, Send(c)
    PROVE  GoodStep
<1>1. /\ ~told /\ queue' = Append(queue, c)
      /\ UNCHANGED <<told, thread, held, wire, calls, tv, announced>>
  BY DEF Send, threadVars, tvVars
<1>2. thread.running /\ queue \in Seq(Commands \cup {"shutdown"})
      /\ \A i \in DOMAIN queue : queue[i] # "shutdown"
  BY <1>1 DEF ThreadInv, ShutdownIsLast, TypeOK
<1>3. c # "shutdown"
  BY CommandsAssumption
<1>4. /\ queue' \in Seq(Commands \cup {"shutdown"})
      /\ \A i \in DOMAIN queue' : queue'[i] # "shutdown"
  <2>1. /\ queue' \in Seq(Commands \cup {"shutdown"}) /\ DOMAIN queue' = 1..(Len(queue) + 1)
        /\ DOMAIN queue = 1..Len(queue) /\ Len(queue) \in Nat
        /\ queue'[Len(queue) + 1] = c /\ \A i \in 1..Len(queue) : queue'[i] = queue[i]
    BY <1>1, <1>2
  <2> QED
    BY <2>1, <1>2, <1>3
<1>5. {"Playing", "Paused"} \subseteq States
  BY DEF States
<1>6. session' \in {Flipped("Playing", "Paused"), Flipped("Paused", "Playing"), session}
  BY DEF Send
<1>7. session' \in SessionType /\ session'.ours = session.ours
      /\ \/ session' = session
         \/ session.ours /\ session'.state \in {"Playing", "Paused"}
  BY <1>5, <1>6, Flips, Typed
<1>8. ThreadInv'
  <2>1. TypeOK'
    BY <1>1, <1>4, <1>7, Typed DEF ThreadInv, TypeOK, SessionType
  <2>2. ShutdownIsLast' /\ WaitsAtWait'
    BY <1>1, <1>2, <1>4 DEF ThreadInv, ShutdownIsLast, WaitsAtWait
  <2> QED
    BY <2>1, <2>2 DEF ThreadInv
<1>9. Phase' = Phase
  BY <1>1, PhaseIsOfThread
<1>10. CASE session' = session
  BY <1>1, <1>8, <1>9, <1>10, AsStutter DEF GoodStep, SameForWatcher
<1>11. CASE session.ours /\ session'.state \in {"Playing", "Paused"}
  BY <1>1, <1>7, <1>8, <1>9, <1>11, AsDaemon DEF GoodStep
<1> QED
  BY <1>7, <1>10, <1>11

LEMMA TellStep ==
    ASSUME ThreadInv, Tell
    PROVE  GoodStep
<1>1. /\ ~told /\ told' = TRUE /\ queue' = Append(queue, "shutdown")
      /\ UNCHANGED <<session, thread, held, wire, calls, tv, announced>>
  BY DEF Tell, threadVars, tvVars
<1>2. thread.running /\ queue \in Seq(Commands \cup {"shutdown"})
      /\ \A i \in DOMAIN queue : queue[i] # "shutdown"
  BY <1>1 DEF ThreadInv, ShutdownIsLast, TypeOK
<1>3. /\ queue' \in Seq(Commands \cup {"shutdown"}) /\ DOMAIN queue' = 1..(Len(queue) + 1)
      /\ DOMAIN queue = 1..Len(queue) /\ Len(queue) \in Nat /\ Len(queue') = Len(queue) + 1
      /\ \A i \in 1..Len(queue) : queue'[i] = queue[i]
  BY <1>1, <1>2
<1>4. \A i \in DOMAIN queue' : queue'[i] = "shutdown" => told' /\ i = Len(queue')
  BY <1>1, <1>2, <1>3
<1>5. ThreadInv'
  <2>1. TypeOK'
    BY <1>1, <1>3, Typed DEF ThreadInv, TypeOK, SessionType
  <2>2. ShutdownIsLast' /\ WaitsAtWait'
    BY <1>1, <1>2, <1>4 DEF ThreadInv, ShutdownIsLast, WaitsAtWait
  <2> QED
    BY <2>1, <2>2 DEF ThreadInv
<1>6. Phase' = Phase
  BY <1>1, PhaseIsOfThread
<1> QED
  BY <1>1, <1>5, <1>6, AsDaemon DEF GoodStep

\* A step of the receiver or of the connection.
LEMMA AsReceivers ==
    ASSUME ThreadInv, UNCHANGED <<session, queue, told, thread, held, announced>>,
           wire' \in Seq(Message), calls' \in Seq(Request), tv' \in Tv
    PROVE  GoodStep
<1>1. ThreadInv'
  BY QueueKept, Typed DEF ThreadInv, ShutdownIsLast, WellPlaced
<1>2. Phase' = Phase
  BY PhaseIsOfThread
<1> QED
  BY <1>1, <1>2, AsStutter DEF GoodStep, SameForWatcher

LEMMA ResetSessionStep ==
    ASSUME ThreadInv, ResetSession
    PROVE  GoodStep
<1>1. /\ told /\ session.ours /\ session' = [ours |-> FALSE, state |-> "Idle"]
      /\ UNCHANGED <<queue, told, thread, held, wire, calls, tv, announced>>
  BY DEF ResetSession, daemonVars, threadVars, tvVars
<1>2. session' \in SessionType /\ session'.ours = FALSE /\ session'.state = "Idle"
  BY <1>1 DEF SessionType, States
<1>3. ThreadInv'
  BY <1>1, <1>2, QueueKept, Typed DEF ThreadInv, ShutdownIsLast, WellPlaced
<1>4. Phase' = Phase
  BY <1>1, PhaseIsOfThread
<1> QED
  BY <1>1, <1>2, <1>3, <1>4, AsDaemon DEF GoodStep

-------------------------------------------------------------------------------
(* The receiver *)

LEMMA OneMessage ==
    ASSUME NEW q \in Seq(Message), NEW m \in Message
    PROVE  <<m>> \in Seq(Message) /\ q \o <<m>> \in Seq(Message)
  OBVIOUS

LEMMA MoreMessages ==
    ASSUME NEW q \in Seq(Message), NEW r \in Seq(Message)
    PROVE  q \o r \in Seq(Message)
  OBVIOUS

\* What a receiver may say of the media it stops playing.
LEMMA Farewells ==
    ASSUME ThreadInv, NEW player \in Overs
    PROVE  /\ Farewell(player) \in Seq(Message)
           /\ tv.media = 0 => Farewell(player) = <<>>
           /\ tv.media # 0 => Farewell(player) = <<Status(tv.media, tv.url, player, FALSE)>>
<1>1. tv.media \in Nat /\ tv.url \in Nat
  BY Typed DEF Tv
<1>2. Status(tv.media, tv.url, player, FALSE) \in Message
  BY <1>1, Messages
<1>3. <<>> \in Seq(Message)
  OBVIOUS
<1>4. <<Status(tv.media, tv.url, player, FALSE)>> \in Seq(Message)
  BY <1>2, <1>3, OneMessage
<1> QED
  BY <1>3, <1>4 DEF Farewell

LEMMA TvLoadsCases ==
    ASSUME ThreadInv, TvLoads
    PROVE  \E c \in Request, m \in Message :
             /\ c = Head(calls) /\ calls # <<>> /\ c.op = "load" /\ link
             /\ wire' = wire \o Append(Farewell("Interrupted"), m)
             /\ \/ /\ tv' = [app |-> TRUE, media |-> tv.last + 1, url |-> c.url,
                             player |-> "Buffering", last |-> tv.last + 1]
                   /\ m \in {Status(tv.last + 1, c.url, "Buffering", c.re),
                             Status(tv.last + 1, c.url, "Buffering", FALSE),
                             Bare("status", c.re)}
                \/ /\ tv' = [tv EXCEPT !.app = TRUE, !.media = 0, !.player = "none"]
                   /\ m = Bare("loadFailed", c.re)
<1> DEFINE c == Head(calls)
           id == tv.last + 1
<1>1. c \in Request /\ calls # <<>> /\ c.op = "load" /\ link
  BY Typed DEF TvLoads
<1>2. c.url \in Nat /\ c.re \in BOOLEAN /\ id \in Nat
  BY <1>1, Typed DEF Request, Tv
<1>3. CASE /\ tv' = [app |-> TRUE, media |-> id, url |-> c.url, player |-> "Buffering", last |-> id]
           /\ \E reply \in LoadReplies :
                Say(Append(Farewell("Interrupted"),
                           CASE reply = "whole" -> Status(id, c.url, "Buffering", c.re)
                             [] reply = "noRequest" -> Status(id, c.url, "Buffering", FALSE)
                             [] OTHER -> Bare("status", c.re)))
  <2>1. PICK reply \in LoadReplies :
                Say(Append(Farewell("Interrupted"),
                           CASE reply = "whole" -> Status(id, c.url, "Buffering", c.re)
                             [] reply = "noRequest" -> Status(id, c.url, "Buffering", FALSE)
                             [] OTHER -> Bare("status", c.re)))
    BY <1>3
  <2> DEFINE m == CASE reply = "whole" -> Status(id, c.url, "Buffering", c.re)
                    [] reply = "noRequest" -> Status(id, c.url, "Buffering", FALSE)
                    [] OTHER -> Bare("status", c.re)
  <2>2. m \in {Status(id, c.url, "Buffering", c.re), Status(id, c.url, "Buffering", FALSE),
               Bare("status", c.re)}
    OBVIOUS
  <2>3. "Buffering" \in Players \cup Overs \cup {"none"}
    BY DEF Players
  <2>4. /\ Status(id, c.url, "Buffering", c.re) \in Message
        /\ Status(id, c.url, "Buffering", FALSE) \in Message
        /\ Bare("status", c.re) \in Message
    BY <1>2, <2>3, Messages
  <2>5. wire' = wire \o Append(Farewell("Interrupted"), m)
    BY <2>1 DEF Say
  <2> HIDE DEF m
  <2> QED
    BY <1>1, <1>3, <2>2, <2>4, <2>5
<1>4. CASE /\ tv' = [tv EXCEPT !.app = TRUE, !.media = 0, !.player = "none"]
           /\ Say(Append(Farewell("Interrupted"), Bare("loadFailed", c.re)))
  <2>1. Bare("loadFailed", c.re) \in Message
    BY <1>2, Messages
  <2> QED
    BY <1>1, <1>4, <2>1 DEF Say
<1> QED
  BY <1>3, <1>4 DEF TvLoads

LEMMA TvLoadsStep ==
    ASSUME ThreadInv, TvLoads
    PROVE  GoodStep
<1>1. PICK c \in Request, m \in Message :
             /\ c = Head(calls) /\ calls # <<>> /\ c.op = "load" /\ link
             /\ wire' = wire \o Append(Farewell("Interrupted"), m)
             /\ \/ /\ tv' = [app |-> TRUE, media |-> tv.last + 1, url |-> c.url,
                             player |-> "Buffering", last |-> tv.last + 1]
                   /\ m \in {Status(tv.last + 1, c.url, "Buffering", c.re),
                             Status(tv.last + 1, c.url, "Buffering", FALSE),
                             Bare("status", c.re)}
                \/ /\ tv' = [tv EXCEPT !.app = TRUE, !.media = 0, !.player = "none"]
                   /\ m = Bare("loadFailed", c.re)
  BY TvLoadsCases
<1>2. Farewell("Interrupted") \in Seq(Message)
  <2>1. "Interrupted" \in Overs
    BY DEF Overs
  <2> QED
    BY <2>1, Farewells
<1>3. wire' \in Seq(Message)
  BY <1>1, <1>2, Typed
<1>4. calls' = Tail(calls) /\ calls' \in Seq(Request)
      /\ UNCHANGED <<session, queue, told, thread, held, announced>>
  BY <1>1, Typed DEF TvLoads, daemonVars, threadVars
<1>5. tv' \in Tv
  <2>1. c.url \in Nat /\ tv.last + 1 \in Nat
    BY Typed DEF Tv, Request
  <2>2. CASE tv' = [app |-> TRUE, media |-> tv.last + 1, url |-> c.url,
                    player |-> "Buffering", last |-> tv.last + 1]
    BY <2>1, <2>2 DEF Tv, Players
  <2>3. CASE tv' = [tv EXCEPT !.app = TRUE, !.media = 0, !.player = "none"]
    BY <2>3, Typed DEF Tv
  <2> QED
    BY <1>1, <2>2, <2>3
<1> QED
  BY <1>3, <1>4, <1>5, AsReceivers

LEMMA TvAnswersCases ==
    ASSUME ThreadInv, TvAnswers
    PROVE  \E c \in Request, m \in Message :
             /\ c = Head(calls) /\ calls # <<>> /\ c.op \notin {"load", "stop"} /\ link
             /\ wire' = wire \o <<m>>
             /\ \/ /\ c.id = tv.media
                   /\ \E player \in Players \cup {"none"} :
                        /\ tv' = [tv EXCEPT !.player = player]
                        /\ m = Status(tv.media, tv.url, player, c.re)
                \/ /\ c.id # tv.media /\ tv' = tv
                   /\ m \in {Bare("status", c.re), Bare("invalid", c.re)}
<1> DEFINE c == Head(calls)
           player == CASE c.op = "pause" -> "Paused"
                       [] c.op \in {"resume", "seek"} -> "Playing"
                       [] OTHER -> tv.player
<1>1. c \in Request /\ calls # <<>> /\ c.op \notin {"load", "stop"} /\ link
  BY Typed DEF TvAnswers
<1>2. /\ c.re \in BOOLEAN /\ tv.media \in Nat /\ tv.url \in Nat
      /\ tv.player \in Players \cup {"none"}
  BY <1>1, Typed DEF Request, Tv
<1>3. player \in Players \cup {"none"}
  BY <1>2 DEF Players
<1>4. CASE /\ c.id = tv.media /\ tv' = [tv EXCEPT !.player = player]
           /\ Say(<<Status(tv.media, tv.url, player, c.re)>>)
  <2>1. Status(tv.media, tv.url, player, c.re) \in Message
    BY <1>2, <1>3, Messages
  <2> HIDE DEF player
  <2> QED
    BY <1>1, <1>3, <1>4, <2>1 DEF Say
<1>5. CASE /\ c.id # tv.media /\ tv' = tv
           /\ Say(<<Bare(IF c.op = "poll" THEN "status" ELSE "invalid", c.re)>>)
  <2>1. Bare("status", c.re) \in Message /\ Bare("invalid", c.re) \in Message
    BY <1>2, Messages
  <2>2. CASE c.op = "poll"
    BY <1>1, <1>5, <2>1, <2>2 DEF Say
  <2>3. CASE c.op # "poll"
    BY <1>1, <1>5, <2>1, <2>3 DEF Say
  <2> QED
    BY <2>2, <2>3
<1> QED
  BY <1>4, <1>5 DEF TvAnswers

LEMMA TvAnswersStep ==
    ASSUME ThreadInv, TvAnswers
    PROVE  GoodStep
<1>1. PICK c \in Request, m \in Message :
             /\ calls # <<>> /\ wire' = wire \o <<m>>
             /\ \/ \E player \in Players \cup {"none"} : tv' = [tv EXCEPT !.player = player]
                \/ tv' = tv
  BY TvAnswersCases
<1>2. wire' \in Seq(Message)
  BY <1>1, Typed
<1>3. calls' = Tail(calls) /\ calls' \in Seq(Request)
      /\ UNCHANGED <<session, queue, told, thread, held, announced>>
  BY <1>1, Typed DEF TvAnswers, daemonVars, threadVars
<1>4. tv' \in Tv
  BY <1>1, Typed DEF Tv
<1> QED
  BY <1>2, <1>3, <1>4, AsReceivers

LEMMA TvStopsStep ==
    ASSUME ThreadInv, TvStops
    PROVE  GoodStep
<1>1. calls' \in Seq(Request) /\ UNCHANGED <<session, queue, told, thread, held, wire, announced>>
  BY Typed DEF TvStops, daemonVars, threadVars
<1>2. tv' \in Tv
  BY Typed DEF Tv, TvStops
<1> QED
  BY <1>1, <1>2, Typed, AsReceivers

LEMMA TvReportsStep ==
    ASSUME ThreadInv, TvReports
    PROVE  GoodStep
<1>1. UNCHANGED <<session, queue, told, thread, held, calls, announced>>
  BY DEF TvReports, daemonVars, threadVars
<1>2. PICK player \in Reported :
         /\ tv' = [tv EXCEPT !.player = player]
         /\ wire' = wire \o <<Status(tv.media, tv.url, player, FALSE)>>
  BY DEF TvReports, Say
<1>3. player \in Players
  BY ReportedAssumption DEF Players
<1>4. Status(tv.media, tv.url, player, FALSE) \in Message
  BY <1>3, Messages, Typed DEF Tv
<1>5. wire' \in Seq(Message)
  BY <1>2, <1>4, Typed, OneMessage, MoreMessages
<1>6. tv' \in Tv
  BY <1>2, <1>3, Typed DEF Tv
<1> QED
  BY <1>1, <1>5, <1>6, Typed, AsReceivers

LEMMA TvEndsStep ==
    ASSUME ThreadInv, TvEnds
    PROVE  GoodStep
<1>1. UNCHANGED <<session, queue, told, thread, held, calls, announced>>
  BY DEF TvEnds, daemonVars, threadVars
<1>2. PICK how \in Endings :
         \/ wire' = wire \o Farewell(how)
         \/ wire' = wire \o <<Bare("error", FALSE)>>
  BY DEF TvEnds, Say
<1>3. how \in Overs
  BY EndingsAssumption DEF Overs
<1>4. Farewell(how) \in Seq(Message) /\ Bare("error", FALSE) \in Message
  BY <1>3, Messages, Farewells
<1>5. wire' \in Seq(Message)
  BY <1>2, <1>4, Typed, OneMessage, MoreMessages
<1>6. tv' \in Tv
  BY Typed DEF Tv, TvEnds
<1> QED
  BY <1>1, <1>5, <1>6, Typed, AsReceivers

LEMMA TvNoiseStep ==
    ASSUME ThreadInv, TvNoise
    PROVE  GoodStep
<1>1. UNCHANGED <<session, queue, told, thread, held, calls, tv, announced>>
  BY DEF TvNoise, daemonVars, threadVars, tvVars
<1>2. PICK type \in Noise :
         \/ wire' = wire \o <<Bare(type, FALSE)>>
         \/ wire' = <<Bare(type, FALSE)>>
  BY DEF TvNoise, Say
<1>3. Bare(type, FALSE) \in Message
  BY NoiseAssumption, Messages
<1>4. wire' \in Seq(Message)
  BY <1>2, <1>3, Typed, OneMessage
<1> QED
  BY <1>1, <1>4, Typed, AsReceivers

LEMMA LinkDownStep ==
    ASSUME ThreadInv, LinkDown
    PROVE  GoodStep
<1>1. UNCHANGED <<session, queue, told, thread, held, tv, announced>>
      /\ wire' = <<>> /\ calls' = <<>>
  BY DEF LinkDown, daemonVars, threadVars
<1>2. wire' \in Seq(Message) /\ calls' \in Seq(Request)
  BY <1>1
<1> QED
  BY <1>1, <1>2, Typed, AsReceivers

-------------------------------------------------------------------------------
(* The refinement *)

LEMMA ThreadInvInit == Init => ThreadInv /\ Watcher!Init
<1> SUFFICES ASSUME Init PROVE ThreadInv /\ Watcher!Init
  OBVIOUS
<1>1. Bare("none", FALSE) \in Message
  BY Messages
<1>2. thread \in Thread /\ thread.at = "setup" /\ thread.wait = "none" /\ thread.running
  BY <1>1 DEF Init, Thread, Steps, Waits
<1>3. TypeOK
  <2>1. tv \in Tv /\ session \in [ours : BOOLEAN, state : States] /\ told \in BOOLEAN
    BY DEF Init, Tv, States
  <2>2. /\ queue \in Seq(Commands \cup {"shutdown"})
        /\ held \in Seq(Message) /\ wire \in Seq(Message) /\ calls \in Seq(Request)
    BY DEF Init
  <2> QED
    BY <1>2, <2>1, <2>2 DEF TypeOK
<1>4. ThreadInv
  BY <1>2, <1>3 DEF Init, ThreadInv, WaitsAtWait, ShutdownIsLast
<1>5. Phase = "handshake"
  BY <1>2, Phases, PhaseIsOfThread
<1> QED
  BY <1>4, <1>5 DEF Init, Watcher!Init

LEMMA ThreadInvNext ==
    ASSUME ThreadInv, [Next]_vars
    PROVE  GoodStep
<1>1. CASE UNCHANGED vars
  <2>1. UNCHANGED <<session, queue, told, thread, held, wire, calls, tv, announced>>
    BY <1>1 DEF vars, daemonVars, threadVars, tvVars
  <2> QED
    BY <2>1, Typed, AsReceivers
<1>2. CASE ThreadStep
  BY <1>2, SetUpStep, GreetStep, DrainStep, DrainedStep, CheckStep, ReceiveStep, ReceiveNothingStep,
     PollStep, WaitReadStep, WaitFailsStep, TeardownStep, AnnounceStep DEF ThreadStep
<1>3. CASE TvStep
  BY <1>3, TvLoadsStep, TvAnswersStep, TvStopsStep, TvReportsStep, TvEndsStep, TvNoiseStep,
     LinkDownStep DEF TvStep
<1>4. CASE (\E c \in Commands : Send(c)) \/ Tell \/ ResetSession
  BY <1>4, SendStep, TellStep, ResetSessionStep
<1>5. CASE Terminated
  BY <1>1, <1>5 DEF Terminated
<1> QED
  BY <1>1, <1>2, <1>3, <1>4, <1>5 DEF Next

\* In every behaviour the variables of the thread have their types, it waits for
\* an answer only in a wait, and Shutdown is the last command it is sent
\* (run_session, CastSession's queue).
THEOREM ThreadInvariant == Spec => []ThreadInv
  BY ThreadInvInit, ThreadInvNext, PTL DEF Spec, GoodStep

\* Whatever the receiver and the network do, and whatever commands are queued,
\* a Cast thread takes only the steps that CastDaemon gives its watchers: it
\* writes the session only while that is its own, announces SessionEnded after
\* its last write, and leaves without a word only when it was told to or its
\* session is gone.
THEOREM ThreadIsAWatcher == Spec => RefinesWatcher
<1>1. ThreadInv /\ [Next]_vars => [Watcher!Next]_Watcher!vars
  BY ThreadInvNext DEF GoodStep
<1> QED
  BY <1>1, ThreadInvInit, ThreadInvariant, PTL DEF Spec, RefinesWatcher, Watcher!Spec

-------------------------------------------------------------------------------
(* What the thread has still to read *)

Ahead == held \o wire

\* A message that makes a thread leave its loop when it tracks the session id.
Ender(m, id) ==
    \/ m.player \in {"Finished", "Error"}
    \/ m.player = "Interrupted" /\ m.id = id
    \/ m.type = "error"
    \/ m.type = "loadFailed" /\ ~m.re

Has(q, id) == \E j \in DOMAIN q : Ender(q[j], id)

\* A message that speaks of a media session the receiver has left.
Stale(m, media) == m.player \notin Overs /\ m.id \notin {0, media}

\* Such a message is followed by one that ends the cast.
Settled(q, media) ==
    \A i \in DOMAIN q :
       Stale(q[i], media) => \E j \in DOMAIN q : j > i /\ Ender(q[j], q[i].id)

\* m is o, with its mark or without.
Eased(m, o) ==
    /\ m.type = o.type /\ m.id = o.id /\ m.url = o.url /\ m.player = o.player
    /\ m.re => o.re

\* r is what is left of q when the n-th message is taken.
Taken(q, n, r) ==
    /\ n \in 1..Len(q) /\ Len(r) = Len(q) - 1
    /\ \A i \in 1..Len(r) : i < n => Eased(r[i], q[i])
    /\ \A i \in 1..Len(r) : i >= n => Eased(r[i], q[i + 1])

\* r is q with some marks taken off.
Kept(q, r) == Len(r) = Len(q) /\ \A i \in 1..Len(q) : Eased(r[i], q[i])

LEMMA EasedEnds ==
    ASSUME NEW m \in Message, NEW o \in Message, Eased(m, o)
    PROVE  /\ \A id : Ender(o, id) => Ender(m, id)
           /\ \A media : Stale(m, media) <=> Stale(o, media)
  BY DEF Eased, Ender, Stale, Message

LEMMA TakenIsSettled ==
    ASSUME NEW q \in Seq(Message), NEW r \in Seq(Message), NEW n, Taken(q, n, r)
    PROVE  /\ \A id : Has(q, id) /\ ~Ender(q[n], id) => Has(r, id)
           /\ \A x : Settled(q, x) /\ (n = 1 \/ \A id : ~Ender(q[n], id)) => Settled(r, x)
           /\ \A x : Settled(q, x) /\ Stale(q[n], x) => Has(r, q[n].id)
           /\ \A i \in DOMAIN r : \E j \in DOMAIN q : Eased(r[i], q[j])
<1>1. /\ DOMAIN q = 1..Len(q) /\ DOMAIN r = 1..Len(r) /\ Len(q) \in Nat /\ Len(r) \in Nat
      /\ n \in 1..Len(q) /\ Len(r) = Len(q) - 1
      /\ \A i \in DOMAIN q : q[i] \in Message
      /\ \A i \in DOMAIN r : r[i] \in Message
  BY DEF Taken
<1>2. \A i \in DOMAIN r : /\ i < n => i \in DOMAIN q /\ Eased(r[i], q[i])
                          /\ i >= n => i + 1 \in DOMAIN q /\ Eased(r[i], q[i + 1])
  BY <1>1 DEF Taken
\* Where a message of q is in r.
<1>3. ASSUME NEW j \in DOMAIN q, j # n
      PROVE  \E i \in DOMAIN r : /\ Eased(r[i], q[j])
                                 /\ j < n => i = j
                                 /\ j > n => i = j - 1
  <2>1. CASE j < n
    <3>1. j \in DOMAIN r
      BY <1>1, <2>1
    <3> QED
      BY <1>1, <1>2, <2>1, <3>1
  <2>2. CASE j > n
    <3>1. j - 1 \in DOMAIN r /\ j - 1 >= n /\ (j - 1) + 1 = j
      BY <1>1, <2>2
    <3>2. Eased(r[j - 1], q[j])
      BY <1>2, <3>1
    <3> QED
      BY <1>1, <2>2, <3>1, <3>2
  <2> QED
    BY <1>1, <1>3, <2>1, <2>2
<1>4. ASSUME NEW id, Has(q, id), ~Ender(q[n], id)
      PROVE  Has(r, id)
  <2>1. PICK j \in DOMAIN q : Ender(q[j], id)
    BY <1>4 DEF Has
  <2>2. PICK i \in DOMAIN r : Eased(r[i], q[j])
    BY <1>3, <1>4, <2>1
  <2>3. Ender(r[i], id)
    BY <1>1, <2>1, <2>2, EasedEnds
  <2> QED
    BY <2>3 DEF Has
<1>5. ASSUME NEW x, Settled(q, x), n = 1 \/ \A id : ~Ender(q[n], id)
      PROVE  Settled(r, x)
  <2> SUFFICES ASSUME NEW i \in DOMAIN r, Stale(r[i], x)
               PROVE  \E j \in DOMAIN r : j > i /\ Ender(r[j], r[i].id)
    BY DEF Settled
  <2>1. PICK k \in DOMAIN q : /\ Eased(r[i], q[k]) /\ k # n
                              /\ i < n => k = i
                              /\ i >= n => k = i + 1
    <3>1. CASE i < n
      BY <1>1, <1>2, <3>1
    <3>2. CASE i >= n
      BY <1>1, <1>2, <3>2
    <3> QED
      BY <1>1, <3>1, <3>2
  <2>2. Stale(q[k], x) /\ r[i].id = q[k].id
    BY <1>1, <2>1, EasedEnds DEF Eased
  <2>3. PICK j \in DOMAIN q : j > k /\ Ender(q[j], q[k].id)
    BY <1>5, <2>2 DEF Settled
  <2>4. j # n
    BY <1>1, <1>5, <2>1, <2>3
  <2>5. PICK l \in DOMAIN r : /\ Eased(r[l], q[j])
                              /\ j < n => l = j
                              /\ j > n => l = j - 1
    BY <1>3, <2>4
  <2>6. Ender(r[l], r[i].id)
    BY <1>1, <2>2, <2>3, <2>5, EasedEnds
  <2>7. l > i
    BY <1>1, <2>1, <2>3, <2>4, <2>5
  <2> QED
    BY <2>6, <2>7
<1>6. ASSUME NEW x, Settled(q, x), Stale(q[n], x)
      PROVE  Has(r, q[n].id)
  <2>1. PICK j \in DOMAIN q : j > n /\ Ender(q[j], q[n].id)
    BY <1>1, <1>6 DEF Settled
  <2>2. PICK i \in DOMAIN r : Eased(r[i], q[j])
    BY <1>1, <1>3, <2>1
  <2>3. Ender(r[i], q[n].id)
    BY <1>1, <2>1, <2>2, EasedEnds
  <2> QED
    BY <2>3 DEF Has
<1>7. \A i \in DOMAIN r : \E j \in DOMAIN q : Eased(r[i], q[j])
  <2> SUFFICES ASSUME NEW i \in DOMAIN r PROVE \E j \in DOMAIN q : Eased(r[i], q[j])
    OBVIOUS
  <2>1. i < n \/ i >= n
    BY <1>1
  <2> QED
    BY <1>2, <2>1
<1> QED
  BY <1>4, <1>5, <1>6, <1>7

LEMMA KeptIsSettled ==
    ASSUME NEW q \in Seq(Message), NEW r \in Seq(Message), Kept(q, r)
    PROVE  /\ \A id : Has(q, id) => Has(r, id)
           /\ \A x : Settled(q, x) => Settled(r, x)
           /\ \A i \in DOMAIN r : \E j \in DOMAIN q : Eased(r[i], q[j])
<1>1. /\ DOMAIN q = DOMAIN r
      /\ \A i \in DOMAIN q : q[i] \in Message /\ r[i] \in Message /\ Eased(r[i], q[i])
  BY DEF Kept
<1>2. \A i \in DOMAIN q :
        /\ \A id : Ender(q[i], id) => Ender(r[i], id)
        /\ \A media : Stale(r[i], media) <=> Stale(q[i], media)
        /\ r[i].id = q[i].id
  BY <1>1, EasedEnds DEF Eased
<1> QED
  BY <1>1, <1>2 DEF Has, Settled

\* Where the messages of q \o r come from.
LEMMA Joined ==
    ASSUME NEW q \in Seq(Message), NEW r \in Seq(Message), NEW c, c = q \o r
    PROVE  /\ Len(q) \in Nat /\ DOMAIN q = 1..Len(q)
           /\ \A i \in DOMAIN q : i \in DOMAIN c /\ c[i] = q[i]
           /\ \A i \in DOMAIN r : Len(q) + i \in DOMAIN c /\ c[Len(q) + i] = r[i] /\ i \in Nat /\ i > 0
           /\ \A i \in DOMAIN c :
                \/ i \in DOMAIN q /\ c[i] = q[i]
                \/ i - Len(q) \in DOMAIN r /\ c[i] = r[i - Len(q)]
<1>1. /\ DOMAIN q = 1..Len(q) /\ DOMAIN r = 1..Len(r) /\ DOMAIN c = 1..(Len(q) + Len(r))
      /\ Len(q) \in Nat /\ Len(r) \in Nat
      /\ \A i \in 1..Len(q) : c[i] = q[i]
      /\ \A i \in 1..Len(r) : c[Len(q) + i] = r[i]
  BY ConcatProperties
<1>2. \A i \in DOMAIN q : i \in DOMAIN c /\ c[i] = q[i]
  BY <1>1
<1>3. \A i \in DOMAIN r : Len(q) + i \in DOMAIN c /\ c[Len(q) + i] = r[i]
  BY <1>1
<1>4. ASSUME NEW i \in DOMAIN c
      PROVE  \/ i \in DOMAIN q /\ c[i] = q[i]
             \/ i - Len(q) \in DOMAIN r /\ c[i] = r[i - Len(q)]
  <2>1. CASE i <= Len(q)
    BY <1>1, <2>1
  <2>2. CASE i > Len(q)
    <3>1. i - Len(q) \in 1..Len(r) /\ Len(q) + (i - Len(q)) = i
      BY <1>1, <2>2
    <3>2. c[Len(q) + (i - Len(q))] = r[i - Len(q)]
      BY <1>1, <3>1
    <3> QED
      BY <1>1, <3>1, <3>2
  <2> QED
    BY <1>1, <2>1, <2>2
<1> QED
  BY <1>1, <1>2, <1>3, <1>4

LEMMA MoreIsThere ==
    ASSUME NEW q \in Seq(Message), NEW r \in Seq(Message), NEW c, c = q \o r
    PROVE  \A i \in DOMAIN c :
              (\E j \in DOMAIN q : c[i] = q[j]) \/ (\E j \in DOMAIN r : c[i] = r[j])
<1>1. \A i \in DOMAIN c :
        \/ i \in DOMAIN q /\ c[i] = q[i]
        \/ i - Len(q) \in DOMAIN r /\ c[i] = r[i - Len(q)]
  BY Joined
<1> QED
  BY <1>1

LEMMA MoreEnds ==
    ASSUME NEW q \in Seq(Message), NEW r \in Seq(Message), NEW c, c = q \o r,
           NEW id, Has(q, id) \/ Has(r, id)
    PROVE  Has(c, id)
<1>1. /\ \A i \in DOMAIN q : i \in DOMAIN c /\ c[i] = q[i]
      /\ \A i \in DOMAIN r : Len(q) + i \in DOMAIN c /\ c[Len(q) + i] = r[i]
  BY Joined
<1>2. CASE Has(q, id)
  BY <1>1, <1>2 DEF Has
<1>3. CASE Has(r, id)
  <2>1. PICK j \in DOMAIN r : Ender(r[j], id)
    BY <1>3 DEF Has
  <2>2. Len(q) + j \in DOMAIN c /\ Ender(c[Len(q) + j], id)
    BY <1>1, <2>1
  <2> QED
    BY <2>2 DEF Has
<1> QED
  BY <1>2, <1>3

\* More messages arrive, and the receiver leaves media x for y or stays.
LEMMA MoreIsSettled ==
    ASSUME NEW q \in Seq(Message), NEW r \in Seq(Message), NEW c, c = q \o r,
           NEW x, NEW y, Settled(q, x), x \in {0, y} \/ Has(r, x),
           \A i \in DOMAIN r : ~Stale(r[i], y)
    PROVE  Settled(c, y)
<1>1. Len(q) \in Nat /\ DOMAIN q = 1..Len(q)
  BY Joined
<1>2. \A i \in DOMAIN q : i \in DOMAIN c /\ c[i] = q[i]
  BY Joined
<1>3. \A i \in DOMAIN r : Len(q) + i \in DOMAIN c /\ c[Len(q) + i] = r[i] /\ i \in Nat /\ i > 0
  BY Joined
<1>4. \A i \in DOMAIN c :
        \/ i \in DOMAIN q /\ c[i] = q[i]
        \/ i - Len(q) \in DOMAIN r /\ c[i] = r[i - Len(q)]
  BY Joined
<1> SUFFICES ASSUME NEW i \in DOMAIN c, Stale(c[i], y)
             PROVE  \E j \in DOMAIN c : j > i /\ Ender(c[j], c[i].id)
  BY DEF Settled
<1>5. i \in DOMAIN q /\ c[i] = q[i]
  BY <1>4
<1>6. CASE Stale(q[i], x)
  <2>1. PICK j \in DOMAIN q : j > i /\ Ender(q[j], q[i].id)
    BY <1>5, <1>6 DEF Settled
  <2> QED
    BY <1>2, <1>5, <2>1
<1>7. CASE ~Stale(q[i], x)
  <2>1. q[i].id = x /\ x \notin {0, y}
    BY <1>5, <1>7 DEF Stale
  <2>2. PICK j \in DOMAIN r : Ender(r[j], x)
    BY <2>1 DEF Has
  <2>3. Len(q) + j \in DOMAIN c /\ c[Len(q) + j] = r[j]
    BY <1>3
  <2>4. Len(q) + j > i
    BY <1>1, <1>3, <1>5
  <2> QED
    BY <1>5, <2>1, <2>2, <2>3, <2>4
<1> QED
  BY <1>6, <1>7

LEMMA AheadIs ==
    ASSUME NEW h \in Seq(Message), NEW w \in Seq(Message)
    PROVE  /\ h \o w \in Seq(Message) /\ Len(h \o w) = Len(h) + Len(w)
           /\ Len(h) \in Nat /\ Len(w) \in Nat
           /\ \A i \in 1..Len(h) : (h \o w)[i] = h[i]
           /\ \A i \in 1..Len(w) : (h \o w)[Len(h) + i] = w[i]
           /\ \A i \in 1..(Len(h) + Len(w)) : i > Len(h) => (h \o w)[i] = w[i - Len(h)]
  BY ConcatProperties

\* The head of the wire is taken, and marks come off the rest.
LEMMA WireIsTaken ==
    ASSUME NEW h \in Seq(Message), NEW w \in Seq(Message), w # <<>>,
           NEW v \in Seq(Message), Kept(Tail(w), v)
    PROVE  Taken(h \o w, Len(h) + 1, h \o v) /\ (h \o w)[Len(h) + 1] = Head(w)
<1> DEFINE q == h \o w
           r == h \o v
<1>1. /\ Len(w) \in Nat /\ Len(w) > 0 /\ Head(w) = w[1]
      /\ Len(Tail(w)) = Len(w) - 1 /\ \A i \in 1..(Len(w) - 1) : Tail(w)[i] = w[i + 1]
  OBVIOUS
<1>2. Len(v) = Len(w) - 1 /\ \A i \in 1..(Len(w) - 1) : Eased(v[i], w[i + 1])
  BY <1>1 DEF Kept
<1>3. /\ q \in Seq(Message) /\ Len(q) = Len(h) + Len(w) /\ Len(h) \in Nat
      /\ \A i \in 1..Len(h) : q[i] = h[i]
      /\ \A i \in 1..Len(w) : q[Len(h) + i] = w[i]
  BY AheadIs
<1>4. /\ Len(r) = Len(h) + Len(v) /\ r \in Seq(Message)
      /\ \A i \in 1..Len(h) : r[i] = h[i]
      /\ \A i \in 1..(Len(h) + Len(v)) : i > Len(h) => r[i] = v[i - Len(h)]
  BY AheadIs
<1> HIDE DEF q, r
<1>5. Len(h) + 1 \in 1..Len(q) /\ Len(r) = Len(q) - 1 /\ q[Len(h) + 1] = Head(w)
  BY <1>1, <1>2, <1>3, <1>4
<1>6. ASSUME NEW i \in 1..Len(r), i < Len(h) + 1
      PROVE  Eased(r[i], q[i])
  <2>1. i \in 1..Len(h)
    BY <1>3, <1>6
  <2> QED
    BY <2>1, <1>3, <1>4 DEF Eased
<1>7. ASSUME NEW i \in 1..Len(r), i >= Len(h) + 1
      PROVE  Eased(r[i], q[i + 1])
  <2>1. i - Len(h) \in 1..(Len(w) - 1) /\ (i - Len(h)) + 1 \in 1..Len(w)
        /\ Len(h) + ((i - Len(h)) + 1) = i + 1 /\ i > Len(h) /\ i \in 1..(Len(h) + Len(v))
    BY <1>1, <1>2, <1>3, <1>4, <1>7
  <2>2. r[i] = v[i - Len(h)]
    BY <1>4, <2>1
  <2>3. q[Len(h) + ((i - Len(h)) + 1)] = w[(i - Len(h)) + 1]
    BY <1>3, <2>1
  <2>4. q[i + 1] = w[(i - Len(h)) + 1]
    BY <2>1, <2>3
  <2> QED
    BY <1>2, <2>1, <2>2, <2>4
<1>8. Taken(q, Len(h) + 1, r)
  BY <1>5, <1>6, <1>7 DEF Taken
<1> QED
  BY <1>5, <1>8 DEF q, r

\* Marks come off the wire.
LEMMA WireIsKept ==
    ASSUME NEW h \in Seq(Message), NEW w \in Seq(Message), NEW v \in Seq(Message), Kept(w, v)
    PROVE  Kept(h \o w, h \o v)
<1> DEFINE q == h \o w
           r == h \o v
<1>1. /\ Len(q) = Len(h) + Len(w) /\ Len(r) = Len(h) + Len(w) /\ Len(h) \in Nat /\ Len(w) \in Nat
      /\ \A i \in 1..Len(h) : q[i] = h[i] /\ r[i] = h[i]
      /\ \A i \in 1..(Len(h) + Len(w)) : i > Len(h) => q[i] = w[i - Len(h)] /\ r[i] = v[i - Len(h)]
  <2>1. Len(v) = Len(w)
    BY DEF Kept
  <2>2. /\ Len(q) = Len(h) + Len(w) /\ Len(h) \in Nat /\ Len(w) \in Nat
        /\ \A i \in 1..Len(h) : q[i] = h[i]
        /\ \A i \in 1..(Len(h) + Len(w)) : i > Len(h) => q[i] = w[i - Len(h)]
    BY AheadIs
  <2>3. /\ Len(r) = Len(h) + Len(v)
        /\ \A i \in 1..Len(h) : r[i] = h[i]
        /\ \A i \in 1..(Len(h) + Len(v)) : i > Len(h) => r[i] = v[i - Len(h)]
    BY AheadIs
  <2> QED
    BY <2>1, <2>2, <2>3
<1> HIDE DEF q, r
<1>2. \A i \in 1..Len(w) : Eased(v[i], w[i])
  BY DEF Kept
<1>3. ASSUME NEW i \in 1..Len(q)
      PROVE  Eased(r[i], q[i])
  <2>1. CASE i <= Len(h)
    BY <1>1, <2>1 DEF Eased
  <2>2. CASE i > Len(h)
    <3>1. i - Len(h) \in 1..Len(w)
      BY <1>1, <2>2
    <3> QED
      BY <1>1, <1>2, <2>2, <3>1
  <2> QED
    BY <1>1, <2>1, <2>2
<1>4. Kept(q, r)
  BY <1>1, <1>3 DEF Kept
<1> QED
  BY <1>4 DEF q, r

LEMMA UnmarkingKeeps ==
    ASSUME NEW q \in Seq(Message)
    PROVE  /\ Kept(q, q) /\ Kept(q, Unmarked(q)) /\ Unmarked(q) \in Seq(Message)
           /\ \A i \in DOMAIN Unmarked(q) : ~Unmarked(q)[i].re
<1>1. /\ Unmarked(q) \in Seq(Message) /\ Len(Unmarked(q)) = Len(q)
      /\ DOMAIN Unmarked(q) = 1..Len(q)
      /\ \A i \in 1..Len(q) : q[i] \in Message /\ Unmarked(q)[i] = [q[i] EXCEPT !.re = FALSE]
  BY UnmarkedMessages
<1>2. \A m \in Message : /\ Eased([m EXCEPT !.re = FALSE], m)
                         /\ ~[m EXCEPT !.re = FALSE].re
  BY DEF Eased, Message
<1>3. Kept(q, q)
  BY DEF Kept, Eased
<1>4. Kept(q, Unmarked(q))
  BY <1>1, <1>2 DEF Kept
<1>5. ASSUME NEW i \in DOMAIN Unmarked(q)
      PROVE  ~Unmarked(q)[i].re
  <2>1. q[i] \in Message /\ Unmarked(q)[i] = [q[i] EXCEPT !.re = FALSE]
    BY <1>1
  <2> QED
    BY <2>1 DEF Message
<1> QED
  BY <1>1, <1>3, <1>4, <1>5

\* A message handed out is the first of those ahead.
LEMMA FirstIsTaken ==
    ASSUME NEW h \in Seq(Message), NEW w \in Seq(Message)
    PROVE  /\ h # <<>> => Taken(h \o w, 1, Tail(h) \o w) /\ (h \o w)[1] = Head(h)
           /\ h = <<>> /\ w # <<>> => Taken(h \o w, 1, h \o Tail(w)) /\ (h \o w)[1] = Head(w)
<1>1. ASSUME h # <<>>
      PROVE  Taken(h \o w, 1, Tail(h) \o w) /\ (h \o w)[1] = Head(h)
  <2> DEFINE t == Tail(h)
             q == h \o w
             r == t \o w
  <2>1. /\ t \in Seq(Message) /\ Len(t) = Len(h) - 1 /\ Len(h) \in Nat /\ Len(h) > 0 /\ Head(h) = h[1]
        /\ \A i \in 1..(Len(h) - 1) : t[i] = h[i + 1]
    BY <1>1
  <2> HIDE DEF t
  <2>2. /\ Len(q) = Len(h) + Len(w) /\ Len(w) \in Nat
        /\ \A i \in 1..Len(h) : q[i] = h[i]
        /\ \A i \in 1..(Len(h) + Len(w)) : i > Len(h) => q[i] = w[i - Len(h)]
    BY AheadIs
  <2>3. /\ Len(r) = Len(t) + Len(w)
        /\ \A i \in 1..Len(t) : r[i] = t[i]
        /\ \A i \in 1..(Len(t) + Len(w)) : i > Len(t) => r[i] = w[i - Len(t)]
    BY <2>1, AheadIs
  <2> HIDE DEF q, r
  <2>4. 1 \in 1..Len(q) /\ Len(r) = Len(q) - 1 /\ q[1] = Head(h)
    BY <2>1, <2>2, <2>3
  <2>5. ASSUME NEW i \in 1..Len(r)
        PROVE  r[i] = q[i + 1]
    <3>1. CASE i <= Len(t)
      BY <2>1, <2>2, <2>3, <3>1
    <3>2. CASE i > Len(t)
      <4>1. r[i] = w[i - Len(t)]
        BY <2>1, <2>2, <2>3, <3>2
      <4>2. q[i + 1] = w[(i + 1) - Len(h)]
        BY <2>1, <2>2, <2>3, <3>2
      <4>3. (i + 1) - Len(h) = i - Len(t)
        BY <2>1
      <4> QED
        BY <4>1, <4>2, <4>3
    <3> QED
      BY <2>1, <3>1, <3>2
  <2>6. Taken(q, 1, r)
    BY <2>4, <2>5 DEF Taken, Eased
  <2> QED
    BY <2>4, <2>6 DEF q, r, t
<1>2. ASSUME h = <<>>, w # <<>>
      PROVE  Taken(h \o w, 1, h \o Tail(w)) /\ (h \o w)[1] = Head(w)
  <2>0. Tail(w) \in Seq(Message)
    BY <1>2
  <2>1. Kept(Tail(w), Tail(w))
    BY <2>0, UnmarkingKeeps
  <2>2. Taken(h \o w, Len(h) + 1, h \o Tail(w)) /\ (h \o w)[Len(h) + 1] = Head(w)
    BY <1>2, <2>0, <2>1, WireIsTaken
  <2>3. Len(h) + 1 = 1
    BY <1>2
  <2> QED
    BY <2>2, <2>3
<1> QED
  BY <1>1, <1>2

\* A helper that keeps a message changes nothing of what is ahead.
LEMMA KeepingKeeps ==
    ASSUME NEW h \in Seq(Message), NEW w \in Seq(Message), w # <<>>
    PROVE  Append(h, Head(w)) \o Tail(w) = h \o w
<1> DEFINE a == Append(h, Head(w))
           t == Tail(w)
           q == h \o w
           r == a \o t
<1>1. /\ a \in Seq(Message) /\ Len(a) = Len(h) + 1 /\ Len(h) \in Nat
      /\ a[Len(h) + 1] = Head(w) /\ \A i \in 1..Len(h) : a[i] = h[i]
  OBVIOUS
<1>2. /\ t \in Seq(Message) /\ Len(t) = Len(w) - 1 /\ Len(w) \in Nat /\ Len(w) > 0 /\ Head(w) = w[1]
      /\ \A i \in 1..(Len(w) - 1) : t[i] = w[i + 1]
  OBVIOUS
<1> HIDE DEF a, t
<1>3. /\ q \in Seq(Message) /\ Len(q) = Len(h) + Len(w)
      /\ \A i \in 1..Len(h) : q[i] = h[i]
      /\ \A i \in 1..(Len(h) + Len(w)) : i > Len(h) => q[i] = w[i - Len(h)]
  BY AheadIs
<1>4. /\ r \in Seq(Message) /\ Len(r) = Len(a) + Len(t)
      /\ \A i \in 1..Len(a) : r[i] = a[i]
      /\ \A i \in 1..(Len(a) + Len(t)) : i > Len(a) => r[i] = t[i - Len(a)]
  BY <1>1, <1>2, AheadIs
<1> HIDE DEF q, r
<1>5. ASSUME NEW i \in 1..Len(q)
      PROVE  r[i] = q[i]
  <2>1. CASE i <= Len(h)
    BY <1>1, <1>3, <1>4, <2>1
  <2>2. CASE i = Len(h) + 1
    <3>1. i \in 1..Len(a) /\ i - Len(h) = 1 /\ i > Len(h)
      BY <1>1, <2>2
    <3>2. r[i] = Head(w)
      BY <1>1, <1>4, <2>2, <3>1
    <3>3. q[i] = w[1]
      BY <1>3, <3>1
    <3> QED
      BY <1>2, <3>2, <3>3
  <2>3. CASE i > Len(h) + 1
    <3>1. r[i] = t[i - Len(a)] /\ i - Len(a) \in 1..(Len(w) - 1)
      BY <1>1, <1>2, <1>3, <1>4, <2>3
    <3>2. t[i - Len(a)] = w[(i - Len(a)) + 1]
      BY <1>2, <3>1
    <3>3. q[i] = w[i - Len(h)] /\ (i - Len(a)) + 1 = i - Len(h)
      BY <1>1, <1>2, <1>3, <2>3
    <3> QED
      BY <3>1, <3>2, <3>3
  <2> QED
    BY <1>1, <2>1, <2>2, <2>3
<1>6. Len(q) = Len(r)
  BY <1>1, <1>2, <1>3, <1>4
<1>7. q = r
  BY <1>3, <1>4, <1>5, <1>6, SeqEqual
<1> QED
  BY <1>7 DEF q, r, a, t

-------------------------------------------------------------------------------
(* The steps by what they do to the load, the requests and the messages *)

Loop == {"drain", "check", "receive", "poll"}

\* The thread stays where it is, goes on in its loop, or leaves it.
IdleStep ==
    /\ UNCHANGED <<held, wire, calls, tv, link, jammed>>
    /\ thread'.msid = thread.msid /\ thread'.url = thread.url
    /\ thread'.accepted = thread.accepted /\ thread'.reused = thread.reused
    /\ thread'.over = thread.over /\ thread'.wait = thread.wait
    /\ session'.ours => session.ours
    /\ \/ thread'.at = thread.at /\ thread'.got = thread.got
       \/ thread.at \in Loop /\ thread'.at \in Loop \cup {"ending", "announce", "gone"}
       \/ thread'.at = "gone"

\* The thread asks c and waits for its answer.
AskStep(c, kind) ==
    /\ UNCHANGED <<session, held, wire, tv, link, jammed>>
    /\ calls' = Sent(c) /\ c.re
    /\ thread.wait = "none" /\ thread'.at = "wait" /\ thread'.wait = kind
    /\ thread'.msid = thread.msid /\ thread'.accepted = thread.accepted
    /\ thread'.over = thread.over
    /\ \/ /\ kind = "first" /\ thread.at = "setup" /\ c.op = "load"
          /\ thread'.url = thread.url /\ thread'.reused = thread.reused
          /\ c.url = thread'.url
       \/ /\ kind = "load" /\ thread.at = "drain" /\ c.op = "load"
          /\ thread'.url \in {thread.url, thread.url + 1}
          /\ thread'.reused = (thread'.url = thread.url)
          /\ c.url = thread'.url
       \/ /\ kind \notin {"none", "first", "load"} /\ thread.at \in {"drain", "poll"}
          /\ c.op \notin {"load", "stop"} /\ c.url = 0
          /\ thread'.url = thread.url /\ thread'.reused = thread.reused

LEMMA ThreadTyped ==
    ASSUME ThreadInv
    PROVE  /\ thread \in Thread /\ thread.msid \in Nat /\ thread.url \in Nat
           /\ thread.got \in Message /\ thread.got.id \in Nat
           /\ thread.at \in Steps /\ thread.wait \in Waits
           /\ thread.wait # "none" <=> thread.at = "wait"
           /\ tv.media \in Nat /\ tv.last \in Nat /\ tv.url \in Nat
  BY DEF ThreadInv, TypeOK, WaitsAtWait, Thread, Tv, Message

LEMMA SetUpKind ==
    ASSUME ThreadInv, SetUp
    PROVE  IdleStep \/ \E c \in Request, kind \in Waits : AskStep(c, kind)
<1>1. thread \in Thread /\ thread.at = "setup" /\ thread.wait = "none" /\ thread.url \in Nat
  BY ThreadTyped DEF SetUp
<1>2. UNCHANGED <<session, held, wire, tv, link, jammed>>
  BY DEF SetUp, tvVars
<1>3. CASE link /\ Ask("first", Call("load", 0, thread.url))
  <2> DEFINE c == Call("load", 0, thread.url)
  <2>1. c \in Request /\ c.re /\ c.op = "load" /\ c.url = thread.url
    BY <1>1, Requests DEF Call
  <2>2. calls' = Sent(c) /\ thread' = [thread EXCEPT !.at = "wait", !.wait = "first"]
    BY <1>3 DEF Ask
  <2> HIDE DEF c
  <2>3. AskStep(c, "first")
    BY <1>1, <1>2, <2>1, <2>2 DEF AskStep, Thread
  <2>4. "first" \in Waits
    BY DEF Waits
  <2> QED
    BY <2>1, <2>3, <2>4
<1>4. CASE Go("gone") /\ UNCHANGED calls
  BY <1>1, <1>2, <1>4 DEF IdleStep, Go, Thread
<1> QED
  BY <1>3, <1>4 DEF SetUp

LEMMA DrainKind ==
    ASSUME ThreadInv, Drain
    PROVE  IdleStep \/ \E c \in Request, kind \in Waits : AskStep(c, kind)
<1>1. thread \in Thread /\ thread.at = "drain" /\ thread.wait = "none" /\ thread.url \in Nat
      /\ thread.msid \in Nat
  BY ThreadTyped DEF Drain
<1>2. UNCHANGED <<session, held, wire, tv, link, jammed>>
  BY DEF Drain, tvVars
<1>3. CASE thread' = [thread EXCEPT !.running = FALSE] /\ UNCHANGED calls
  BY <1>1, <1>2, <1>3 DEF IdleStep, Thread
<1>4. CASE \E url \in {thread.url, thread.url + 1} :
             /\ calls' = Sent(Call("load", 0, url))
             /\ thread' = [thread EXCEPT !.at = "wait", !.wait = "load",
                                         !.url = url, !.reused = (url = thread.url)]
  <2>1. PICK url \in {thread.url, thread.url + 1} :
             /\ calls' = Sent(Call("load", 0, url))
             /\ thread' = [thread EXCEPT !.at = "wait", !.wait = "load",
                                         !.url = url, !.reused = (url = thread.url)]
    BY <1>4
  <2> DEFINE c == Call("load", 0, url)
  <2>2. url \in Nat
    BY <1>1
  <2>3. c \in Request /\ c.re /\ c.op = "load" /\ c.url = url
    BY <2>2, Requests DEF Call
  <2>4. calls' = Sent(c)
    BY <2>1
  <2> HIDE DEF c
  <2>5. /\ thread'.at = "wait" /\ thread'.wait = "load" /\ thread'.msid = thread.msid
        /\ thread'.accepted = thread.accepted /\ thread'.over = thread.over
        /\ thread'.url = url /\ thread'.reused = (url = thread.url)
    BY <1>1, <2>1 DEF Thread
  <2>6. AskStep(c, "load")
    BY <1>1, <1>2, <2>1, <2>3, <2>4, <2>5 DEF AskStep
  <2>7. "load" \in Waits
    BY DEF Waits
  <2> QED
    BY <2>3, <2>6, <2>7
<1>5. ASSUME NEW o \in {"pause", "resume", "seek", "adjust"}, Ask(o, Call(o, thread.msid, 0))
      PROVE  \E c \in Request, kind \in Waits : AskStep(c, kind)
  <2> DEFINE c == Call(o, thread.msid, 0)
  <2>1. c \in Request /\ c.re /\ c.op = o /\ c.url = 0
    BY <1>1, Requests DEF Call
  <2>2. calls' = Sent(c) /\ thread' = [thread EXCEPT !.at = "wait", !.wait = o]
    BY <1>5 DEF Ask
  <2> HIDE DEF c
  <2>3. AskStep(c, o)
    BY <1>1, <1>2, <2>1, <2>2 DEF AskStep, Thread
  <2>4. o \in Waits
    BY DEF Waits
  <2> QED
    BY <2>1, <2>3, <2>4
<1>6. CASE UNCHANGED <<thread, calls>>
  BY <1>1, <1>2, <1>6 DEF IdleStep
<1> QED
  BY <1>3, <1>4, <1>5, <1>6 DEF Drain

LEMMA PollKind ==
    ASSUME ThreadInv, Poll
    PROVE  IdleStep \/ \E c \in Request, kind \in Waits : AskStep(c, kind)
<1>1. thread \in Thread /\ thread.at = "poll" /\ thread.wait = "none" /\ thread.msid \in Nat
  BY ThreadTyped DEF Poll
<1>2. UNCHANGED <<session, held, wire, tv, link, jammed>>
  BY DEF Poll, tvVars
<1>3. CASE Go("drain") /\ UNCHANGED calls
  BY <1>1, <1>2, <1>3 DEF IdleStep, Go, Thread, Loop
<1>4. CASE Ask("poll", Call("poll", thread.msid, 0))
  <2> DEFINE c == Call("poll", thread.msid, 0)
  <2>1. c \in Request /\ c.re /\ c.op = "poll" /\ c.url = 0
    BY <1>1, Requests DEF Call
  <2>2. calls' = Sent(c) /\ thread' = [thread EXCEPT !.at = "wait", !.wait = "poll"]
    BY <1>4 DEF Ask
  <2> HIDE DEF c
  <2>3. AskStep(c, "poll")
    BY <1>1, <1>2, <2>1, <2>2 DEF AskStep, Thread
  <2>4. "poll" \in Waits
    BY DEF Waits
  <2> QED
    BY <2>1, <2>3, <2>4
<1> QED
  BY <1>3, <1>4 DEF Poll

LEMMA IdleKinds ==
    ASSUME ThreadInv, Drained \/ Check \/ ReceiveNothing \/ Announce
    PROVE  IdleStep
<1>1. thread \in Thread
  BY ThreadTyped
<1>2. CASE Drained
  BY <1>1, <1>2 DEF Drained, Go, IdleStep, Loop, Thread, tvVars
<1>3. CASE Check
  BY <1>1, <1>3 DEF Check, Go, IdleStep, Loop, Thread, tvVars
<1>4. CASE Announce
  BY <1>1, <1>4 DEF Announce, Go, IdleStep, Loop, Thread, tvVars
<1>5. CASE ReceiveNothing
  <2>1. UNCHANGED <<held, wire, calls, tv, link, jammed>> /\ thread.at = "receive"
    BY <1>5 DEF ReceiveNothing, tvVars
  <2>2. session' \in {session, Update("Error")}
    BY <1>5 DEF ReceiveNothing
  <2>3. session'.ours = session.ours
    <3>1. "Error" \in States
      BY DEF States
    <3> QED
      BY <2>2, <3>1, Updates, Typed
  <2>4. \E at \in Loop \cup {"announce"} :
           \/ thread' = [thread EXCEPT !.at = at]
           \/ thread' = [thread EXCEPT !.errors = @ + 1, !.at = at]
    BY <1>5 DEF ReceiveNothing, Go, Loop
  <2>5. PICK at \in Loop \cup {"announce"} :
           \/ thread' = [thread EXCEPT !.at = at]
           \/ thread' = [thread EXCEPT !.errors = @ + 1, !.at = at]
    BY <2>4
  <2>6. /\ thread'.msid = thread.msid /\ thread'.url = thread.url
        /\ thread'.accepted = thread.accepted /\ thread'.reused = thread.reused
        /\ thread'.over = thread.over /\ thread'.wait = thread.wait
        /\ thread'.at = at
    BY <1>1, <2>5 DEF Thread
  <2> QED
    BY <2>1, <2>3, <2>6 DEF IdleStep, Loop
<1> QED
  BY <1>2, <1>3, <1>4, <1>5

LEMMA DaemonKinds ==
    ASSUME ThreadInv, (\E c \in Commands : Send(c)) \/ Tell \/ ResetSession \/ UNCHANGED vars
    PROVE  IdleStep
<1>1. CASE \E c \in Commands : Send(c)
  <2>1. UNCHANGED <<thread, held, wire, calls, tv, link, jammed>>
        /\ session' \in {Flipped("Playing", "Paused"), Flipped("Paused", "Playing"), session}
    BY <1>1 DEF Send, threadVars, tvVars
  <2>2. {"Playing", "Paused"} \subseteq States
    BY DEF States
  <2>3. session'.ours = session.ours
    BY <2>1, <2>2, Flips, Typed
  <2> QED
    BY <2>1, <2>3 DEF IdleStep
<1>2. CASE Tell
  BY <1>2 DEF Tell, IdleStep, threadVars, tvVars
<1>3. CASE ResetSession
  BY <1>3 DEF ResetSession, IdleStep, threadVars, tvVars
<1>4. CASE UNCHANGED vars
  BY <1>4 DEF vars, IdleStep, threadVars, tvVars
<1> QED
  BY <1>1, <1>2, <1>3, <1>4

\* The first status is taken for what it says.
GreetingStep ==
    /\ UNCHANGED <<held, wire, calls, tv, link, jammed>>
    /\ session'.ours = session.ours
    /\ thread.at = "greet" /\ thread'.at = "drain" /\ thread'.wait = thread.wait
    /\ thread'.msid = thread.got.id /\ thread'.accepted = (thread.got.id # 0)
    /\ thread'.url = thread.url /\ thread'.reused = thread.reused
    /\ thread'.over = thread.over

LEMMA GreetKind ==
    ASSUME ThreadInv, Greet
    PROVE  GreetingStep
<1>1. thread \in Thread /\ thread.at = "greet" /\ thread.got \in Message
  BY ThreadTyped DEF Greet
<1>2. UNCHANGED <<held, wire, calls, tv, link, jammed>>
  BY DEF Greet, tvVars
<1>3. session'.ours = session.ours
  BY <1>1, Publications, Typed DEF Greet
<1>4. thread' = [thread EXCEPT !.at = "drain", !.msid = thread.got.id,
                               !.accepted = thread.got.id # 0,
                               !.got = Bare("none", FALSE)]
  BY DEF Greet
<1> QED
  BY <1>1, <1>2, <1>3, <1>4 DEF GreetingStep, Thread

\* The loop takes the first message ahead, m.
TakesStep(m) ==
    /\ UNCHANGED <<calls, tv, link, jammed>>
    /\ Taken(Ahead, 1, Ahead') /\ Ahead[1] = m
    /\ \A i \in DOMAIN wire' : \E j \in DOMAIN wire : wire'[i] = wire[j]
    /\ session'.ours = session.ours
    /\ thread.at = "receive" /\ thread'.wait = thread.wait
    /\ thread'.url = thread.url /\ thread'.reused = thread.reused
    /\ thread'.accepted = thread.accepted
    /\ \/ /\ m.type = "status" /\ ~Ends(m, thread.msid)
          /\ thread'.at = "poll" /\ thread'.over = thread.over
          /\ thread'.msid = IF thread.msid = 0 THEN m.id ELSE thread.msid
       \/ /\ m.type = "status" /\ Ends(m, thread.msid)
          /\ thread'.at = "ending" /\ thread'.over = m.player
          /\ thread'.msid = IF thread.msid = 0 THEN m.id ELSE thread.msid
       \/ /\ m.type \in {"loadFailed", "error"}
          /\ thread'.at = "ending" /\ thread'.over = "Error"
          /\ thread'.msid = thread.msid
       \/ /\ thread'.at = "announce" /\ thread'.over = thread.over
          /\ thread'.msid = thread.msid
       \/ /\ m.type \notin {"status", "loadFailed", "error"}
          /\ thread'.at = "poll" /\ thread'.over = thread.over
          /\ thread'.msid = thread.msid

LEMMA HandledFields ==
    ASSUME ThreadInv, NEW m \in Message, Handled(m), thread.at = "receive"
    PROVE  /\ session'.ours = session.ours
           /\ thread'.wait = thread.wait
           /\ thread'.url = thread.url /\ thread'.reused = thread.reused
           /\ thread'.accepted = thread.accepted
           /\ \/ /\ m.type = "status" /\ ~Ends(m, thread.msid)
                 /\ thread'.at = "poll" /\ thread'.over = thread.over
                 /\ thread'.msid = IF thread.msid = 0 THEN m.id ELSE thread.msid
              \/ /\ m.type = "status" /\ Ends(m, thread.msid)
                 /\ thread'.at = "ending" /\ thread'.over = m.player
                 /\ thread'.msid = IF thread.msid = 0 THEN m.id ELSE thread.msid
              \/ /\ m.type \in {"loadFailed", "error"}
                 /\ thread'.at = "ending" /\ thread'.over = "Error"
                 /\ thread'.msid = thread.msid
              \/ /\ thread'.at = "announce" /\ thread'.over = thread.over
                 /\ thread'.msid = thread.msid
              \/ /\ m.type \notin {"status", "loadFailed", "error"}
                 /\ thread'.at = "poll" /\ thread'.over = thread.over
                 /\ thread'.msid = thread.msid
<1>1. thread \in Thread /\ session \in SessionType /\ "Error" \in States
  BY ThreadTyped, Typed DEF States
<1>2. Update("Error").ours = session.ours /\ Published(m, thread.msid).ours = session.ours
  BY <1>1, Updates, Publications
<1>3. CASE /\ m.type = "status" /\ ~Ends(m, thread.msid)
           /\ session' = Published(m, thread.msid)
           /\ thread' = [thread EXCEPT !.errors = 0, !.at = "poll",
                                       !.msid = IF @ = 0 THEN m.id ELSE @]
  BY <1>1, <1>2, <1>3 DEF Thread
<1>4. CASE /\ m.type = "status" /\ Ends(m, thread.msid)
           /\ session' = Published(m, thread.msid)
           /\ thread' = [thread EXCEPT !.errors = 0, !.at = "ending",
                                       !.msid = IF @ = 0 THEN m.id ELSE @,
                                       !.over = m.player]
  BY <1>1, <1>2, <1>4 DEF Thread
<1>5. CASE /\ m.type \in {"loadFailed", "error"}
           /\ session' = Update("Error")
           /\ thread' = [thread EXCEPT !.errors = 0, !.at = "ending", !.over = "Error"]
  BY <1>1, <1>2, <1>5 DEF Thread
<1>6. CASE /\ session' = Update("Error")
           /\ thread' = [thread EXCEPT !.errors = @ + 1, !.at = "announce"]
  BY <1>1, <1>2, <1>6 DEF Thread
<1>7. CASE /\ m.type \notin {"status", "loadFailed", "error"}
           /\ session' = session
           /\ \E n \in Nat : thread' = [thread EXCEPT !.errors = n, !.at = "poll"]
  BY <1>1, <1>7 DEF Thread
<1> QED
  BY <1>1, <1>3, <1>4, <1>5, <1>6, <1>7, HandledCases

LEMMA ReceiveKind ==
    ASSUME ThreadInv, Receive
    PROVE  \E m \in Message : TakesStep(m)
<1>1. thread.at = "receive" /\ UNCHANGED <<calls, tv, link, jammed>>
  BY DEF Receive, tvVars
<1>2. held \in Seq(Message) /\ wire \in Seq(Message)
  BY Typed
<1>3. CASE held # <<>> /\ Handled(Head(held)) /\ held' = Tail(held) /\ wire' = wire
  <2>1. Head(held) \in Message
    BY <1>2, <1>3
  <2>2. Taken(Ahead, 1, Ahead') /\ Ahead[1] = Head(held)
    BY <1>2, <1>3, FirstIsTaken DEF Ahead
  <2>3. \A i \in DOMAIN wire' : \E j \in DOMAIN wire : wire'[i] = wire[j]
    BY <1>3
  <2>4. TakesStep(Head(held))
    BY <1>1, <1>3, <2>1, <2>2, <2>3, HandledFields DEF TakesStep
  <2> QED
    BY <2>1, <2>4
<1>4. CASE held = <<>> /\ wire # <<>> /\ Handled(Head(wire)) /\ wire' = Tail(wire) /\ held' = held
  <2>1. Head(wire) \in Message
    BY <1>2, <1>4
  <2>2. Taken(Ahead, 1, Ahead') /\ Ahead[1] = Head(wire)
    BY <1>2, <1>4, FirstIsTaken DEF Ahead
  <2>3. \A i \in DOMAIN wire' : \E j \in DOMAIN wire : wire'[i] = wire[j]
    BY <1>2, <1>4
  <2>4. TakesStep(Head(wire))
    BY <1>1, <1>4, <2>1, <2>2, <2>3, HandledFields DEF TakesStep
  <2> QED
    BY <2>1, <2>4
<1> QED
  BY <1>3, <1>4 DEF Receive, Readable

-------------------------------------------------------------------------------
(* The waits *)

\* No mark is left, and what is left was there.
Demarked ==
    /\ \A i \in DOMAIN wire' : ~wire'[i].re /\ \E j \in DOMAIN wire : Eased(wire'[i], wire[j])
    /\ calls' = Unmarked(calls)

\* A helper takes m from the wire; the wait is over if it is the answer.
AnswerStep(m) ==
    /\ UNCHANGED <<tv, link, jammed>>
    /\ Taken(Ahead, Len(held) + 1, Ahead') /\ Ahead[Len(held) + 1] = m
    /\ \E i \in DOMAIN wire : wire[i] = m
    /\ Demarked
    /\ Answers(m)
    /\ session'.ours = session.ours
    /\ thread.at = "wait" /\ thread.wait # "none" /\ thread'.wait = "none"
    /\ thread'.url = thread.url /\ thread'.reused = thread.reused
    /\ \/ /\ thread.wait = "first" /\ thread'.at = "greet" /\ thread'.got = m
          /\ thread'.msid = thread.msid /\ thread'.accepted = thread.accepted
          /\ thread'.over = thread.over
       \/ /\ thread.wait = "load" /\ thread'.at = "drain"
          /\ thread'.msid = (IF m.id = 0 THEN thread.msid ELSE m.id)
          /\ thread'.accepted = (m.id # 0)
          /\ thread'.over = thread.over
       \/ /\ ~Loading /\ thread'.at = "drain"
          /\ thread'.msid = thread.msid /\ thread'.accepted = thread.accepted
          /\ thread'.over = thread.over
       \/ /\ ~Loading /\ Ends(m, thread.msid) /\ thread'.at = "ending"

\* A wait fails.
FailStep ==
    /\ UNCHANGED <<session, tv, link>>
    /\ Demarked
    /\ thread.at = "wait" /\ thread.wait # "none" /\ thread'.wait = "none"
    /\ thread'.url = thread.url /\ thread'.reused = thread.reused
    /\ thread'.msid = thread.msid /\ thread'.over = thread.over
    /\ thread'.accepted = (thread.accepted /\ ~Loading)
    /\ thread'.at = IF thread.wait = "first" THEN "gone" ELSE "drain"

LEMMA UnmarkedWire ==
    ASSUME NEW w \in Seq(Message), NEW u \in {w, Tail(w)}, u # w => w # <<>>
    PROVE  /\ u \in Seq(Message)
           /\ \A i \in DOMAIN Unmarked(u) :
                ~Unmarked(u)[i].re /\ \E j \in DOMAIN w : Eased(Unmarked(u)[i], w[j])
<1>1. u \in Seq(Message) /\ \A i \in DOMAIN u : \E j \in DOMAIN w : u[i] = w[j]
  <2>1. CASE u = w
    BY <2>1
  <2>2. CASE u # w
    <3>1. u = Tail(w) /\ w # <<>>
      BY <2>2
    <3> QED
      BY <3>1
  <2> QED
    BY <2>1, <2>2
<1>2. /\ Kept(u, Unmarked(u)) /\ Unmarked(u) \in Seq(Message)
      /\ \A i \in DOMAIN Unmarked(u) : ~Unmarked(u)[i].re
  BY <1>1, UnmarkingKeeps
<1>3. \A i \in DOMAIN Unmarked(u) : \E j \in DOMAIN u : Eased(Unmarked(u)[i], u[j])
  BY <1>1, <1>2, KeptIsSettled
<1>4. ASSUME NEW i \in DOMAIN Unmarked(u)
      PROVE  \E j \in DOMAIN w : Eased(Unmarked(u)[i], w[j])
  <2>1. PICK j \in DOMAIN u : Eased(Unmarked(u)[i], u[j])
    BY <1>3
  <2>2. PICK k \in DOMAIN w : u[j] = w[k]
    BY <1>1
  <2> QED
    BY <2>1, <2>2
<1> QED
  BY <1>1, <1>2, <1>4

LEMMA AcceptKind ==
    ASSUME ThreadInv, thread.at = "wait", wire # <<>>, Answers(Head(wire)), Accept(Head(wire)),
           UNCHANGED <<tv, link, jammed>>
    PROVE  AnswerStep(Head(wire)) /\ Head(wire) \in Message
<1> DEFINE m == Head(wire)
<1>1. m \in Message /\ held \in Seq(Message) /\ wire \in Seq(Message) /\ Tail(wire) \in Seq(Message)
      /\ 1 \in DOMAIN wire /\ wire[1] = m
  BY Typed
<1>2. wire' = Unmarked(Tail(wire)) /\ calls' = Unmarked(calls) /\ held' = held
  BY DEF Accept
<1>3. Taken(Ahead, Len(held) + 1, Ahead') /\ Ahead[Len(held) + 1] = m
  BY <1>1, <1>2, UnmarkingKeeps, WireIsTaken DEF Ahead
<1>4. Demarked
  BY <1>1, <1>2, UnmarkedWire DEF Demarked
<1>5. thread \in Thread /\ thread.wait # "none" /\ session \in SessionType
  BY ThreadTyped, Typed
<1>6. {"Buffering", "Paused", "Playing"} \subseteq States
  BY DEF States
<1>7. /\ Update("Buffering").ours = session.ours
      /\ Published(m, thread.msid).ours = session.ours
      /\ Flipped("Playing", "Paused").ours = session.ours
      /\ Flipped("Paused", "Playing").ours = session.ours
  BY <1>1, <1>5, <1>6, Updates, Publications, Flips
<1> HIDE DEF m
<1>8. Accept(m)
  BY DEF m
<1>9. /\ session'.ours = session.ours
      /\ thread'.wait = "none" /\ thread'.url = thread.url /\ thread'.reused = thread.reused
      /\ \/ /\ thread.wait = "first" /\ thread'.at = "greet" /\ thread'.got = m
            /\ thread'.msid = thread.msid /\ thread'.accepted = thread.accepted
            /\ thread'.over = thread.over
         \/ /\ thread.wait = "load" /\ thread'.at = "drain"
            /\ thread'.msid = (IF m.id = 0 THEN thread.msid ELSE m.id)
            /\ thread'.accepted = (m.id # 0)
            /\ thread'.over = thread.over
         \/ /\ ~Loading /\ thread'.at = "drain"
            /\ thread'.msid = thread.msid /\ thread'.accepted = thread.accepted
            /\ thread'.over = thread.over
         \/ /\ ~Loading /\ Ends(m, thread.msid) /\ thread'.at = "ending"
  <2>1. CASE /\ thread.wait = "first" /\ session' = session
             /\ thread' = [thread EXCEPT !.wait = "none", !.at = "greet", !.got = m]
    BY <1>5, <2>1 DEF Thread
  <2>2. CASE /\ thread.wait = "load" /\ session' = Update("Buffering")
             /\ thread' = [thread EXCEPT !.wait = "none", !.at = "drain",
                                         !.accepted = m.id # 0,
                                         !.msid = IF m.id = 0 THEN @ ELSE m.id]
    BY <1>5, <1>7, <2>2 DEF Thread
  <2>3. CASE /\ thread.wait = "poll" /\ session' = Published(m, thread.msid)
             /\ Ends(m, thread.msid)
             /\ thread' = [thread EXCEPT !.wait = "none", !.at = "ending", !.over = m.player]
    BY <1>5, <1>7, <2>3 DEF Thread, Loading
  <2>4. CASE /\ ~Loading
             /\ session' \in {Published(m, thread.msid), Flipped("Playing", "Paused"),
                              Flipped("Paused", "Playing"), session}
             /\ thread' = [thread EXCEPT !.wait = "none", !.at = "drain"]
    BY <1>5, <1>7, <2>4 DEF Thread
  <2> QED
    BY <1>1, <1>5, <1>8, <2>1, <2>2, <2>3, <2>4, AcceptCases DEF Loading
<1> QED
  BY <1>1, <1>3, <1>4, <1>5, <1>9 DEF AnswerStep, m

LEMMA AbandonKind ==
    ASSUME ThreadInv, thread.at = "wait", NEW rest \in {wire, Tail(wire)}, rest # wire => wire # <<>>,
           Abandon(rest), UNCHANGED <<tv, link>>
    PROVE  FailStep /\ held' = held /\ wire' = Unmarked(rest)
<1>1. wire \in Seq(Message) /\ thread \in Thread /\ thread.wait # "none"
  BY Typed, ThreadTyped
<1>2. Demarked
  BY <1>1, UnmarkedWire DEF Abandon, Demarked
<1>3. /\ UNCHANGED <<session, held>> /\ wire' = Unmarked(rest)
      /\ thread' = [thread EXCEPT
                      !.at = IF thread.wait = "first" THEN "gone" ELSE "drain",
                      !.accepted = @ /\ ~Loading,
                      !.wait = "none"]
  BY DEF Abandon
<1>4. /\ thread'.wait = "none" /\ thread'.url = thread.url /\ thread'.reused = thread.reused
      /\ thread'.msid = thread.msid /\ thread'.over = thread.over
      /\ thread'.accepted = (thread.accepted /\ ~Loading)
      /\ thread'.at = IF thread.wait = "first" THEN "gone" ELSE "drain"
  BY <1>1, <1>3 DEF Thread
<1> QED
  BY <1>1, <1>2, <1>3, <1>4 DEF FailStep

\* A refusal ends the wait; other messages are kept, or not if there are too many
\* about nothing.
RefuseStep(m) ==
    /\ FailStep /\ jammed' = jammed
    /\ Taken(Ahead, Len(held) + 1, Ahead') /\ Ahead[Len(held) + 1] = m
    /\ ~Answers(m) /\ Refuses(m)

GiveUpStep == FailStep /\ Kept(Ahead, Ahead') /\ (jammed' = jammed \/ jammed')

KeepStep(m) ==
    /\ UNCHANGED <<session, thread, calls, tv, link, jammed>>
    /\ \A i \in DOMAIN wire' : \E j \in DOMAIN wire : wire'[i] = wire[j]
    /\ \/ Ahead' = Ahead
       \/ /\ m.type = "other"
          /\ Taken(Ahead, Len(held) + 1, Ahead') /\ Ahead[Len(held) + 1] = m

LEMMA WaitReadKind ==
    ASSUME ThreadInv, WaitRead
    PROVE  \E m \in Message : AnswerStep(m) \/ RefuseStep(m) \/ KeepStep(m)
<1> DEFINE m == Head(wire)
<1>1. thread.at = "wait" /\ wire # <<>> /\ UNCHANGED <<tv, link, jammed>>
  BY DEF WaitRead, Readable, tvVars
<1>2. m \in Message /\ held \in Seq(Message) /\ wire \in Seq(Message) /\ Tail(wire) \in Seq(Message)
  BY <1>1, Typed
<1>3. CASE Answers(m) /\ Accept(m)
  BY <1>1, <1>3, AcceptKind
<1>4. CASE ~Answers(m) /\ Refuses(m) /\ Abandon(Tail(wire))
  <2>1. FailStep /\ held' = held /\ wire' = Unmarked(Tail(wire))
    BY <1>1, <1>4, AbandonKind
  <2>2. Taken(Ahead, Len(held) + 1, Ahead') /\ Ahead[Len(held) + 1] = m
    BY <1>1, <1>2, <2>1, UnmarkingKeeps, WireIsTaken DEF Ahead
  <2> QED
    BY <1>1, <1>2, <1>4, <2>1, <2>2 DEF RefuseStep
<1>5. CASE /\ held' = IF m.type = "other" /\ Len(held) >= MaxWire
                      THEN held ELSE Append(held, m)
           /\ wire' = Tail(wire)
           /\ UNCHANGED <<session, thread, calls>>
  <2>1. \A i \in DOMAIN wire' : \E j \in DOMAIN wire : wire'[i] = wire[j]
    BY <1>1, <1>2, <1>5
  <2>2. CASE held' = Append(held, m)
    <3>1. Ahead' = Ahead
      BY <1>1, <1>2, <1>5, <2>2, KeepingKeeps DEF Ahead
    <3> QED
      BY <1>1, <1>2, <1>5, <2>1, <3>1 DEF KeepStep
  <2>3. CASE held' = held /\ m.type = "other"
    <3>1. Kept(Tail(wire), Tail(wire))
      BY <1>2, UnmarkingKeeps
    <3>2. Taken(Ahead, Len(held) + 1, Ahead') /\ Ahead[Len(held) + 1] = m
      BY <1>1, <1>2, <1>5, <2>3, <3>1, WireIsTaken DEF Ahead
    <3> QED
      BY <1>1, <1>2, <1>5, <2>1, <2>3, <3>2 DEF KeepStep
  <2> QED
    BY <1>5, <2>2, <2>3
<1> QED
  BY <1>2, <1>3, <1>4, <1>5 DEF WaitRead

LEMMA WaitFailsKind ==
    ASSUME ThreadInv, WaitJams \/ WaitEnds
    PROVE  GiveUpStep
<1>1. /\ thread.at = "wait" /\ Abandon(wire) /\ UNCHANGED <<tv, link>>
      /\ jammed' = jammed \/ jammed'
  BY DEF WaitJams, WaitEnds, tvVars
<1>2. FailStep /\ held' = held /\ wire' = Unmarked(wire)
  BY <1>1, AbandonKind
<1>3. Kept(Ahead, Ahead')
  <2>1. Kept(wire, Unmarked(wire)) /\ Unmarked(wire) \in Seq(Message)
    BY Typed, UnmarkingKeeps
  <2> QED
    BY <1>2, <2>1, Typed, WireIsKept DEF Ahead
<1> QED
  BY <1>1, <1>2, <1>3 DEF GiveUpStep

-------------------------------------------------------------------------------
(* The receiver's steps by what they say *)

ArriveStep(r) ==
    /\ UNCHANGED <<session, thread, held, jammed>>
    /\ r \in Seq(Message) /\ wire' = wire \o r /\ Ahead' = Ahead \o r

LEMMA Arrives ==
    ASSUME ThreadInv, UNCHANGED <<session, thread, held, jammed>>, NEW r \in Seq(Message),
           wire' = wire \o r
    PROVE  ArriveStep(r)
  BY Typed, ConcatAssociative DEF ArriveStep, Ahead

LEMMA FarewellEnds ==
    ASSUME ThreadInv, NEW how \in Overs
    PROVE  /\ Farewell(how) \in Seq(Message)
           /\ \A i \in DOMAIN Farewell(how) :
                tv.media # 0 /\ Farewell(how)[i] = Status(tv.media, tv.url, how, FALSE)
           /\ tv.media # 0 => Has(Farewell(how), tv.media)
<1>1. Farewell(how) \in Seq(Message)
  BY Farewells
<1>2. CASE tv.media = 0
  BY <1>1, <1>2, Farewells
<1>3. CASE tv.media # 0
  <2> DEFINE m == Status(tv.media, tv.url, how, FALSE)
  <2>1. Farewell(how) = <<m>>
    BY <1>3, Farewells
  <2>2. m.player = how /\ m.id = tv.media
    BY DEF Status
  <2>3. Ender(m, tv.media)
    BY <2>2 DEF Ender, Overs
  <2> HIDE DEF m
  <2>4. DOMAIN Farewell(how) = {1} /\ Farewell(how)[1] = m
    BY <2>1
  <2>5. Has(Farewell(how), tv.media)
    BY <2>3, <2>4 DEF Has
  <2> QED
    BY <1>1, <1>3, <2>4, <2>5 DEF m
<1> QED
  BY <1>2, <1>3

LEMMA FarewellAndMore ==
    ASSUME ThreadInv, NEW how \in Overs, NEW m \in Message
    PROVE  /\ Append(Farewell(how), m) \in Seq(Message)
           /\ \A i \in DOMAIN Append(Farewell(how), m) :
                \/ Append(Farewell(how), m)[i] = m
                \/ /\ tv.media # 0
                   /\ Append(Farewell(how), m)[i] = Status(tv.media, tv.url, how, FALSE)
           /\ tv.media # 0 => Has(Append(Farewell(how), m), tv.media)
<1> DEFINE f == Farewell(how)
           r == Append(f, m)
           s == Status(tv.media, tv.url, how, FALSE)
<1>1. /\ f \in Seq(Message) /\ \A i \in DOMAIN f : tv.media # 0 /\ f[i] = s
      /\ tv.media # 0 => Has(f, tv.media)
  BY FarewellEnds
<1> HIDE DEF f, s
<1>2. /\ r \in Seq(Message) /\ DOMAIN r = 1..(Len(f) + 1) /\ DOMAIN f = 1..Len(f) /\ Len(f) \in Nat
      /\ r[Len(f) + 1] = m /\ \A i \in 1..Len(f) : r[i] = f[i]
  BY <1>1
<1> HIDE DEF r
<1>3. \A i \in DOMAIN r : r[i] = m \/ (tv.media # 0 /\ r[i] = s)
  BY <1>1, <1>2
<1>4. tv.media # 0 => Has(r, tv.media)
  BY <1>1, <1>2 DEF Has
<1> QED
  BY <1>2, <1>3, <1>4 DEF r, f, s

\* A load c is taken; m is the answer.
LoadedStep(c, m, r) ==
    /\ ArriveStep(r) /\ link' = link
    /\ calls # <<>> /\ c = Head(calls) /\ c.op = "load" /\ calls' = Tail(calls)
    /\ \A i \in DOMAIN r :
         r[i] = m \/ (tv.media # 0 /\ r[i] = Status(tv.media, tv.url, "Interrupted", FALSE))
    /\ tv.media # 0 => Has(r, tv.media)
    /\ \/ /\ tv'.media = tv.last + 1 /\ tv'.last = tv.last + 1 /\ tv'.url = c.url
          /\ m \in {Status(tv.last + 1, c.url, "Buffering", c.re),
                    Status(tv.last + 1, c.url, "Buffering", FALSE),
                    Bare("status", c.re)}
       \/ /\ tv'.media = 0 /\ tv'.last = tv.last /\ tv'.url = tv.url
          /\ m = Bare("loadFailed", c.re)

LEMMA TvLoadsKind ==
    ASSUME ThreadInv, TvLoads
    PROVE  \E c \in Request, m \in Message, r \in Seq(Message) : LoadedStep(c, m, r)
<1>1. PICK c \in Request, m \in Message :
             /\ c = Head(calls) /\ calls # <<>> /\ c.op = "load" /\ link
             /\ wire' = wire \o Append(Farewell("Interrupted"), m)
             /\ \/ /\ tv' = [app |-> TRUE, media |-> tv.last + 1, url |-> c.url,
                             player |-> "Buffering", last |-> tv.last + 1]
                   /\ m \in {Status(tv.last + 1, c.url, "Buffering", c.re),
                             Status(tv.last + 1, c.url, "Buffering", FALSE),
                             Bare("status", c.re)}
                \/ /\ tv' = [tv EXCEPT !.app = TRUE, !.media = 0, !.player = "none"]
                   /\ m = Bare("loadFailed", c.re)
  BY TvLoadsCases
<1> DEFINE r == Append(Farewell("Interrupted"), m)
<1>2. "Interrupted" \in Overs
  BY DEF Overs
<1>3. /\ r \in Seq(Message)
      /\ \A i \in DOMAIN r :
           r[i] = m \/ (tv.media # 0 /\ r[i] = Status(tv.media, tv.url, "Interrupted", FALSE))
      /\ tv.media # 0 => Has(r, tv.media)
  BY <1>2, FarewellAndMore
<1>4. wire' = wire \o r
  BY <1>1
<1> HIDE DEF r
<1>5. /\ UNCHANGED <<session, thread, held, jammed, link>> /\ calls' = Tail(calls)
  BY DEF TvLoads, threadVars
<1>6. ArriveStep(r)
  BY <1>3, <1>4, <1>5, Arrives
<1>7. \/ /\ tv'.media = tv.last + 1 /\ tv'.last = tv.last + 1 /\ tv'.url = c.url
         /\ m \in {Status(tv.last + 1, c.url, "Buffering", c.re),
                   Status(tv.last + 1, c.url, "Buffering", FALSE),
                   Bare("status", c.re)}
      \/ /\ tv'.media = 0 /\ tv'.last = tv.last /\ tv'.url = tv.url
         /\ m = Bare("loadFailed", c.re)
  <2>1. CASE /\ tv' = [app |-> TRUE, media |-> tv.last + 1, url |-> c.url,
                       player |-> "Buffering", last |-> tv.last + 1]
             /\ m \in {Status(tv.last + 1, c.url, "Buffering", c.re),
                       Status(tv.last + 1, c.url, "Buffering", FALSE),
                       Bare("status", c.re)}
    <3>1. tv'.media = tv.last + 1 /\ tv'.last = tv.last + 1 /\ tv'.url = c.url
      BY <2>1
    <3> QED
      BY <2>1, <3>1
  <2>2. CASE /\ tv' = [tv EXCEPT !.app = TRUE, !.media = 0, !.player = "none"]
             /\ m = Bare("loadFailed", c.re)
    <3>1. tv'.media = 0 /\ tv'.last = tv.last /\ tv'.url = tv.url
      BY <2>2, Typed DEF Tv
    <3> QED
      BY <2>2, <3>1
  <2> QED
    BY <1>1, <2>1, <2>2
<1>8. LoadedStep(c, m, r)
  BY <1>1, <1>3, <1>5, <1>6, <1>7 DEF LoadedStep
<1> QED
  BY <1>3, <1>8

\* The receiver says r, a word about what plays or about nothing, to a request
\* or unasked; no load begins.
SaidStep(r) ==
    /\ ArriveStep(r) /\ link' = link
    /\ calls' = calls \/ (calls # <<>> /\ calls' = Tail(calls) /\ Head(calls).op \notin {"load", "stop"})
    /\ tv'.media = tv.media /\ tv'.last = tv.last /\ tv'.url = tv.url
    /\ \A i \in DOMAIN r :
         /\ r[i].id \in {0, tv.media} /\ r[i].player \notin Overs
         /\ r[i].id # 0 => r[i].url = tv.url
         /\ r[i].url \in {0, tv.url}
         /\ r[i].re => calls # <<>> /\ calls' = Tail(calls) /\ Head(calls).re

LEMMA SaidOnce ==
    ASSUME ThreadInv, UNCHANGED <<session, thread, held, jammed, link>>, NEW m \in Message,
           wire' = wire \o <<m>>,
           \/ calls' = calls
           \/ calls # <<>> /\ calls' = Tail(calls) /\ Head(calls).op \notin {"load", "stop"},
           tv'.media = tv.media, tv'.last = tv.last, tv'.url = tv.url,
           m.id \in {0, tv.media} /\ m.player \notin Overs,
           m.id # 0 => m.url = tv.url, m.url \in {0, tv.url},
           m.re => calls # <<>> /\ calls' = Tail(calls) /\ Head(calls).re
    PROVE  \E r \in Seq(Message) : SaidStep(r)
<1> DEFINE r == <<m>>
<1>1. r \in Seq(Message) /\ DOMAIN r = {1} /\ r[1] = m
  OBVIOUS
<1> HIDE DEF r
<1>2. ArriveStep(r)
  BY <1>1, Arrives DEF r
<1>3. \A i \in DOMAIN r : r[i] = m
  BY <1>1
<1>4. SaidStep(r)
  BY <1>2, <1>3 DEF SaidStep
<1> QED
  BY <1>1, <1>4

LEMMA BareFields ==
    ASSUME NEW type, NEW re
    PROVE  /\ Bare(type, re).type = type /\ Bare(type, re).id = 0 /\ Bare(type, re).url = 0
           /\ Bare(type, re).player = "none" /\ Bare(type, re).re = re
  BY DEF Bare, Status

LEMMA StatusFields ==
    ASSUME NEW id, NEW url, NEW player, NEW re
    PROVE  /\ Status(id, url, player, re).type = "status" /\ Status(id, url, player, re).id = id
           /\ Status(id, url, player, re).url = url /\ Status(id, url, player, re).player = player
           /\ Status(id, url, player, re).re = re
  BY DEF Status

LEMMA TvAnswersKind ==
    ASSUME ThreadInv, TvAnswers
    PROVE  \E r \in Seq(Message) : SaidStep(r)
<1>1. PICK c \in Request, m \in Message :
             /\ c = Head(calls) /\ calls # <<>> /\ c.op \notin {"load", "stop"} /\ link
             /\ wire' = wire \o <<m>>
             /\ \/ /\ c.id = tv.media
                   /\ \E player \in Players \cup {"none"} :
                        /\ tv' = [tv EXCEPT !.player = player]
                        /\ m = Status(tv.media, tv.url, player, c.re)
                \/ /\ c.id # tv.media /\ tv' = tv
                   /\ m \in {Bare("status", c.re), Bare("invalid", c.re)}
  BY TvAnswersCases
<1>2. /\ UNCHANGED <<session, thread, held, jammed, link>> /\ calls' = Tail(calls)
  BY DEF TvAnswers, threadVars
<1>3. tv'.media = tv.media /\ tv'.last = tv.last /\ tv'.url = tv.url
  BY <1>1, Typed DEF Tv
<1>4. /\ m.id \in {0, tv.media} /\ m.player \notin Overs
      /\ m.id # 0 => m.url = tv.url
      /\ m.url \in {0, tv.url} /\ m.re = c.re
  <2>1. CASE \E player \in Players \cup {"none"} : m = Status(tv.media, tv.url, player, c.re)
    BY <2>1, StatusFields DEF Players, Overs
  <2>2. CASE m \in {Bare("status", c.re), Bare("invalid", c.re)}
    BY <2>2, BareFields DEF Overs
  <2> QED
    BY <1>1, <2>1, <2>2
<1> QED
  BY <1>1, <1>2, <1>3, <1>4, SaidOnce

LEMMA TvReportsKind ==
    ASSUME ThreadInv, TvReports
    PROVE  \E r \in Seq(Message) : SaidStep(r)
<1>1. UNCHANGED <<session, thread, held, jammed, calls, link>>
  BY DEF TvReports, threadVars
<1>2. PICK player \in Reported :
         /\ tv' = [tv EXCEPT !.player = player]
         /\ wire' = wire \o <<Status(tv.media, tv.url, player, FALSE)>>
  BY DEF TvReports, Say
<1>3. player \in Players
  BY ReportedAssumption DEF Players
<1> DEFINE m == Status(tv.media, tv.url, player, FALSE)
<1>4. m \in Message
  BY <1>3, Messages, ThreadTyped
<1>5. m.id = tv.media /\ m.url = tv.url /\ m.player = player /\ m.re = FALSE
  BY DEF Status
<1>6. wire' = wire \o <<m>>
  BY <1>2
<1> HIDE DEF m
<1>7. tv'.media = tv.media /\ tv'.last = tv.last /\ tv'.url = tv.url
  BY <1>2, Typed DEF Tv
<1>8. player \notin Overs
  BY <1>3 DEF Players, Overs
<1> QED
  BY <1>1, <1>4, <1>5, <1>6, <1>7, <1>8, SaidOnce

LEMMA TvNoiseKind ==
    ASSUME ThreadInv, TvNoise
    PROVE  \E r \in Seq(Message) : SaidStep(r)
<1>1. UNCHANGED <<session, thread, held, jammed, calls, tv, link>>
  BY DEF TvNoise, threadVars, tvVars
<1>2. PICK type \in Noise :
         \/ wire' = wire \o <<Bare(type, FALSE)>>
         \/ wire = <<>> /\ wire' = <<Bare(type, FALSE)>>
  BY DEF TvNoise, Say
<1> DEFINE m == Bare(type, FALSE)
<1>3. m \in Message
  BY NoiseAssumption, Messages
<1>4. m.id = 0 /\ m.url = 0 /\ m.player = "none" /\ m.re = FALSE
  BY DEF Bare, Status
<1>5. wire' = wire \o <<m>> \/ (wire = <<>> /\ wire' = <<m>>)
  BY <1>2
<1> HIDE DEF m
<1>6. wire = <<>> => wire \o <<m>> = <<m>>
  BY <1>3, OneMessage, Typed, ConcatEmptySeq
<1>7. wire' = wire \o <<m>>
  BY <1>5, <1>6
<1>8. "none" \notin Overs
  BY DEF Overs
<1> QED
  BY <1>1, <1>3, <1>4, <1>7, <1>8, SaidOnce

\* What plays is over.
EndedStep(r) ==
    /\ ArriveStep(r) /\ UNCHANGED <<calls, link>>
    /\ tv'.media = 0 /\ tv'.last = tv.last /\ tv'.url = tv.url
    /\ tv.media # 0 /\ Has(r, tv.media)
    /\ \A i \in DOMAIN r :
         \/ r[i] = Bare("error", FALSE)
         \/ \E how \in Overs : r[i] = Status(tv.media, tv.url, how, FALSE)

LEMMA TvEndsKind ==
    ASSUME ThreadInv, TvEnds
    PROVE  \E r \in Seq(Message) : EndedStep(r)
<1>1. UNCHANGED <<session, thread, held, jammed, calls, link>> /\ tv.media # 0
  BY DEF TvEnds, threadVars
<1>2. PICK how \in Endings :
         \/ wire' = wire \o Farewell(how)
         \/ wire' = wire \o <<Bare("error", FALSE)>>
  BY DEF TvEnds, Say
<1>3. how \in Overs
  BY EndingsAssumption DEF Overs
<1>4. tv'.media = 0 /\ tv'.last = tv.last /\ tv'.url = tv.url
  BY Typed DEF Tv, TvEnds
<1>5. CASE wire' = wire \o Farewell(how)
  <2>1. /\ Farewell(how) \in Seq(Message) /\ Has(Farewell(how), tv.media)
        /\ \A i \in DOMAIN Farewell(how) : Farewell(how)[i] = Status(tv.media, tv.url, how, FALSE)
    BY <1>1, <1>3, FarewellEnds
  <2>2. ArriveStep(Farewell(how))
    BY <1>1, <1>5, <2>1, Arrives
  <2> QED
    BY <1>1, <1>3, <1>4, <2>1, <2>2 DEF EndedStep
<1>6. CASE wire' = wire \o <<Bare("error", FALSE)>>
  <2> DEFINE m == Bare("error", FALSE)
             r == <<m>>
  <2>1. m \in Message
    BY Messages
  <2>2. Ender(m, tv.media)
    BY BareFields DEF Ender
  <2> HIDE DEF m
  <2>3. r \in Seq(Message) /\ DOMAIN r = {1} /\ r[1] = m
    BY <2>1
  <2>4. wire' = wire \o r
    BY <1>6 DEF m
  <2> HIDE DEF r
  <2>5. ArriveStep(r)
    BY <1>1, <2>3, <2>4, Arrives
  <2>6. Has(r, tv.media)
    BY <2>2, <2>3 DEF Has
  <2>7. \A i \in DOMAIN r : r[i] = Bare("error", FALSE)
    BY <2>3 DEF m
  <2> QED
    BY <1>1, <1>4, <2>3, <2>5, <2>6, <2>7 DEF EndedStep
<1> QED
  BY <1>2, <1>5, <1>6

\* A stop is taken.
StoppedStep ==
    /\ ArriveStep(<<>>) /\ link' = link
    /\ calls # <<>> /\ Head(calls).op = "stop" /\ calls' = Tail(calls)
    /\ tv'.media = 0 /\ tv'.last = tv.last /\ tv'.url = tv.url

LEMMA TvStopsKind ==
    ASSUME ThreadInv, TvStops
    PROVE  StoppedStep
<1>1. /\ UNCHANGED <<session, thread, held, jammed, wire, link>>
      /\ calls # <<>> /\ Head(calls).op = "stop" /\ calls' = Tail(calls)
      /\ tv' = [tv EXCEPT !.app = FALSE, !.media = 0, !.player = "none"]
  BY DEF TvStops, threadVars
<1>2. tv'.media = 0 /\ tv'.last = tv.last /\ tv'.url = tv.url
  BY <1>1, Typed DEF Tv
<1>3. wire' = wire \o <<>>
  BY <1>1, Typed, ConcatEmptySeq
<1>4. ArriveStep(<<>>)
  <2>1. <<>> \in Seq(Message)
    OBVIOUS
  <2> QED
    BY <1>1, <1>3, <2>1, Arrives
<1> QED
  BY <1>1, <1>2, <1>4 DEF StoppedStep

\* The connection is lost, with all that was underway.
LostStep ==
    /\ UNCHANGED <<session, thread, held, jammed, tv>>
    /\ ~link' /\ wire' = <<>> /\ calls' = <<>>

\* The thread says goodbye to the receiver.
LeavingStep ==
    /\ UNCHANGED <<session, held, wire, tv, link, jammed>>
    /\ thread.at = "ending" /\ thread'.at \in {"announce", "gone"}
    /\ thread'.wait = thread.wait /\ thread'.over = thread.over
    /\ thread'.msid = thread.msid /\ thread'.url = thread.url
    /\ thread'.accepted = thread.accepted /\ thread'.reused = thread.reused
    /\ calls' = calls \/ calls' = Sent(Call("stop", thread.msid, 0))

LEMMA EndKinds ==
    ASSUME ThreadInv
    PROVE  /\ LinkDown => LostStep
           /\ Teardown => LeavingStep
<1>1. ASSUME LinkDown PROVE LostStep
  BY <1>1 DEF LinkDown, LostStep, threadVars
<1>2. ASSUME Teardown PROVE LeavingStep
  <2>1. thread \in Thread
    BY ThreadTyped
  <2>2. \E at \in {"announce", "gone"} : thread' = [thread EXCEPT !.at = at]
    BY <1>2 DEF Teardown, Go
  <2> QED
    BY <1>2, <2>1, <2>2 DEF Teardown, LeavingStep, Thread, tvVars
<1> QED
  BY <1>1, <1>2

\* Every step is of one of these kinds.
LEMMA StepKinds ==
    ASSUME ThreadInv, [Next]_vars
    PROVE  \/ IdleStep \/ GreetingStep \/ GiveUpStep \/ StoppedStep \/ LostStep \/ LeavingStep
           \/ \E c \in Request, kind \in Waits : AskStep(c, kind)
           \/ \E m \in Message : TakesStep(m) \/ AnswerStep(m) \/ RefuseStep(m) \/ KeepStep(m)
           \/ \E c \in Request, m \in Message, r \in Seq(Message) : LoadedStep(c, m, r)
           \/ \E r \in Seq(Message) : SaidStep(r) \/ EndedStep(r)
<1>1. CASE SetUp \/ Drain \/ Poll
  BY <1>1, SetUpKind, DrainKind, PollKind
<1>2. CASE Drained \/ Check \/ ReceiveNothing \/ Announce
  BY <1>2, IdleKinds
<1>3. CASE (\E c \in Commands : Send(c)) \/ Tell \/ ResetSession \/ UNCHANGED vars
  BY <1>3, DaemonKinds
<1>4. CASE Greet
  BY <1>4, GreetKind
<1>5. CASE Receive
  BY <1>5, ReceiveKind
<1>6. CASE WaitRead
  BY <1>6, WaitReadKind
<1>7. CASE WaitJams \/ WaitEnds
  BY <1>7, WaitFailsKind
<1>8. CASE Teardown \/ LinkDown
  BY <1>8, EndKinds
<1>9. CASE TvLoads
  BY <1>9, TvLoadsKind
<1>10. CASE TvAnswers \/ TvReports \/ TvNoise
  BY <1>10, TvAnswersKind, TvReportsKind, TvNoiseKind
<1>11. CASE TvStops
  BY <1>11, TvStopsKind
<1>12. CASE TvEnds
  BY <1>12, TvEndsKind
<1>13. CASE Terminated
  BY <1>13, DaemonKinds DEF Terminated
<1> QED
  BY <1>1, <1>2, <1>3, <1>4, <1>5, <1>6, <1>7, <1>8, <1>9, <1>10, <1>11, <1>12, <1>13
     DEF Next, ThreadStep, TvStep

-------------------------------------------------------------------------------
(* The end is underway *)

Out == {"announce", "gone"}

\* What plays is what was loaded last.
LatestMedia == tv.media \in {0, tv.last}

\* A status that says that media is over is of media that was there and is gone,
\* and is not the answer to anything.
EndsAreNews ==
    \A i \in DOMAIN Ahead :
       Ahead[i].player \in Overs =>
          /\ Ahead[i].type = "status" /\ ~Ahead[i].re
          /\ Ahead[i].id \in 1..tv.last /\ Ahead[i].id # tv.media

\* The receiver is asked to stop by a thread that has left its loop.
StopIsLast == thread.at \notin Out => \A i \in DOMAIN calls : calls[i].op # "stop"

\* If the receiver has left the media session id, the thread will hear of it.
Noticed(id) == id \notin {0, tv.media} => Has(Ahead, id)

EndsFollow ==
    thread.at \notin Out /\ link /\ ~jammed =>
       /\ Settled(Ahead, tv.media)
       /\ session.ours /\ thread.at # "ending" =>
             Noticed(thread.msid) /\ (thread.at = "greet" => Noticed(thread.got.id))

EndInv == ThreadInv /\ LatestMedia /\ EndsAreNews /\ StopIsLast /\ EndsFollow

LEMMA AheadTyped ==
    /\ ThreadInv => Ahead \in Seq(Message)
    /\ ThreadInv' => Ahead' \in Seq(Message)
  BY ConcatProperties DEF Ahead, ThreadInv, TypeOK

\* Messages that were there, and others that are news.
LEMMA NewsKept ==
    ASSUME EndInv, tv'.media \in {0, tv.media, tv.last + 1}, tv'.last \in Nat, tv'.last >= tv.last,
           \A i \in DOMAIN Ahead' :
              \/ \E j \in DOMAIN Ahead : Eased(Ahead'[i], Ahead[j])
              \/ Ahead'[i].player \in Overs =>
                    /\ Ahead'[i].type = "status" /\ ~Ahead'[i].re
                    /\ Ahead'[i].id \in 1..tv'.last /\ Ahead'[i].id # tv'.media
    PROVE  EndsAreNews'
<1>1. tv.media \in Nat /\ tv.last \in Nat
  BY ThreadTyped DEF EndInv
<1>2. ASSUME NEW i \in DOMAIN Ahead', NEW j \in DOMAIN Ahead, Eased(Ahead'[i], Ahead[j]),
             Ahead'[i].player \in Overs
      PROVE  /\ Ahead'[i].type = "status" /\ ~Ahead'[i].re
             /\ Ahead'[i].id \in 1..tv'.last /\ Ahead'[i].id # tv'.media
  <2>1. /\ Ahead[j].type = "status" /\ ~Ahead[j].re
        /\ Ahead[j].id \in 1..tv.last /\ Ahead[j].id # tv.media
    BY <1>2 DEF Eased, EndInv, EndsAreNews
  <2>2. Ahead'[i].type = "status" /\ Ahead'[i].id = Ahead[j].id /\ ~Ahead'[i].re
    BY <1>2, <2>1 DEF Eased
  <2> QED
    BY <1>1, <2>1, <2>2
<1> QED
  BY <1>2 DEF EndsAreNews

\* Requests that were there.
CallsLeft ==
    \A i \in DOMAIN calls' : \E j \in DOMAIN calls :
       calls'[i].op = calls[j].op /\ calls'[i].url = calls[j].url /\ (calls'[i].re => calls[j].re)

LEMMA FewerCalls ==
    ASSUME calls \in Seq(Request),
           \/ calls' \in {calls, Unmarked(calls), <<>>}
           \/ calls # <<>> /\ calls' = Tail(calls)
    PROVE  CallsLeft
<1>1. CASE calls' = calls
  BY <1>1 DEF CallsLeft
<1>2. CASE calls' = Unmarked(calls)
  <2>1. /\ Len(calls') = Len(calls) /\ calls' \in Seq(Request)
        /\ \A i \in 1..Len(calls) : calls[i] \in Request /\ calls'[i] = [calls[i] EXCEPT !.re = FALSE]
    BY <1>2, UnmarkedRequests
  <2>2. DOMAIN calls' = 1..Len(calls) /\ DOMAIN calls = 1..Len(calls)
    BY <2>1
  <2> QED
    BY <2>1, <2>2 DEF CallsLeft, Request
<1>3. CASE calls' = <<>>
  BY <1>3 DEF CallsLeft
<1>4. CASE calls # <<>> /\ calls' = Tail(calls)
  BY <1>4 DEF CallsLeft
<1> QED
  BY <1>1, <1>2, <1>3, <1>4

LEMMA AskedCalls ==
    ASSUME calls \in Seq(Request), NEW c \in Request
    PROVE  \A i \in DOMAIN Sent(c) :
              Sent(c)[i] = c \/ \E j \in DOMAIN calls : Sent(c)[i] = calls[j]
<1>1. /\ Sent(c) \in Seq(Request)
      /\ Len(Sent(c)) > 0
      /\ Sent(c)[Len(Sent(c))] = c
      /\ \E d \in {0, 1} : \A i \in 1..(Len(Sent(c)) - 1) :
            i + d \in DOMAIN calls /\ Sent(c)[i] = calls[i + d]
  BY SentIsLast
<1>2. DOMAIN Sent(c) = 1..Len(Sent(c)) /\ Len(Sent(c)) \in Nat
  BY <1>1
<1> QED
  BY <1>1, <1>2

LEMMA StopsKept ==
    ASSUME EndInv, CallsLeft, thread'.at \notin Out => thread.at \notin Out
    PROVE  StopIsLast'
  BY DEF EndInv, StopIsLast, CallsLeft

LEMMA IdleEnds ==
    ASSUME EndInv, ThreadInv', IdleStep
    PROVE  EndInv'
<1>1. /\ Ahead' = Ahead /\ tv' = tv /\ calls' = calls /\ link' = link /\ jammed' = jammed
      /\ thread'.msid = thread.msid /\ (session'.ours => session.ours)
  BY DEF IdleStep, Ahead
<1>2. /\ thread'.at \notin Out => thread.at \notin Out
      /\ thread'.at \notin Out /\ thread'.at # "ending" => thread.at # "ending"
      /\ thread'.at = "greet" => thread.at = "greet" /\ thread'.got = thread.got
  BY DEF IdleStep, Loop, Out
<1>3. LatestMedia' /\ EndsAreNews'
  BY <1>1 DEF EndInv, LatestMedia, EndsAreNews
<1>4. StopIsLast'
  BY <1>1, <1>2 DEF EndInv, StopIsLast
<1>5. ASSUME thread'.at \notin Out, link, ~jammed
      PROVE  Settled(Ahead, tv.media)
  BY <1>2, <1>5 DEF EndInv, EndsFollow
<1>6. ASSUME thread'.at \notin Out, link, ~jammed, session'.ours, thread'.at # "ending"
      PROVE  /\ Noticed(thread.msid)
             /\ thread'.at = "greet" => Noticed(thread'.got.id)
  <2>1. thread.at \notin Out /\ thread.at # "ending" /\ session.ours
    BY <1>1, <1>2, <1>6
  <2>2. Noticed(thread.msid) /\ (thread.at = "greet" => Noticed(thread.got.id))
    BY <1>6, <2>1 DEF EndInv, EndsFollow
  <2>3. thread'.at = "greet" => thread.at = "greet" /\ thread'.got.id = thread.got.id
    BY <1>2
  <2> QED
    BY <2>2, <2>3
<1>7. EndsFollow'
  BY <1>1, <1>5, <1>6 DEF EndsFollow, Noticed
<1> QED
  BY <1>3, <1>4, <1>7 DEF EndInv

LEMMA AskEnds ==
    ASSUME EndInv, ThreadInv', NEW c \in Request, NEW kind \in Waits, AskStep(c, kind)
    PROVE  EndInv'
<1>1. /\ Ahead' = Ahead /\ tv' = tv /\ link' = link /\ jammed' = jammed
      /\ thread'.msid = thread.msid /\ session' = session /\ calls' = Sent(c)
  BY DEF AskStep, Ahead
<1>2. thread.at \in {"setup", "drain", "poll"} /\ thread'.at = "wait" /\ c.op # "stop"
  BY DEF AskStep
<1>3. LatestMedia' /\ EndsAreNews'
  BY <1>1 DEF EndInv, LatestMedia, EndsAreNews
<1>4. StopIsLast'
  BY <1>1, <1>2, AskedCalls, Typed DEF EndInv, StopIsLast, Out
<1>5. EndsFollow'
  BY <1>1, <1>2 DEF EndInv, EndsFollow, Noticed, Out
<1> QED
  BY <1>3, <1>4, <1>5 DEF EndInv

LEMMA GreetingEnds ==
    ASSUME EndInv, ThreadInv', GreetingStep
    PROVE  EndInv'
<1>1. /\ Ahead' = Ahead /\ tv' = tv /\ calls' = calls /\ link' = link /\ jammed' = jammed
      /\ thread'.msid = thread.got.id /\ session'.ours = session.ours
      /\ thread.at = "greet" /\ thread'.at = "drain"
  BY DEF GreetingStep, Ahead
<1>2. LatestMedia' /\ EndsAreNews'
  BY <1>1 DEF EndInv, LatestMedia, EndsAreNews
<1>3. StopIsLast' /\ EndsFollow'
  BY <1>1 DEF EndInv, StopIsLast, EndsFollow, Noticed, Out
<1> QED
  BY <1>2, <1>3 DEF EndInv

\* The thread leaves, or the connection is gone.
LEMMA LeavingEnds ==
    ASSUME EndInv, ThreadInv', LeavingStep \/ LostStep
    PROVE  EndInv'
<1>1. CASE LeavingStep
  <2>1. Ahead' = Ahead /\ tv' = tv /\ thread'.at \in Out
    BY <1>1 DEF LeavingStep, Ahead, Out
  <2> QED
    BY <2>1 DEF EndInv, LatestMedia, EndsAreNews, StopIsLast, EndsFollow
<1>2. CASE LostStep
  <2>1. tv' = tv /\ ~link' /\ calls' = <<>> /\ held' = held /\ wire' = <<>>
    BY <1>2 DEF LostStep
  <2>2. \A i \in DOMAIN Ahead' : \E j \in DOMAIN Ahead : Ahead'[i] = Ahead[j]
    <3>1. held \in Seq(Message) /\ wire \in Seq(Message)
      BY Typed DEF EndInv
    <3>2. Ahead' = held
      BY <2>1, <3>1, ConcatEmptySeq DEF Ahead
    <3>3. /\ Ahead \in Seq(Message) /\ Len(Ahead) = Len(held) + Len(wire)
          /\ Len(held) \in Nat /\ Len(wire) \in Nat
          /\ \A i \in 1..Len(held) : Ahead[i] = held[i]
      BY <3>1, AheadIs DEF Ahead
    <3>4. DOMAIN held = 1..Len(held) /\ DOMAIN Ahead = 1..(Len(held) + Len(wire))
      BY <3>1, <3>3
    <3> QED
      BY <3>2, <3>3, <3>4
  <2>3. LatestMedia' /\ EndsAreNews'
    BY <2>1, <2>2 DEF EndInv, LatestMedia, EndsAreNews
  <2> QED
    BY <2>1, <2>3 DEF EndInv, StopIsLast, EndsFollow
<1> QED
  BY <1>1, <1>2

\* A message that is taken while the thread goes on ends nothing.
LEMMA TakesEnds ==
    ASSUME EndInv, ThreadInv', NEW m \in Message, TakesStep(m)
    PROVE  EndInv'
<1> DEFINE q == Ahead
           r == Ahead'
<1>1. q \in Seq(Message) /\ r \in Seq(Message) /\ Taken(q, 1, r) /\ q[1] = m /\ 1 \in DOMAIN q
  <2>1. q \in Seq(Message) /\ r \in Seq(Message)
    BY AheadTyped DEF EndInv
  <2>2. Taken(q, 1, r) /\ q[1] = m
    BY DEF TakesStep
  <2> QED
    BY <2>1, <2>2 DEF Taken
<1>2. /\ \A id : Has(q, id) /\ ~Ender(m, id) => Has(r, id)
      /\ \A x : Settled(q, x) => Settled(r, x)
      /\ \A x : Settled(q, x) /\ Stale(m, x) => Has(r, m.id)
      /\ \A i \in DOMAIN r : \E j \in DOMAIN q : Eased(r[i], q[j])
  BY <1>1, TakenIsSettled
<1>3. m.player \in Overs => m.type = "status"
  BY <1>1 DEF EndInv, EndsAreNews
<1>4. /\ UNCHANGED <<calls, tv, link, jammed>> /\ session'.ours = session.ours
      /\ thread.at = "receive"
  BY DEF TakesStep
<1>5. tv.media \in Nat /\ tv.last \in Nat /\ thread.msid \in Nat
  BY ThreadTyped DEF EndInv
<1> HIDE DEF q, r
<1>6. LatestMedia'
  BY <1>4 DEF EndInv, LatestMedia
<1>7. EndsAreNews'
  BY <1>2, <1>4, <1>5, NewsKept DEF q, r
<1>8. StopIsLast'
  BY <1>4 DEF EndInv, StopIsLast, Out
<1>9. ASSUME thread'.at \notin Out, link, ~jammed
      PROVE  Settled(r, tv.media)
  BY <1>2, <1>4, <1>9 DEF EndInv, EndsFollow, q, Out
<1>10. ASSUME thread'.at \notin Out, link, ~jammed, session.ours, thread'.at # "ending",
              thread'.msid \notin {0, tv.media}
       PROVE  Has(r, thread'.msid)
  <2>1. thread'.at = "poll"
    BY <1>10 DEF TakesStep, Out
  <2>2. /\ Settled(q, tv.media)
        /\ thread.msid \notin {0, tv.media} => Has(q, thread.msid)
    BY <1>4, <1>10 DEF EndInv, EndsFollow, Noticed, q, Out
  <2>3. CASE m.type = "status" /\ ~Ends(m, thread.msid) /\ thread.msid = 0 /\ thread'.msid = m.id
    <3>1. m.player \notin Overs
      BY <1>10, <2>3 DEF Ends, Overs
    <3>2. Stale(m, tv.media)
      BY <1>10, <2>3, <3>1 DEF Stale
    <3> QED
      BY <1>2, <2>1, <2>2, <2>3, <3>2
  <2>4. CASE m.type = "status" /\ ~Ends(m, thread.msid) /\ thread.msid # 0 /\ thread'.msid = thread.msid
    <3>1. ~Ender(m, thread.msid)
      BY <1>10, <2>4 DEF Ends, Ender
    <3> QED
      BY <1>2, <1>10, <2>1, <2>2, <2>4, <3>1
  <2>5. CASE m.type \notin {"status", "loadFailed", "error"} /\ thread'.msid = thread.msid
    <3>1. ~Ender(m, thread.msid)
      BY <1>3, <2>5 DEF Ender, Overs
    <3> QED
      BY <1>2, <1>10, <2>1, <2>2, <2>5, <3>1
  <2> QED
    BY <2>1, <2>3, <2>4, <2>5 DEF TakesStep
<1>11. thread'.at # "greet"
  BY DEF TakesStep
<1>12. EndsFollow'
  BY <1>4, <1>9, <1>10, <1>11 DEF EndsFollow, Noticed, r
<1> QED
  BY <1>6, <1>7, <1>8, <1>12 DEF EndInv

\* A helper takes a message that ends nothing.
LEMMA NoEnderTaken ==
    ASSUME EndInv, ThreadInv', tv' = tv, NEW m \in Message, NEW n, Taken(Ahead, n, Ahead'),
           Ahead[n] = m, \A id : ~Ender(m, id)
    PROVE  /\ LatestMedia' /\ EndsAreNews'
           /\ \A id : Has(Ahead, id) => Has(Ahead', id)
           /\ \A x : Settled(Ahead, x) => Settled(Ahead', x)
           /\ \A x : Settled(Ahead, x) /\ Stale(m, x) => Has(Ahead', m.id)
<1> DEFINE q == Ahead
           r == Ahead'
<1>1. q \in Seq(Message) /\ r \in Seq(Message) /\ Taken(q, n, r) /\ q[n] = m
  BY AheadTyped DEF EndInv
<1>2. tv.media \in Nat /\ tv.last \in Nat
  BY ThreadTyped DEF EndInv
<1> HIDE DEF q, r
<1>3. /\ \A id : Has(q, id) => Has(r, id)
      /\ \A x : Settled(q, x) => Settled(r, x)
      /\ \A x : Settled(q, x) /\ Stale(m, x) => Has(r, m.id)
      /\ \A i \in DOMAIN r : \E j \in DOMAIN q : Eased(r[i], q[j])
  BY <1>1, TakenIsSettled
<1>4. EndsAreNews'
  BY <1>2, <1>3, NewsKept DEF q, r
<1>5. LatestMedia'
  BY DEF EndInv, LatestMedia
<1> QED
  BY <1>3, <1>4, <1>5 DEF q, r

\* What a helper takes for an answer, or for a refusal, ends nothing.
LEMMA AnswersEndNothing ==
    ASSUME EndInv, NEW m \in Message, NEW n \in DOMAIN Ahead, Ahead[n] = m,
           Answers(m) \/ Refuses(m) \/ m.type = "other"
    PROVE  \A id : ~Ender(m, id)
<1>1. m.player \in Overs => m.type = "status" /\ ~m.re
  BY DEF EndInv, EndsAreNews
<1>2. ASSUME m.type = "status", m.re \/ m.player \in Players
      PROVE  \A id : ~Ender(m, id)
  BY <1>1, <1>2 DEF Ender, Overs, Players
<1>3. ASSUME m.type # "status", m.type # "error", m.type = "loadFailed" => m.re
      PROVE  \A id : ~Ender(m, id)
  BY <1>1, <1>3 DEF Ender, Overs
<1>4. Answers(m) => m.type = "status" /\ (m.re \/ m.player \in Players)
  BY DEF Answers, LoadAnswer
<1>5. Refuses(m) => m.type \in {"loadFailed", "invalid", "odd"} /\ (m.type = "loadFailed" => m.re)
  BY DEF Refuses
<1> QED
  BY <1>2, <1>3, <1>4, <1>5

LEMMA AnswerEnds ==
    ASSUME EndInv, ThreadInv', NEW m \in Message, AnswerStep(m)
    PROVE  EndInv'
<1>1. /\ tv' = tv /\ link' = link /\ jammed' = jammed /\ session'.ours = session.ours
      /\ calls' = Unmarked(calls) /\ thread.at = "wait"
      /\ Taken(Ahead, Len(held) + 1, Ahead') /\ Ahead[Len(held) + 1] = m /\ Answers(m)
  BY DEF AnswerStep, Demarked
<1>2. Len(held) + 1 \in DOMAIN Ahead
  BY <1>1, AheadTyped DEF EndInv, Taken
<1>3. \A id : ~Ender(m, id)
  BY <1>1, <1>2, AnswersEndNothing
<1>4. /\ LatestMedia' /\ EndsAreNews'
      /\ \A id : Has(Ahead, id) => Has(Ahead', id)
      /\ \A x : Settled(Ahead, x) => Settled(Ahead', x)
      /\ \A x : Settled(Ahead, x) /\ Stale(m, x) => Has(Ahead', m.id)
  BY <1>1, <1>3, NoEnderTaken
<1>5. m.player \notin Overs
  BY <1>3 DEF Ender, Overs, Answers, LoadAnswer, Players, EndInv, EndsAreNews
<1>6. StopIsLast'
  BY <1>1, FewerCalls, StopsKept, Typed DEF EndInv, Out
<1>7. ASSUME link, ~jammed
      PROVE  /\ Settled(Ahead, tv.media)
             /\ session.ours => Noticed(thread.msid)
             /\ m.id \notin {0, tv.media} => Has(Ahead', m.id)
  <2>1. /\ Settled(Ahead, tv.media)
        /\ session.ours => Noticed(thread.msid)
    BY <1>1, <1>7 DEF EndInv, EndsFollow, Out
  <2> QED
    BY <1>4, <1>5, <2>1 DEF Stale
<1>8. EndsFollow'
  <2>1. CASE thread'.at = "greet" /\ thread'.got = m /\ thread'.msid = thread.msid
    BY <1>1, <1>4, <1>7, <2>1 DEF EndsFollow, Noticed
  <2>2. CASE thread'.at = "drain" /\ thread'.msid \in {thread.msid, m.id}
    BY <1>1, <1>4, <1>7, <2>2 DEF EndsFollow, Noticed
  <2>3. CASE thread'.at = "ending"
    BY <1>1, <1>4, <1>7, <2>3 DEF EndsFollow
  <2> QED
    BY <2>1, <2>2, <2>3 DEF AnswerStep
<1> QED
  BY <1>4, <1>6, <1>8 DEF EndInv

LEMMA FailEnds ==
    ASSUME EndInv, ThreadInv',
           GiveUpStep \/ \E m \in Message : RefuseStep(m)
    PROVE  EndInv'
<1>1. FailStep /\ (jammed' = jammed \/ jammed')
  BY DEF GiveUpStep, RefuseStep
<1>2. /\ tv' = tv /\ link' = link /\ session' = session
      /\ calls' = Unmarked(calls) /\ thread.at = "wait" /\ thread'.at \in {"drain", "gone"}
      /\ thread'.msid = thread.msid
  BY <1>1 DEF FailStep, Demarked
<1>3. /\ LatestMedia' /\ EndsAreNews'
      /\ \A id : Has(Ahead, id) => Has(Ahead', id)
      /\ \A x : Settled(Ahead, x) => Settled(Ahead', x)
  <2>1. CASE GiveUpStep
    <3> DEFINE q == Ahead
               r == Ahead'
    <3>1. q \in Seq(Message) /\ r \in Seq(Message) /\ Kept(q, r)
      BY <2>1, AheadTyped DEF EndInv, GiveUpStep
    <3> HIDE DEF q, r
    <3>2. /\ \A id : Has(q, id) => Has(r, id)
          /\ \A x : Settled(q, x) => Settled(r, x)
          /\ \A i \in DOMAIN r : \E j \in DOMAIN q : Eased(r[i], q[j])
      BY <3>1, KeptIsSettled
    <3>3. tv.media \in Nat /\ tv.last \in Nat
      BY ThreadTyped DEF EndInv
    <3>4. EndsAreNews'
      BY <1>2, <3>2, <3>3, NewsKept DEF q, r
    <3>5. LatestMedia'
      BY <1>2 DEF EndInv, LatestMedia
    <3> QED
      BY <3>2, <3>4, <3>5 DEF q, r
  <2>2. CASE \E m \in Message : RefuseStep(m)
    <3>1. PICK m \in Message : RefuseStep(m)
      BY <2>2
    <3>2. Taken(Ahead, Len(held) + 1, Ahead') /\ Ahead[Len(held) + 1] = m /\ Refuses(m)
      BY <3>1 DEF RefuseStep
    <3>3. Len(held) + 1 \in DOMAIN Ahead
      BY <3>2, AheadTyped DEF EndInv, Taken
    <3>4. \A id : ~Ender(m, id)
      BY <3>2, <3>3, AnswersEndNothing
    <3> QED
      BY <1>2, <3>2, <3>4, NoEnderTaken
  <2> QED
    BY <2>1, <2>2
<1>4. StopIsLast'
  BY <1>2, FewerCalls, StopsKept, Typed DEF EndInv, Out
<1>5. EndsFollow'
  BY <1>1, <1>2, <1>3 DEF EndInv, EndsFollow, Noticed, Out
<1> QED
  BY <1>3, <1>4, <1>5 DEF EndInv

LEMMA KeepEnds ==
    ASSUME EndInv, ThreadInv', NEW m \in Message, KeepStep(m)
    PROVE  EndInv'
<1>1. UNCHANGED <<session, thread, calls, tv, link, jammed>>
  BY DEF KeepStep
<1>2. /\ LatestMedia' /\ EndsAreNews'
      /\ \A id : Has(Ahead, id) => Has(Ahead', id)
      /\ \A x : Settled(Ahead, x) => Settled(Ahead', x)
  <2>1. CASE Ahead' = Ahead
    BY <1>1, <2>1 DEF EndInv, LatestMedia, EndsAreNews
  <2>2. CASE /\ m.type = "other"
             /\ Taken(Ahead, Len(held) + 1, Ahead') /\ Ahead[Len(held) + 1] = m
    <3>1. Len(held) + 1 \in DOMAIN Ahead
      BY <2>2, AheadTyped DEF EndInv, Taken
    <3>2. \A id : ~Ender(m, id)
      BY <2>2, <3>1, AnswersEndNothing
    <3> QED
      BY <1>1, <2>2, <3>2, NoEnderTaken
  <2> QED
    BY <2>1, <2>2 DEF KeepStep
<1>3. StopIsLast'
  BY <1>1 DEF EndInv, StopIsLast
<1>4. EndsFollow'
  BY <1>1, <1>2 DEF EndInv, EndsFollow, Noticed
<1> QED
  BY <1>2, <1>3, <1>4 DEF EndInv

\* Messages r arrive.  The media that was there is there still, or its end is
\* among them.
LEMMA ArriveEnds ==
    ASSUME EndInv, ThreadInv', NEW r \in Seq(Message), ArriveStep(r), link' = link, CallsLeft,
           tv'.media \in {0, tv.media, tv.last + 1}, tv'.last >= tv.last, LatestMedia',
           tv.media \in {0, tv'.media} \/ Has(r, tv.media),
           \A i \in DOMAIN r : ~Stale(r[i], tv'.media),
           \A i \in DOMAIN r : r[i].player \in Overs =>
              /\ r[i].type = "status" /\ ~r[i].re
              /\ r[i].id \in 1..tv'.last /\ r[i].id # tv'.media
    PROVE  EndInv'
<1> DEFINE q == Ahead
           c == Ahead'
<1>1. q \in Seq(Message) /\ c \in Seq(Message) /\ c = q \o r /\ r \in Seq(Message)
  BY AheadTyped DEF EndInv, ArriveStep
<1>2. UNCHANGED <<session, thread, jammed>>
  BY DEF ArriveStep
<1>3. tv.media \in Nat /\ tv.last \in Nat /\ tv'.last \in Nat /\ tv'.media \in Nat
  <2>1. tv'.last \in Nat /\ tv'.media \in Nat
    BY DEF ThreadInv, TypeOK, Tv
  <2> QED
    BY <2>1, ThreadTyped DEF EndInv
<1> HIDE DEF q, c
<1>4. \A i \in DOMAIN c :
         (\E j \in DOMAIN q : c[i] = q[j]) \/ (\E j \in DOMAIN r : c[i] = r[j])
  BY <1>1, MoreIsThere
<1>5. EndsAreNews'
  <2>1. \A i \in DOMAIN c :
          \/ \E j \in DOMAIN q : Eased(c[i], q[j])
          \/ c[i].player \in Overs =>
                /\ c[i].type = "status" /\ ~c[i].re
                /\ c[i].id \in 1..tv'.last /\ c[i].id # tv'.media
    BY <1>4 DEF Eased
  <2> QED
    BY <1>3, <2>1, NewsKept DEF q, c
<1>6. StopIsLast'
  BY <1>2, StopsKept
<1>7. ASSUME thread.at \notin Out, link, ~jammed
      PROVE  Settled(c, tv'.media)
  <2>1. Settled(q, tv.media)
    BY <1>7 DEF EndInv, EndsFollow, q
  <2> QED
    BY <1>1, <2>1, MoreIsSettled
<1>8. ASSUME NEW id, Noticed(id), id \notin {0, tv'.media}
      PROVE  Has(c, id)
  <2>1. Has(q, id) \/ Has(r, id)
    BY <1>8 DEF Noticed, q
  <2> QED
    BY <1>1, <2>1, MoreEnds
<1>9. EndsFollow'
  BY <1>2, <1>7, <1>8 DEF EndInv, EndsFollow, Noticed, c
<1> QED
  BY <1>5, <1>6, <1>9 DEF EndInv

LEMMA LoadedEnds ==
    ASSUME EndInv, ThreadInv', NEW c \in Request, NEW m \in Message, NEW r \in Seq(Message),
           LoadedStep(c, m, r)
    PROVE  EndInv'
<1>1. tv.media \in Nat /\ tv.last \in Nat /\ tv.media \in {0, tv.last}
  BY ThreadTyped DEF EndInv, LatestMedia
<1>2. ArriveStep(r) /\ link' = link /\ CallsLeft
  BY FewerCalls, Typed DEF LoadedStep, EndInv
<1>3. /\ \/ tv'.media = tv.last + 1 /\ tv'.last = tv.last + 1
         \/ tv'.media = 0 /\ tv'.last = tv.last
      /\ tv.media # 0 => Has(r, tv.media)
  BY DEF LoadedStep
<1>4. m.id \in {0, tv'.media} /\ m.player \notin Overs
  <2>1. CASE m = Bare("status", c.re) \/ m = Bare("loadFailed", c.re)
    BY <2>1, BareFields DEF Overs
  <2>2. CASE /\ tv'.media = tv.last + 1
             /\ \E re \in BOOLEAN : m = Status(tv.last + 1, c.url, "Buffering", re)
    BY <2>2 DEF Status, Overs
  <2>3. c.re \in BOOLEAN
    BY DEF Request
  <2> QED
    BY <2>1, <2>2, <2>3 DEF LoadedStep
<1>5. ASSUME NEW i \in DOMAIN r
      PROVE  /\ ~Stale(r[i], tv'.media)
             /\ r[i].player \in Overs =>
                   /\ r[i].type = "status" /\ ~r[i].re
                   /\ r[i].id \in 1..tv'.last /\ r[i].id # tv'.media
  <2>1. CASE r[i] = m
    BY <1>4, <2>1 DEF Stale
  <2>2. CASE tv.media # 0 /\ r[i] = Status(tv.media, tv.url, "Interrupted", FALSE)
    <3>1. r[i].type = "status" /\ r[i].id = tv.media /\ r[i].player = "Interrupted" /\ ~r[i].re
      BY <2>2 DEF Status
    <3>2. ~Stale(r[i], tv'.media)
      BY <3>1 DEF Stale, Overs
    <3>3. tv.media \in 1..tv'.last /\ tv.media # tv'.media
      BY <1>1, <1>3, <2>2
    <3> QED
      BY <3>1, <3>2, <3>3
  <2> QED
    BY <2>1, <2>2 DEF LoadedStep
<1>6. /\ tv'.media \in {0, tv.media, tv.last + 1} /\ tv'.last >= tv.last /\ LatestMedia'
      /\ tv.media \in {0, tv'.media} \/ Has(r, tv.media)
  BY <1>1, <1>3 DEF LatestMedia
<1> QED
  BY <1>2, <1>5, <1>6, ArriveEnds

LEMMA SaidEnds ==
    ASSUME EndInv, ThreadInv', NEW r \in Seq(Message), SaidStep(r)
    PROVE  EndInv'
<1>1. tv.media \in Nat /\ tv.last \in Nat /\ tv.media \in {0, tv.last}
  BY ThreadTyped DEF EndInv, LatestMedia
<1>2. ArriveStep(r) /\ link' = link /\ CallsLeft
  BY FewerCalls, Typed DEF SaidStep, EndInv
<1>3. tv'.media = tv.media /\ tv'.last = tv.last
  BY DEF SaidStep
<1>4. \A i \in DOMAIN r : r[i].id \in {0, tv.media} /\ r[i].player \notin Overs
  BY DEF SaidStep
<1>5. \A i \in DOMAIN r : ~Stale(r[i], tv'.media)
  BY <1>3, <1>4 DEF Stale
<1>6. LatestMedia' /\ tv'.last >= tv.last /\ tv'.media \in {0, tv.media, tv.last + 1}
      /\ tv.media \in {0, tv'.media}
  BY <1>1, <1>3 DEF LatestMedia
<1> QED
  BY <1>2, <1>4, <1>5, <1>6, ArriveEnds

LEMMA EndedEnds ==
    ASSUME EndInv, ThreadInv', NEW r \in Seq(Message), EndedStep(r)
    PROVE  EndInv'
<1>1. tv.media \in Nat /\ tv.last \in Nat /\ tv.media \in {0, tv.last}
  BY ThreadTyped DEF EndInv, LatestMedia
<1>2. ArriveStep(r) /\ link' = link /\ CallsLeft
  BY FewerCalls, Typed DEF EndedStep, EndInv
<1>3. tv'.media = 0 /\ tv'.last = tv.last /\ Has(r, tv.media) /\ tv.media # 0
  BY DEF EndedStep
<1>4. ASSUME NEW i \in DOMAIN r
      PROVE  /\ ~Stale(r[i], tv'.media)
             /\ r[i].player \in Overs =>
                   /\ r[i].type = "status" /\ ~r[i].re
                   /\ r[i].id \in 1..tv'.last /\ r[i].id # tv'.media
  <2>1. CASE r[i] = Bare("error", FALSE)
    <3>1. r[i].id = 0 /\ r[i].player = "none"
      BY <2>1 DEF Bare, Status
    <3> QED
      BY <3>1 DEF Stale, Overs
  <2>2. CASE \E how \in Overs : r[i] = Status(tv.media, tv.url, how, FALSE)
    <3>1. r[i].type = "status" /\ r[i].id = tv.media /\ r[i].player \in Overs /\ ~r[i].re
      BY <2>2 DEF Status
    <3> QED
      BY <1>1, <1>3, <3>1 DEF Stale
  <2> QED
    BY <2>1, <2>2 DEF EndedStep
<1>5. LatestMedia' /\ tv'.last >= tv.last
  BY <1>1, <1>3 DEF LatestMedia
<1> QED
  BY <1>2, <1>3, <1>4, <1>5, ArriveEnds

\* No thread listens any more.
LEMMA StoppedEnds ==
    ASSUME EndInv, ThreadInv', StoppedStep
    PROVE  EndInv'
<1>1. /\ UNCHANGED <<session, thread, jammed>> /\ Ahead' = Ahead \o <<>>
      /\ tv'.media = 0 /\ tv'.last = tv.last
      /\ calls # <<>> /\ Head(calls).op = "stop" /\ calls' = Tail(calls)
  BY DEF StoppedStep, ArriveStep
<1>2. Ahead' = Ahead
  BY <1>1, AheadTyped, ConcatEmptySeq DEF EndInv
<1>3. thread.at \in Out
  <2>1. 1 \in DOMAIN calls /\ Head(calls) = calls[1]
    BY <1>1, Typed DEF EndInv
  <2> QED
    BY <1>1, <2>1 DEF EndInv, StopIsLast
<1>4. LatestMedia' /\ EndsAreNews'
  <2>1. tv.last \in Nat
    BY ThreadTyped DEF EndInv
  <2>2. LatestMedia'
    BY <1>1 DEF LatestMedia
  <2>3. EndsAreNews'
    BY <1>1, <1>2, <2>1 DEF EndInv, EndsAreNews
  <2> QED
    BY <2>2, <2>3
<1> QED
  BY <1>1, <1>3, <1>4 DEF EndInv, StopIsLast, EndsFollow

LEMMA EndInvNext ==
    ASSUME EndInv, ThreadInv', [Next]_vars
    PROVE  EndInv'
  BY StepKinds, IdleEnds, AskEnds, GreetingEnds, LeavingEnds, TakesEnds, AnswerEnds, FailEnds,
     KeepEnds, LoadedEnds, SaidEnds, EndedEnds, StoppedEnds DEF EndInv

LEMMA EndInvInit == Init => EndInv
<1> SUFFICES ASSUME Init PROVE EndInv
  OBVIOUS
<1>1. ThreadInv
  BY ThreadInvInit
<1>2. /\ held = <<>> /\ wire = <<>> /\ calls = <<>> /\ tv.media = 0 /\ thread.msid = 0
      /\ thread.at = "setup"
  BY DEF Init
<1>3. Ahead = <<>>
  BY <1>2, <1>1, Typed, ConcatEmptySeq DEF Ahead
<1>4. LatestMedia /\ EndsAreNews /\ StopIsLast
  BY <1>2, <1>3 DEF LatestMedia, EndsAreNews, StopIsLast
<1>5. EndsFollow
  BY <1>2, <1>3 DEF EndsFollow, Settled, Noticed
<1> QED
  BY <1>1, <1>4, <1>5 DEF EndInv

\* A media session that the receiver has left is one of whose end the thread has
\* still to read, as long as the link holds (receive loop of run_session).
THEOREM EndInvariant == Spec => []EndInv
  BY EndInvInit, EndInvNext, ThreadInvariant, PTL DEF Spec

\* The thread hears of the end of what it tracks: a status, or an error, that
\* makes it leave its loop is still ahead of it (receive loop of run_session).
THEOREM TheEndIsUnderwayHolds == Spec => []TheEndIsUnderway
<1>1. ASSUME EndInv PROVE TheEndIsUnderway
  <2>1. SUFFICES ASSUME thread.at \in {"drain", "check", "receive", "poll"},
                        session.ours, link, ~jammed, thread.msid \notin {0, tv.media}
                 PROVE  \E m \in Underway :
                           Ends(m, thread.msid) \/ m.type \in {"error", "loadFailed"}
    BY DEF TheEndIsUnderway
  <2>2. Has(Ahead, thread.msid)
    BY <1>1, <2>1 DEF EndInv, EndsFollow, Noticed, Out
  <2>3. PICK j \in DOMAIN Ahead : Ender(Ahead[j], thread.msid)
    BY <2>2 DEF Has
  <2>4. Ahead[j] \in Underway
    <3>1. held \in Seq(Message) /\ wire \in Seq(Message)
      BY <1>1, Typed DEF EndInv
    <3>2. /\ Len(held) \in Nat /\ Len(wire) \in Nat
          /\ Ahead \in Seq(Message) /\ Len(Ahead) = Len(held) + Len(wire)
          /\ \A i \in 1..Len(held) : Ahead[i] = held[i]
          /\ \A i \in 1..(Len(held) + Len(wire)) : i > Len(held) => Ahead[i] = wire[i - Len(held)]
      BY <3>1, AheadIs DEF Ahead
    <3>3. /\ DOMAIN held = 1..Len(held) /\ DOMAIN wire = 1..Len(wire)
          /\ j \in 1..(Len(held) + Len(wire))
      BY <3>1, <3>2
    <3>4. CASE j \in 1..Len(held)
      BY <3>2, <3>3, <3>4 DEF Underway
    <3>5. CASE j > Len(held)
      <4>1. j - Len(held) \in 1..Len(wire)
        BY <3>2, <3>3, <3>5
      <4> QED
        BY <3>2, <3>3, <3>5, <4>1 DEF Underway
    <3> QED
      BY <3>2, <3>3, <3>4, <3>5
  <2>5. Ends(Ahead[j], thread.msid) \/ Ahead[j].type \in {"error", "loadFailed"}
    BY <2>1, <2>3 DEF Ender, Ends
  <2> QED
    BY <2>4, <2>5
<1> QED
  BY <1>1, EndInvariant, PTL

-------------------------------------------------------------------------------
(* A new load survives the end of the old one *)

NoLoad == \A i \in DOMAIN calls : calls[i].op # "load"

\* A load of url is the last load there is.
LoadLast(q, url) ==
    \A i, j \in DOMAIN q :
       i < j /\ q[i].op = "load" /\ q[i].url = url => q[j].op # "load"

\* Marks are gone when a wait is over, and while a load is waited for they are on
\* that load and on what answers it.
Marks ==
    /\ thread.at \notin {"wait"} \cup Out =>
          /\ \A i \in DOMAIN wire : ~wire[i].re
          /\ \A i \in DOMAIN calls : ~calls[i].re
    /\ Loading =>
          /\ \A i \in DOMAIN calls :
                calls[i].re => calls[i].op = "load" /\ calls[i].url = thread.url
          /\ \A i \in DOMAIN wire :
                wire[i].re /\ wire[i].id # 0 => wire[i].url = thread.url

BeforeReady ==
    /\ thread.at \in {"setup", "greet"} \/ thread.wait = "first" =>
          ~thread.accepted /\ ~thread.reused
    /\ thread.at = "setup" =>
          NoLoad /\ tv.media = 0 /\ \A i \in DOMAIN wire : wire[i].id = 0

\* No URL is newer than the thread's.
Urls ==
    /\ tv.url <= thread.url
    /\ \A i \in DOMAIN wire : wire[i].url <= thread.url
    /\ \A i \in DOMAIN calls : calls[i].url <= thread.url

\* What names the thread's URL, when that was given to one load only, is that
\* load or comes of it.
Fresh ==
    ~thread.reused =>
       /\ tv.url = thread.url /\ tv.media # 0 => NoLoad
       /\ \A i \in DOMAIN wire :
             wire[i].url = thread.url /\ wire[i].id # 0 => wire[i].id = tv.last /\ NoLoad
       /\ LoadLast(calls, thread.url)

\* A thread whose load was answered tracks the media that was loaded last.
Accepted ==
    /\ thread.accepted /\ ~thread.reused /\ thread.wait # "load" /\ thread.at \notin Out =>
          thread.msid = tv.last /\ thread.msid # 0 /\ NoLoad
    /\ thread.at = "greet" /\ thread.got.id # 0 => thread.got.id = tv.last /\ NoLoad

OverAtEnd == thread.over # "none" => thread.at \in {"ending"} \cup Out

LoadInv ==
    /\ EndInv /\ Marks /\ BeforeReady /\ Urls /\ Fresh /\ Accepted
    /\ OverAtEnd /\ NewLoadSurvives

LEMMA LoadsKept ==
    ASSUME calls \in Seq(Request),
           \/ calls' \in {calls, Unmarked(calls), <<>>}
           \/ calls # <<>> /\ calls' = Tail(calls)
    PROVE  /\ NoLoad => NoLoad'
           /\ \A url : LoadLast(calls, url) => LoadLast(calls', url)
<1>1. NoLoad => NoLoad'
  BY FewerCalls DEF CallsLeft, NoLoad
<1>2. CASE calls' = calls
  BY <1>1, <1>2
<1>3. CASE calls' = Unmarked(calls)
  <2>1. /\ Len(calls') = Len(calls) /\ calls' \in Seq(Request)
        /\ \A i \in 1..Len(calls) : calls[i] \in Request /\ calls'[i] = [calls[i] EXCEPT !.re = FALSE]
    BY <1>3, UnmarkedRequests
  <2>2. DOMAIN calls' = 1..Len(calls) /\ DOMAIN calls = 1..Len(calls)
    BY <2>1
  <2>3. \A i \in DOMAIN calls : calls'[i].op = calls[i].op /\ calls'[i].url = calls[i].url
    BY <2>1, <2>2 DEF Request
  <2> QED
    BY <1>1, <2>2, <2>3 DEF LoadLast
<1>4. CASE calls' = <<>>
  BY <1>1, <1>4 DEF LoadLast
<1>5. CASE calls # <<>> /\ calls' = Tail(calls)
  <2>1. /\ DOMAIN calls = 1..Len(calls) /\ DOMAIN calls' = 1..(Len(calls) - 1) /\ Len(calls) \in Nat
        /\ \A i \in 1..(Len(calls) - 1) : calls'[i] = calls[i + 1]
    BY <1>5
  <2>2. ASSUME NEW url, LoadLast(calls, url), NEW i \in DOMAIN calls', NEW j \in DOMAIN calls',
               i < j, calls'[i].op = "load", calls'[i].url = url
        PROVE  calls'[j].op # "load"
    <3>1. i + 1 \in DOMAIN calls /\ j + 1 \in DOMAIN calls /\ i + 1 < j + 1
      BY <2>1, <2>2
    <3>2. calls'[i] = calls[i + 1] /\ calls'[j] = calls[j + 1]
      BY <2>1, <2>2
    <3> QED
      BY <2>2, <3>1, <3>2 DEF LoadLast
  <2> QED
    BY <1>1, <2>2 DEF LoadLast
<1> QED
  BY <1>2, <1>3, <1>4, <1>5

LEMMA UnmarkedCalls ==
    ASSUME calls \in Seq(Request), calls' = Unmarked(calls)
    PROVE  \A i \in DOMAIN calls' : ~calls'[i].re
<1>1. /\ Len(calls') = Len(calls) /\ calls' \in Seq(Request)
      /\ \A i \in 1..Len(calls) : calls[i] \in Request /\ calls'[i] = [calls[i] EXCEPT !.re = FALSE]
  BY UnmarkedRequests
<1>2. DOMAIN calls' = 1..Len(calls)
  BY <1>1
<1>3. ASSUME NEW i \in DOMAIN calls'
      PROVE  ~calls'[i].re
  <2>1. calls[i] \in Request /\ calls'[i] = [calls[i] EXCEPT !.re = FALSE]
    BY <1>1, <1>2
  <2>2. calls'[i].re = FALSE
    BY <2>1 DEF Request
  <2> QED
    BY <2>2
<1> QED
  BY <1>3

LEMMA LoadsSent ==
    ASSUME calls \in Seq(Request), NEW c \in Request, calls' = Sent(c)
    PROVE  /\ NoLoad /\ c.op # "load" => NoLoad'
           /\ \A url : LoadLast(calls, url) /\ c.op # "load" => LoadLast(calls', url)
           /\ \A url : (\A i \in DOMAIN calls : calls[i].op = "load" => calls[i].url # url)
                        => LoadLast(calls', url)
<1>1. NoLoad /\ c.op # "load" => NoLoad'
  BY AskedCalls DEF NoLoad
<1>2. /\ Sent(c) \in Seq(Request) /\ Len(Sent(c)) > 0
      /\ Sent(c)[Len(Sent(c))] = c
      /\ \E d \in {0, 1} : \A i \in 1..(Len(Sent(c)) - 1) :
            i + d \in DOMAIN calls /\ Sent(c)[i] = calls[i + d]
  BY SentIsLast
<1>3. PICK d \in {0, 1} : \A i \in 1..(Len(calls') - 1) :
            i + d \in DOMAIN calls /\ calls'[i] = calls[i + d]
  BY <1>2
<1>4. DOMAIN calls' = 1..Len(calls') /\ Len(calls') \in Nat /\ calls'[Len(calls')] = c
  BY <1>2
<1>5. ASSUME NEW url, LoadLast(calls, url), NEW i \in DOMAIN calls', NEW j \in DOMAIN calls',
             i < j, calls'[i].op = "load", calls'[i].url = url, c.op # "load"
      PROVE  calls'[j].op # "load"
  <2>1. CASE j = Len(calls')
    BY <1>4, <1>5, <2>1
  <2>2. CASE j # Len(calls')
    <3>1. i \in 1..(Len(calls') - 1) /\ j \in 1..(Len(calls') - 1)
      BY <1>4, <1>5, <2>2
    <3>2. i + d \in DOMAIN calls /\ j + d \in DOMAIN calls /\ i + d < j + d
      BY <1>3, <1>5, <3>1
    <3>3. calls'[i] = calls[i + d] /\ calls'[j] = calls[j + d]
      BY <1>3, <3>1
    <3> QED
      BY <1>5, <3>2, <3>3 DEF LoadLast
  <2> QED
    BY <2>1, <2>2
<1>6. ASSUME NEW url, \A i \in DOMAIN calls : calls[i].op = "load" => calls[i].url # url,
             NEW i \in DOMAIN calls', NEW j \in DOMAIN calls',
             i < j, calls'[i].op = "load", calls'[i].url = url
      PROVE  FALSE
  <2>1. i \in 1..(Len(calls') - 1)
    BY <1>4, <1>6
  <2>2. i + d \in DOMAIN calls /\ calls'[i] = calls[i + d]
    BY <1>3, <2>1
  <2> QED
    BY <1>6, <2>2
<1>7. ASSUME NEW url, LoadLast(calls, url), c.op # "load"
      PROVE  LoadLast(calls', url)
  <2> SUFFICES ASSUME NEW i \in DOMAIN calls', NEW j \in DOMAIN calls',
                      i < j, calls'[i].op = "load", calls'[i].url = url
               PROVE  calls'[j].op # "load"
    BY DEF LoadLast
  <2> QED
    BY <1>5, <1>7
<1>8. ASSUME NEW url, \A i \in DOMAIN calls : calls[i].op = "load" => calls[i].url # url
      PROVE  LoadLast(calls', url)
  <2> SUFFICES ASSUME NEW i \in DOMAIN calls', NEW j \in DOMAIN calls',
                      i < j, calls'[i].op = "load", calls'[i].url = url
               PROVE  FALSE
    BY DEF LoadLast
  <2> QED
    BY <1>6, <1>8
<1> QED
  BY <1>1, <1>7, <1>8

\* Nothing new is underway but a stop.
Shrinks ==
    /\ tv' = tv /\ thread'.url = thread.url /\ thread'.reused = thread.reused
    /\ \A i \in DOMAIN wire' : \E j \in DOMAIN wire : Eased(wire'[i], wire[j])
    /\ \/ calls' \in {calls, Unmarked(calls), <<>>}
       \/ calls' = Sent(Call("stop", thread.msid, 0))

LEMMA ShrinksFresh ==
    ASSUME LoadInv, Shrinks
    PROVE  Urls' /\ Fresh' /\ (NoLoad => NoLoad')
<1>1. calls \in Seq(Request) /\ thread.url \in Nat /\ thread.msid \in Nat
  BY Typed, ThreadTyped DEF LoadInv, EndInv
<1>2. /\ NoLoad => NoLoad'
      /\ LoadLast(calls, thread.url) => LoadLast(calls', thread.url)
      /\ \A i \in DOMAIN calls' : calls'[i].url <= thread.url
  <2>1. CASE calls' \in {calls, Unmarked(calls), <<>>}
    <3>1. CallsLeft
      BY <1>1, <2>1, FewerCalls
    <3>2. \A i \in DOMAIN calls' : calls'[i].url <= thread.url
      BY <3>1 DEF CallsLeft, LoadInv, Urls
    <3> QED
      BY <1>1, <2>1, <3>2, LoadsKept
  <2>2. CASE calls' = Sent(Call("stop", thread.msid, 0))
    <3> DEFINE c == Call("stop", thread.msid, 0)
    <3>1. c \in Request /\ c.op = "stop" /\ c.url = 0
      BY <1>1, Requests DEF Call
    <3>2. calls' = Sent(c)
      BY <2>2
    <3> HIDE DEF c
    <3>3. \A i \in DOMAIN calls' : calls'[i].url <= thread.url
      BY <1>1, <3>1, <3>2, AskedCalls DEF LoadInv, Urls
    <3> QED
      BY <1>1, <3>1, <3>2, <3>3, LoadsSent
  <2> QED
    BY <2>1, <2>2 DEF Shrinks
<1>3. \A i \in DOMAIN wire' : \E j \in DOMAIN wire :
         wire'[i].url = wire[j].url /\ wire'[i].id = wire[j].id
  BY DEF Shrinks, Eased
<1>4. tv' = tv /\ thread'.url = thread.url /\ thread'.reused = thread.reused
  BY DEF Shrinks
<1>5. Urls'
  BY <1>2, <1>3, <1>4 DEF LoadInv, Urls
<1>6. Fresh'
  BY <1>2, <1>3, <1>4 DEF LoadInv, Fresh
<1> QED
  BY <1>2, <1>5, <1>6

LEMMA IdleLoads ==
    ASSUME LoadInv, ThreadInv', IdleStep
    PROVE  LoadInv'
<1>1. /\ tv' = tv /\ calls' = calls /\ wire' = wire
      /\ thread'.msid = thread.msid /\ thread'.url = thread.url
      /\ thread'.accepted = thread.accepted /\ thread'.reused = thread.reused
      /\ thread'.over = thread.over /\ thread'.wait = thread.wait
  BY DEF IdleStep
<1>2. /\ thread'.at \notin Out => thread.at \notin Out
      /\ thread'.at \notin {"wait"} \cup Out => thread.at \notin {"wait"} \cup Out
      /\ thread'.at = "greet" => thread.at = "greet" /\ thread'.got = thread.got
      /\ thread'.at = "setup" => thread.at = "setup"
      /\ thread.at \in {"ending"} \cup Out => thread'.at \in {"ending"} \cup Out
      /\ thread.at \in Loop \/ thread'.at \in Out \/ thread'.at = thread.at
  BY DEF IdleStep, Loop, Out
<1>3. Urls' /\ Fresh'
  BY <1>1 DEF LoadInv, Urls, Fresh, NoLoad
<1>4. Marks' /\ OverAtEnd'
  BY <1>1, <1>2 DEF LoadInv, Marks, OverAtEnd, Loading
<1>5. BeforeReady'
  BY <1>1, <1>2 DEF LoadInv, BeforeReady, NoLoad
<1>6. Accepted'
  BY <1>1, <1>2 DEF LoadInv, Accepted, NoLoad
<1>7. NewLoadSurvives'
  <2>1. CASE thread'.at = thread.at
    BY <1>1, <2>1 DEF LoadInv, NewLoadSurvives
  <2>2. CASE thread.at \in Loop
    BY <1>1, <2>2 DEF LoadInv, OverAtEnd, NewLoadSurvives, Loop, Out
  <2>3. CASE thread'.at \in Out
    BY <2>3 DEF NewLoadSurvives, Out
  <2> QED
    BY <1>2, <2>1, <2>2, <2>3
<1>8. EndInv'
  BY IdleEnds DEF LoadInv
<1> QED
  BY <1>3, <1>4, <1>5, <1>6, <1>7, <1>8 DEF LoadInv

LEMMA GreetingLoads ==
    ASSUME LoadInv, ThreadInv', GreetingStep
    PROVE  LoadInv'
<1>1. /\ tv' = tv /\ calls' = calls /\ wire' = wire
      /\ thread.at = "greet" /\ thread'.at = "drain" /\ thread'.wait = thread.wait
      /\ thread'.msid = thread.got.id /\ thread'.accepted = (thread.got.id # 0)
      /\ thread'.url = thread.url /\ thread'.reused = thread.reused
      /\ thread'.over = thread.over
  BY DEF GreetingStep
<1>2. Urls' /\ Fresh'
  BY <1>1 DEF LoadInv, Urls, Fresh, NoLoad
<1>3. Marks'
  BY <1>1 DEF LoadInv, Marks, Loading, Out
<1>4. OverAtEnd' /\ NewLoadSurvives'
  BY <1>1 DEF LoadInv, OverAtEnd, NewLoadSurvives, Out
<1>5. thread'.wait = "none"
  BY <1>1, ThreadTyped DEF LoadInv, EndInv
<1>6. BeforeReady'
  BY <1>1, <1>5 DEF BeforeReady
<1>7. Accepted'
  BY <1>1 DEF LoadInv, Accepted, NoLoad
<1>8. EndInv'
  BY GreetingEnds DEF LoadInv
<1> QED
  BY <1>2, <1>3, <1>4, <1>6, <1>7, <1>8 DEF LoadInv

\* The thread asks for something that is no load.
LEMMA AskLoads ==
    ASSUME LoadInv, ThreadInv', NEW c \in Request, NEW kind \in Waits, AskStep(c, kind),
           kind \notin {"none", "first", "load"}, c.op \notin {"load", "stop"}, c.url = 0,
           thread'.url = thread.url, thread'.reused = thread.reused,
           thread.at \in {"drain", "poll"}
    PROVE  LoadInv'
<1>1. /\ tv' = tv /\ wire' = wire /\ calls' = Sent(c)
      /\ thread.wait = "none" /\ thread'.at = "wait" /\ thread'.wait = kind
      /\ thread'.msid = thread.msid /\ thread'.accepted = thread.accepted
      /\ thread'.over = thread.over
  BY DEF AskStep
<1>2. calls \in Seq(Request) /\ thread.url \in Nat
  BY Typed, ThreadTyped DEF LoadInv, EndInv
<1>3. /\ NoLoad => NoLoad'
      /\ LoadLast(calls, thread.url) => LoadLast(calls', thread.url)
  BY <1>1, <1>2, LoadsSent
<1>4. \A i \in DOMAIN calls' : calls'[i] = c \/ \E j \in DOMAIN calls : calls'[i] = calls[j]
  BY <1>1, <1>2, AskedCalls
<1>5. Urls'
  BY <1>1, <1>2, <1>4 DEF LoadInv, Urls
<1>6. Fresh'
  BY <1>1, <1>3 DEF LoadInv, Fresh
<1>7. Marks' /\ BeforeReady'
  BY <1>1 DEF Marks, BeforeReady, Loading
<1>8. Accepted'
  BY <1>1, <1>3 DEF LoadInv, Accepted, Out
<1>9. OverAtEnd' /\ NewLoadSurvives'
  BY <1>1 DEF LoadInv, OverAtEnd, NewLoadSurvives, Out
<1>10. EndInv'
  BY AskEnds DEF LoadInv
<1> QED
  BY <1>5, <1>6, <1>7, <1>8, <1>9, <1>10 DEF LoadInv

\* The thread asks for a load.
LEMMA NewLoads ==
    ASSUME LoadInv, ThreadInv', NEW c \in Request, NEW kind \in Waits, AskStep(c, kind),
           kind \in {"first", "load"}
    PROVE  LoadInv'
<1>1. /\ tv' = tv /\ wire' = wire /\ calls' = Sent(c) /\ c.re
      /\ thread.wait = "none" /\ thread'.at = "wait" /\ thread'.wait = kind
      /\ thread'.accepted = thread.accepted /\ thread'.over = thread.over
      /\ c.op = "load" /\ c.url = thread'.url
  BY DEF AskStep
<1>2. /\ kind = "first" => /\ thread.at = "setup" /\ thread'.url = thread.url
                           /\ thread'.reused = thread.reused
      /\ kind = "load" => /\ thread.at = "drain"
                          /\ thread'.url \in {thread.url, thread.url + 1}
                          /\ thread'.reused = (thread'.url = thread.url)
  BY DEF AskStep
<1>3. calls \in Seq(Request) /\ wire \in Seq(Message) /\ thread.url \in Nat /\ tv.url \in Nat
  BY Typed, ThreadTyped DEF LoadInv, EndInv
<1>4. \A i \in DOMAIN calls' : calls'[i] = c \/ \E j \in DOMAIN calls : calls'[i] = calls[j]
  BY <1>1, <1>3, AskedCalls
<1>5. /\ \A i \in DOMAIN calls : calls[i].url \in Nat
      /\ \A i \in DOMAIN wire : wire[i].url \in Nat
  <2>1. /\ \A i \in DOMAIN calls : calls[i] \in Request
        /\ \A i \in DOMAIN wire : wire[i] \in Message
    BY <1>3
  <2> QED
    BY <2>1 DEF Request, Message
<1>6. thread'.url \in Nat /\ thread.url <= thread'.url
  BY <1>2, <1>3
<1>7. Urls'
  <2>1. tv'.url <= thread'.url
    BY <1>1, <1>3, <1>6 DEF LoadInv, Urls
  <2>2. \A i \in DOMAIN wire : wire[i].url <= thread'.url
    BY <1>3, <1>5, <1>6 DEF LoadInv, Urls
  <2>3. \A i \in DOMAIN calls : calls[i].url <= thread'.url
    BY <1>3, <1>5, <1>6 DEF LoadInv, Urls
  <2>4. \A i \in DOMAIN calls' : calls'[i].url <= thread'.url
    BY <1>1, <1>4, <1>6, <2>3
  <2> QED
    BY <1>1, <2>1, <2>2, <2>4 DEF Urls
<1>8. Marks'
  <2>1. /\ \A i \in DOMAIN wire : ~wire[i].re
        /\ \A i \in DOMAIN calls : ~calls[i].re
    BY <1>2 DEF LoadInv, Marks, Out
  <2> QED
    BY <1>1, <1>4, <2>1 DEF Marks
<1>9. BeforeReady'
  BY <1>1, <1>2 DEF LoadInv, BeforeReady
<1>10. Fresh'
  <2>1. SUFFICES ASSUME ~thread'.reused
                 PROVE  /\ tv.url = thread'.url => tv.media = 0
                        /\ \A i \in DOMAIN wire : wire[i].url = thread'.url => wire[i].id = 0
                        /\ \A i \in DOMAIN calls : calls[i].op = "load" => calls[i].url # thread'.url
    BY <1>1, <1>3, LoadsSent DEF Fresh
  <2>2. CASE kind = "first"
    BY <1>2, <2>2 DEF LoadInv, BeforeReady, NoLoad
  <2>3. CASE kind = "load"
    <3>1. thread'.url = thread.url + 1
      BY <1>2, <2>1, <2>3
    <3>2. tv.url < thread'.url
      BY <1>3, <3>1 DEF LoadInv, Urls
    <3>3. \A i \in DOMAIN wire : wire[i].url < thread'.url
      BY <1>3, <1>5, <3>1 DEF LoadInv, Urls
    <3>4. \A i \in DOMAIN calls : calls[i].url < thread'.url
      BY <1>3, <1>5, <3>1 DEF LoadInv, Urls
    <3> QED
      BY <1>3, <1>5, <1>6, <3>2, <3>3, <3>4
  <2> QED
    BY <2>2, <2>3
<1>11. Accepted'
  <2>1. CASE kind = "first"
    <3>1. ~thread'.accepted
      BY <1>1, <1>2, <2>1 DEF LoadInv, BeforeReady
    <3> QED
      BY <1>1, <3>1 DEF Accepted
  <2>2. CASE kind = "load"
    BY <1>1, <2>2 DEF Accepted
  <2> QED
    BY <2>1, <2>2
<1>12. OverAtEnd' /\ NewLoadSurvives'
  BY <1>1, <1>2 DEF LoadInv, OverAtEnd, NewLoadSurvives, Out
<1>13. EndInv'
  BY AskEnds DEF LoadInv
<1> QED
  BY <1>7, <1>8, <1>9, <1>10, <1>11, <1>12, <1>13 DEF LoadInv

LEMMA TakesLoads ==
    ASSUME LoadInv, ThreadInv', NEW m \in Message, TakesStep(m)
    PROVE  LoadInv'
<1>1. /\ calls' = calls /\ tv' = tv
      /\ \A i \in DOMAIN wire' : \E j \in DOMAIN wire : wire'[i] = wire[j]
      /\ thread.at = "receive" /\ thread'.wait = thread.wait
      /\ thread'.url = thread.url /\ thread'.reused = thread.reused
      /\ thread'.accepted = thread.accepted
      /\ thread'.at \in {"poll", "ending", "announce"}
      /\ thread.msid # 0 => thread'.msid = thread.msid
  BY DEF TakesStep
<1>2. thread.wait = "none" /\ thread'.wait = "none"
  BY <1>1, ThreadTyped DEF LoadInv, EndInv
<1>3. Shrinks
  BY <1>1 DEF Shrinks, Eased
<1>4. Urls' /\ Fresh' /\ (NoLoad => NoLoad')
  BY <1>3, ShrinksFresh
<1>5. Marks'
  BY <1>1, <1>2 DEF LoadInv, Marks, Loading, Out
<1>6. BeforeReady'
  BY <1>1, <1>2 DEF BeforeReady
<1>7. Accepted'
  BY <1>1, <1>2, <1>4 DEF LoadInv, Accepted, Out
<1>8. OverAtEnd'
  <2>1. thread.over = "none"
    BY <1>1 DEF LoadInv, OverAtEnd, Out
  <2> QED
    BY <2>1 DEF TakesStep, OverAtEnd, Out
<1>9. NewLoadSurvives'
  <2>1. SUFFICES ASSUME thread'.at = "ending", thread'.over = "Interrupted",
                        thread.accepted, ~thread.reused
                 PROVE  tv.media = 0
    BY <1>1 DEF NewLoadSurvives
  <2>2. thread.msid = tv.last /\ thread.msid # 0
    BY <1>1, <1>2, <2>1 DEF LoadInv, Accepted, Out
  <2>3. m.player = "Interrupted" /\ m.id = thread.msid
    BY <2>1, <2>2 DEF TakesStep, Ends
  <2>4. 1 \in DOMAIN Ahead /\ Ahead[1] = m
    BY AheadTyped DEF TakesStep, Taken, LoadInv, EndInv
  <2>5. m.id # tv.media
    BY <2>3, <2>4 DEF LoadInv, EndInv, EndsAreNews, Overs
  <2> QED
    BY <2>2, <2>3, <2>5 DEF LoadInv, EndInv, LatestMedia
<1>10. EndInv'
  BY TakesEnds DEF LoadInv
<1> QED
  BY <1>4, <1>5, <1>6, <1>7, <1>8, <1>9, <1>10 DEF LoadInv

\* A status that answers a load comes of it.
LEMMA AnswersAreFresh ==
    ASSUME LoadInv, NEW m \in Message, \E i \in DOMAIN wire : wire[i] = m,
           Answers(m), Loading, ~thread.reused, m.id # 0
    PROVE  m.id = tv.last /\ NoLoad
<1>1. PICK i \in DOMAIN wire : wire[i] = m
  OBVIOUS
<1>2. m.re \/ m.url = thread.url
  BY DEF Answers, LoadAnswer
<1>3. m.url = thread.url
  BY <1>1, <1>2 DEF LoadInv, Marks
<1> QED
  BY <1>1, <1>3 DEF LoadInv, Fresh

LEMMA AnswerLoads ==
    ASSUME LoadInv, ThreadInv', NEW m \in Message, AnswerStep(m)
    PROVE  LoadInv'
<1>1. /\ tv' = tv /\ calls' = Unmarked(calls)
      /\ \A i \in DOMAIN wire' : ~wire'[i].re /\ \E j \in DOMAIN wire : Eased(wire'[i], wire[j])
      /\ thread.at = "wait" /\ thread.wait # "none" /\ thread'.wait = "none"
      /\ thread'.url = thread.url /\ thread'.reused = thread.reused
      /\ Answers(m) /\ \E i \in DOMAIN wire : wire[i] = m
  BY DEF AnswerStep, Demarked
<1>2. Shrinks
  BY <1>1 DEF Shrinks
<1>3. Urls' /\ Fresh' /\ (NoLoad => NoLoad')
  BY <1>2, ShrinksFresh
<1>4. \A i \in DOMAIN calls' : ~calls'[i].re
  BY <1>1, UnmarkedCalls, Typed DEF LoadInv, EndInv
<1>5. Marks'
  BY <1>1, <1>4 DEF Marks, Loading
<1>6. thread.wait = "none" \/ ~Ends(m, thread.msid) \/ Loading
  <2>1. Len(held) + 1 \in DOMAIN Ahead /\ Ahead[Len(held) + 1] = m
    BY AheadTyped DEF AnswerStep, Taken, LoadInv, EndInv
  <2>2. m.player \in Overs => ~m.re
    BY <2>1 DEF LoadInv, EndInv, EndsAreNews
  <2> QED
    BY <1>1, <2>2 DEF Answers, Ends, Overs
<1>7. \/ /\ thread.wait = "first" /\ thread'.at = "greet" /\ thread'.got = m
         /\ thread'.msid = thread.msid /\ thread'.accepted = thread.accepted
         /\ thread'.over = thread.over
      \/ /\ thread.wait = "load" /\ thread'.at = "drain"
         /\ thread'.msid = (IF m.id = 0 THEN thread.msid ELSE m.id)
         /\ thread'.accepted = (m.id # 0)
         /\ thread'.over = thread.over
      \/ /\ ~Loading /\ thread'.at = "drain"
         /\ thread'.msid = thread.msid /\ thread'.accepted = thread.accepted
         /\ thread'.over = thread.over
  BY <1>1, <1>6 DEF AnswerStep
<1>8. BeforeReady'
  BY <1>1, <1>7 DEF LoadInv, BeforeReady
<1>9. OverAtEnd' /\ NewLoadSurvives'
  BY <1>1, <1>7 DEF LoadInv, OverAtEnd, NewLoadSurvives, Out
<1>10. Accepted'
  <2>1. CASE thread.wait = "first" /\ thread'.at = "greet" /\ thread'.got = m
             /\ thread'.accepted = thread.accepted
    <3>1. ~thread.accepted /\ ~thread.reused /\ Loading
      BY <2>1 DEF LoadInv, BeforeReady, Loading
    <3>2. m.id # 0 => m.id = tv.last /\ NoLoad
      BY <1>1, <3>1, AnswersAreFresh
    <3> QED
      BY <1>1, <1>3, <2>1, <3>1, <3>2 DEF Accepted
  <2>2. CASE thread.wait = "load" /\ thread'.at = "drain" /\ thread'.accepted = (m.id # 0)
             /\ thread'.msid = (IF m.id = 0 THEN thread.msid ELSE m.id)
    <3>1. ~thread.reused /\ m.id # 0 => m.id = tv.last /\ NoLoad
      BY <1>1, <2>2, AnswersAreFresh DEF Loading
    <3> QED
      BY <1>1, <1>3, <2>2, <3>1 DEF Accepted
  <2>3. CASE ~Loading /\ thread'.at = "drain" /\ thread'.accepted = thread.accepted
             /\ thread'.msid = thread.msid
    BY <1>1, <1>3, <2>3 DEF LoadInv, Accepted, Loading, Out
  <2> QED
    BY <1>7, <2>1, <2>2, <2>3
<1>11. EndInv'
  BY AnswerEnds DEF LoadInv
<1> QED
  BY <1>3, <1>5, <1>8, <1>9, <1>10, <1>11 DEF LoadInv

LEMMA FailLoads ==
    ASSUME LoadInv, ThreadInv', GiveUpStep \/ \E m \in Message : RefuseStep(m)
    PROVE  LoadInv'
<1>1. FailStep
  BY DEF GiveUpStep, RefuseStep
<1>2. /\ tv' = tv /\ calls' = Unmarked(calls)
      /\ \A i \in DOMAIN wire' : ~wire'[i].re /\ \E j \in DOMAIN wire : Eased(wire'[i], wire[j])
      /\ thread.at = "wait" /\ thread.wait # "none" /\ thread'.wait = "none"
      /\ thread'.url = thread.url /\ thread'.reused = thread.reused
      /\ thread'.msid = thread.msid /\ thread'.over = thread.over
      /\ thread'.accepted = (thread.accepted /\ ~Loading)
      /\ thread'.at \in {"gone", "drain"}
  BY <1>1 DEF FailStep, Demarked
<1>3. Shrinks
  BY <1>2 DEF Shrinks
<1>4. Urls' /\ Fresh' /\ (NoLoad => NoLoad')
  BY <1>3, ShrinksFresh
<1>5. \A i \in DOMAIN calls' : ~calls'[i].re
  BY <1>2, UnmarkedCalls, Typed DEF LoadInv, EndInv
<1>6. Marks' /\ BeforeReady'
  BY <1>2, <1>5 DEF Marks, BeforeReady, Loading
<1>7. OverAtEnd' /\ NewLoadSurvives'
  BY <1>2 DEF LoadInv, OverAtEnd, NewLoadSurvives, Out
<1>8. Accepted'
  BY <1>2, <1>4 DEF LoadInv, Accepted, Loading, Out
<1>9. EndInv'
  BY FailEnds DEF LoadInv
<1> QED
  BY <1>4, <1>6, <1>7, <1>8, <1>9 DEF LoadInv

LEMMA KeepLoads ==
    ASSUME LoadInv, ThreadInv', NEW m \in Message, KeepStep(m)
    PROVE  LoadInv'
<1>1. /\ UNCHANGED <<thread, calls, tv>>
      /\ \A i \in DOMAIN wire' : \E j \in DOMAIN wire : wire'[i] = wire[j]
  BY DEF KeepStep
<1>2. Shrinks
  BY <1>1 DEF Shrinks, Eased
<1>3. Urls' /\ Fresh' /\ (NoLoad => NoLoad')
  BY <1>2, ShrinksFresh
<1>4. Marks'
  BY <1>1 DEF LoadInv, Marks, Loading
<1>5. BeforeReady' /\ Accepted'
  BY <1>1, <1>3 DEF LoadInv, BeforeReady, Accepted
<1>6. OverAtEnd' /\ NewLoadSurvives'
  BY <1>1 DEF LoadInv, OverAtEnd, NewLoadSurvives
<1>7. EndInv'
  BY KeepEnds DEF LoadInv
<1> QED
  BY <1>3, <1>4, <1>5, <1>6, <1>7 DEF LoadInv

LEMMA LeavingLoads ==
    ASSUME LoadInv, ThreadInv', LeavingStep \/ LostStep
    PROVE  LoadInv'
<1>1. EndInv'
  BY LeavingEnds DEF LoadInv
<1>2. CASE LeavingStep
  <2>1. /\ tv' = tv /\ wire' = wire /\ thread'.at \in Out /\ thread.at = "ending"
        /\ thread'.wait = thread.wait
        /\ thread'.url = thread.url /\ thread'.reused = thread.reused
        /\ calls' = calls \/ calls' = Sent(Call("stop", thread.msid, 0))
    BY <1>2 DEF LeavingStep, Out
  <2>2. thread'.wait = "none"
    BY <2>1, ThreadTyped DEF LoadInv, EndInv
  <2>3. Shrinks
    BY <2>1 DEF Shrinks, Eased
  <2>4. Urls' /\ Fresh'
    BY <2>3, ShrinksFresh
  <2>5. Marks' /\ BeforeReady' /\ Accepted' /\ OverAtEnd' /\ NewLoadSurvives'
    BY <2>1, <2>2 DEF Marks, BeforeReady, Accepted, OverAtEnd, NewLoadSurvives, Loading, Out
  <2> QED
    BY <1>1, <2>4, <2>5 DEF LoadInv
<1>3. CASE LostStep
  <2>1. UNCHANGED <<thread, tv>> /\ wire' = <<>> /\ calls' = <<>>
    BY <1>3 DEF LostStep
  <2>2. Shrinks
    BY <2>1 DEF Shrinks
  <2>3. Urls' /\ Fresh' /\ NoLoad'
    BY <2>1, <2>2, ShrinksFresh DEF NoLoad
  <2>4. Marks' /\ BeforeReady' /\ Accepted' /\ OverAtEnd' /\ NewLoadSurvives'
    BY <2>1, <2>3
       DEF LoadInv, Marks, BeforeReady, Accepted, OverAtEnd, NewLoadSurvives, Loading
  <2> QED
    BY <1>1, <2>3, <2>4 DEF LoadInv
<1> QED
  BY <1>2, <1>3

LEMMA WireArrives ==
    ASSUME LoadInv, ThreadInv', NEW r \in Seq(Message), wire' = wire \o r
    PROVE  \A i \in DOMAIN wire' :
              (\E j \in DOMAIN wire : wire'[i] = wire[j]) \/ (\E j \in DOMAIN r : wire'[i] = r[j])
<1> DEFINE c == wire'
<1>1. wire \in Seq(Message) /\ c = wire \o r
  BY Typed DEF LoadInv, EndInv
<1> HIDE DEF c
<1>2. \A i \in DOMAIN c :
         (\E j \in DOMAIN wire : c[i] = wire[j]) \/ (\E j \in DOMAIN r : c[i] = r[j])
  BY <1>1, MoreIsThere
<1> QED
  BY <1>2 DEF c

\* The receiver speaks of what it plays, or no longer plays.
SpokenStep(r) ==
    /\ ArriveStep(r)
    /\ tv'.media \in {0, tv.media} /\ tv'.last = tv.last /\ tv'.url = tv.url
    /\ calls' = calls \/ (calls # <<>> /\ calls' = Tail(calls) /\ Head(calls).op # "load")
    /\ \A i \in DOMAIN r :
         /\ r[i].id \in {0, tv.media} /\ r[i].url \in {0, tv.url}
         /\ r[i].id # 0 => r[i].url = tv.url
         /\ r[i].re => calls # <<>> /\ calls' = Tail(calls) /\ Head(calls).re

LEMMA SpokenKinds ==
    ASSUME LoadInv, NEW r \in Seq(Message)
    PROVE  /\ SaidStep(r) => SpokenStep(r)
           /\ EndedStep(r) => SpokenStep(r)
           /\ StoppedStep => SpokenStep(<<>>)
<1>1. ASSUME SaidStep(r) PROVE SpokenStep(r)
  BY <1>1 DEF SaidStep, SpokenStep
<1>2. ASSUME EndedStep(r) PROVE SpokenStep(r)
  <2>1. ASSUME NEW i \in DOMAIN r
        PROVE  /\ r[i].id \in {0, tv.media} /\ r[i].url \in {0, tv.url}
               /\ r[i].id # 0 => r[i].url = tv.url
               /\ ~r[i].re
    <3>1. CASE r[i] = Bare("error", FALSE)
      BY <3>1 DEF Bare, Status
    <3>2. CASE \E how \in Overs : r[i] = Status(tv.media, tv.url, how, FALSE)
      BY <3>2 DEF Status
    <3> QED
      BY <1>2, <3>1, <3>2 DEF EndedStep
  <2> QED
    BY <1>2, <2>1 DEF EndedStep, SpokenStep
<1>3. ASSUME StoppedStep PROVE SpokenStep(<<>>)
  BY <1>3 DEF StoppedStep, SpokenStep
<1> QED
  BY <1>1, <1>2, <1>3

LEMMA SpokenLoads ==
    ASSUME LoadInv, EndInv', NEW r \in Seq(Message), SpokenStep(r)
    PROVE  LoadInv'
<1>1. /\ thread' = thread /\ wire' = wire \o r
      /\ tv'.media \in {0, tv.media} /\ tv'.last = tv.last /\ tv'.url = tv.url
      /\ calls' = calls \/ (calls # <<>> /\ calls' = Tail(calls) /\ Head(calls).op # "load")
  BY DEF SpokenStep, ArriveStep
<1>2. \A i \in DOMAIN wire' :
         (\E j \in DOMAIN wire : wire'[i] = wire[j]) \/ (\E j \in DOMAIN r : wire'[i] = r[j])
  BY <1>1, WireArrives DEF EndInv
<1>3. /\ calls \in Seq(Request) /\ thread.url \in Nat /\ tv.url \in Nat
      /\ tv.media \in Nat /\ tv.last \in Nat
  BY Typed, ThreadTyped DEF LoadInv, EndInv
<1>4. /\ NoLoad => NoLoad'
      /\ LoadLast(calls, thread.url) => LoadLast(calls', thread.url)
  BY <1>1, <1>3, LoadsKept
<1>5. CallsLeft
  BY <1>1, <1>3, FewerCalls
<1>6. ASSUME NEW i \in DOMAIN r
      PROVE  /\ r[i].id \in {0, tv.media} /\ r[i].url \in {0, tv.url}
             /\ r[i].id # 0 => r[i].url = tv.url
             /\ r[i].re => 1 \in DOMAIN calls /\ calls[1].re /\ calls[1].op # "load"
  <2>1. calls # <<>> => 1 \in DOMAIN calls /\ Head(calls) = calls[1]
    BY <1>3
  <2> QED
    BY <2>1, <1>1, <1>6 DEF SpokenStep
<1>7. Urls'
  <2>1. \A i \in DOMAIN r : r[i].url <= thread.url
    BY <1>3, <1>6 DEF LoadInv, Urls
  <2>2. \A i \in DOMAIN wire' : wire'[i].url <= thread.url
    BY <1>2, <2>1 DEF LoadInv, Urls
  <2>3. \A i \in DOMAIN calls' : calls'[i].url <= thread.url
    BY <1>5 DEF LoadInv, Urls, CallsLeft
  <2> QED
    BY <1>1, <2>2, <2>3 DEF LoadInv, Urls
<1>8. Fresh'
  <2>1. SUFFICES ASSUME ~thread.reused
                 PROVE  /\ tv.url = thread.url /\ tv'.media # 0 => NoLoad'
                        /\ \A i \in DOMAIN wire' :
                              wire'[i].url = thread.url /\ wire'[i].id # 0 =>
                                 wire'[i].id = tv.last /\ NoLoad'
                        /\ LoadLast(calls', thread.url)
    BY <1>1 DEF Fresh
  <2>2. /\ tv.url = thread.url /\ tv.media # 0 => NoLoad
        /\ \A i \in DOMAIN wire :
              wire[i].url = thread.url /\ wire[i].id # 0 => wire[i].id = tv.last /\ NoLoad
        /\ LoadLast(calls, thread.url)
    BY <2>1 DEF LoadInv, Fresh
  <2>3. tv.media \in {0, tv.last}
    BY DEF LoadInv, EndInv, LatestMedia
  <2>4. \A i \in DOMAIN r : r[i].url = thread.url /\ r[i].id # 0 => r[i].id = tv.last /\ NoLoad
    BY <1>6, <2>2, <2>3
  <2> QED
    BY <1>1, <1>2, <1>4, <2>2, <2>4
<1>9. Marks'
  <2>1. ASSUME thread.at \notin {"wait"} \cup Out
        PROVE  /\ \A i \in DOMAIN wire' : ~wire'[i].re
               /\ \A i \in DOMAIN calls' : ~calls'[i].re
    <3>1. /\ \A i \in DOMAIN wire : ~wire[i].re
          /\ \A i \in DOMAIN calls : ~calls[i].re
      BY <2>1 DEF LoadInv, Marks
    <3> QED
      BY <1>2, <1>5, <1>6, <3>1 DEF CallsLeft
  <2>2. ASSUME Loading
        PROVE  /\ \A i \in DOMAIN calls' :
                     calls'[i].re => calls'[i].op = "load" /\ calls'[i].url = thread.url
               /\ \A i \in DOMAIN wire' :
                     wire'[i].re /\ wire'[i].id # 0 => wire'[i].url = thread.url
    <3>1. /\ \A i \in DOMAIN calls :
                calls[i].re => calls[i].op = "load" /\ calls[i].url = thread.url
          /\ \A i \in DOMAIN wire :
                wire[i].re /\ wire[i].id # 0 => wire[i].url = thread.url
      BY <2>2 DEF LoadInv, Marks
    <3>2. \A i \in DOMAIN r : ~r[i].re
      BY <1>6, <3>1
    <3> QED
      BY <1>2, <1>5, <3>1, <3>2 DEF CallsLeft
  <2> QED
    BY <1>1, <2>1, <2>2 DEF Marks, Loading
<1>10. BeforeReady'
  <2>1. ASSUME thread.at = "setup"
        PROVE  NoLoad' /\ tv'.media = 0 /\ \A i \in DOMAIN wire' : wire'[i].id = 0
    <3>1. NoLoad /\ tv.media = 0 /\ \A i \in DOMAIN wire : wire[i].id = 0
      BY <2>1 DEF LoadInv, BeforeReady
    <3> QED
      BY <1>1, <1>2, <1>4, <1>6, <3>1
  <2> QED
    BY <1>1, <2>1 DEF LoadInv, BeforeReady
<1>11. Accepted' /\ OverAtEnd' /\ NewLoadSurvives'
  BY <1>1, <1>4 DEF LoadInv, Accepted, OverAtEnd, NewLoadSurvives
<1> QED
  BY <1>7, <1>8, <1>9, <1>10, <1>11 DEF LoadInv

LEMMA LoadedLoads ==
    ASSUME LoadInv, EndInv', NEW c \in Request, NEW m \in Message, NEW r \in Seq(Message),
           LoadedStep(c, m, r)
    PROVE  LoadInv'
<1>1. /\ thread' = thread /\ wire' = wire \o r
      /\ calls # <<>> /\ c = Head(calls) /\ c.op = "load" /\ calls' = Tail(calls)
  BY DEF LoadedStep, ArriveStep
<1>2. \A i \in DOMAIN wire' :
         (\E j \in DOMAIN wire : wire'[i] = wire[j]) \/ (\E j \in DOMAIN r : wire'[i] = r[j])
  BY <1>1, WireArrives DEF EndInv
<1>3. /\ calls \in Seq(Request) /\ thread.url \in Nat /\ tv.url \in Nat
      /\ tv.media \in Nat /\ tv.last \in Nat
  BY Typed, ThreadTyped DEF LoadInv, EndInv
<1>4. 1 \in DOMAIN calls /\ calls[1] = c /\ ~NoLoad
  <2>1. 1 \in DOMAIN calls /\ calls[1] = c
    BY <1>1, <1>3
  <2> QED
    BY <1>1, <2>1 DEF NoLoad
<1>5. CallsLeft /\ (LoadLast(calls, thread.url) => LoadLast(calls', thread.url))
  BY <1>1, <1>3, FewerCalls, LoadsKept
<1>6. c.url = thread.url /\ LoadLast(calls, thread.url) => NoLoad'
  <2>1. /\ DOMAIN calls = 1..Len(calls) /\ DOMAIN calls' = 1..(Len(calls) - 1) /\ Len(calls) \in Nat
        /\ \A i \in 1..(Len(calls) - 1) : calls'[i] = calls[i + 1]
    BY <1>1, <1>3
  <2>2. ASSUME c.url = thread.url, LoadLast(calls, thread.url), NEW i \in DOMAIN calls'
        PROVE  calls'[i].op # "load"
    <3>1. i + 1 \in DOMAIN calls /\ 1 < i + 1 /\ calls'[i] = calls[i + 1]
      BY <2>1, <2>2
    <3> QED
      BY <1>1, <1>4, <2>2, <3>1 DEF LoadLast
  <2> QED
    BY <2>2 DEF NoLoad
<1>7. /\ m.id # 0 => m.id = tv.last + 1 /\ tv'.last = tv.last + 1 /\ m.url = c.url
      /\ m.url \in {0, c.url} /\ (m.re => c.re)
  <2>1. CASE m = Bare("status", c.re) \/ m = Bare("loadFailed", c.re)
    BY <2>1, BareFields
  <2>2. CASE /\ tv'.last = tv.last + 1
             /\ m \in {Status(tv.last + 1, c.url, "Buffering", c.re),
                       Status(tv.last + 1, c.url, "Buffering", FALSE)}
    BY <2>2 DEF Status
  <2> QED
    BY <2>1, <2>2 DEF LoadedStep
<1>8. ASSUME NEW i \in DOMAIN r, r[i] # m
      PROVE  tv.media # 0 /\ r[i].id = tv.media /\ r[i].url = tv.url /\ ~r[i].re
  <2>1. tv.media # 0 /\ r[i] = Status(tv.media, tv.url, "Interrupted", FALSE)
    BY <1>8 DEF LoadedStep
  <2> QED
    BY <2>1 DEF Status
<1>9. \/ tv'.media # 0 /\ tv'.url = c.url
      \/ tv'.media = 0 /\ tv'.url = tv.url
  <2>1. CASE tv'.media = tv.last + 1 /\ tv'.url = c.url
    BY <1>3, <2>1
  <2> QED
    BY <2>1 DEF LoadedStep
<1>10. Urls'
  <2>1. c.url <= thread.url /\ tv.url <= thread.url
    BY <1>4 DEF LoadInv, Urls
  <2>2. \A i \in DOMAIN r : r[i].url <= thread.url
    BY <1>3, <1>7, <1>8, <2>1
  <2>3. \A i \in DOMAIN wire' : wire'[i].url <= thread.url
    BY <1>2, <2>2 DEF LoadInv, Urls
  <2>4. \A i \in DOMAIN calls' : calls'[i].url <= thread.url
    BY <1>5 DEF LoadInv, Urls, CallsLeft
  <2> QED
    BY <1>1, <1>9, <2>1, <2>3, <2>4 DEF Urls
<1>11. Fresh'
  <2>1. SUFFICES ASSUME ~thread.reused
                 PROVE  /\ tv'.url = thread.url /\ tv'.media # 0 => NoLoad'
                        /\ \A i \in DOMAIN wire' :
                              wire'[i].url = thread.url /\ wire'[i].id # 0 =>
                                 wire'[i].id = tv'.last /\ NoLoad'
                        /\ LoadLast(calls', thread.url)
    BY <1>1 DEF Fresh
  <2>2. /\ ~(tv.url = thread.url /\ tv.media # 0)
        /\ \A i \in DOMAIN wire : ~(wire[i].url = thread.url /\ wire[i].id # 0)
        /\ LoadLast(calls, thread.url)
    BY <1>4, <2>1 DEF LoadInv, Fresh
  <2>3. \A i \in DOMAIN r : r[i].url = thread.url /\ r[i].id # 0 => r[i].id = tv'.last /\ NoLoad'
    BY <1>6, <1>7, <1>8, <2>2
  <2> QED
    BY <1>2, <1>5, <1>6, <1>9, <2>2, <2>3
<1>12. Marks'
  <2>1. ASSUME thread.at \notin {"wait"} \cup Out
        PROVE  /\ \A i \in DOMAIN wire' : ~wire'[i].re
               /\ \A i \in DOMAIN calls' : ~calls'[i].re
    <3>1. /\ \A i \in DOMAIN wire : ~wire[i].re
          /\ \A i \in DOMAIN calls : ~calls[i].re
      BY <2>1 DEF LoadInv, Marks
    <3>2. \A i \in DOMAIN r : ~r[i].re
      BY <1>4, <1>7, <1>8, <3>1
    <3> QED
      BY <1>2, <1>5, <3>1, <3>2 DEF CallsLeft
  <2>2. ASSUME Loading
        PROVE  /\ \A i \in DOMAIN calls' :
                     calls'[i].re => calls'[i].op = "load" /\ calls'[i].url = thread.url
               /\ \A i \in DOMAIN wire' :
                     wire'[i].re /\ wire'[i].id # 0 => wire'[i].url = thread.url
    <3>1. /\ \A i \in DOMAIN calls :
                calls[i].re => calls[i].op = "load" /\ calls[i].url = thread.url
          /\ \A i \in DOMAIN wire :
                wire[i].re /\ wire[i].id # 0 => wire[i].url = thread.url
      BY <2>2 DEF LoadInv, Marks
    <3>2. \A i \in DOMAIN r : r[i].re /\ r[i].id # 0 => r[i].url = thread.url
      BY <1>4, <1>7, <1>8, <3>1
    <3> QED
      BY <1>2, <1>5, <3>1, <3>2 DEF CallsLeft
  <2> QED
    BY <1>1, <2>1, <2>2 DEF Marks, Loading
<1>13. BeforeReady' /\ Accepted' /\ OverAtEnd' /\ NewLoadSurvives'
  <2>1. /\ thread.at # "setup"
        /\ ~(thread.accepted /\ ~thread.reused /\ thread.wait # "load" /\ thread.at \notin Out)
        /\ ~(thread.at = "greet" /\ thread.got.id # 0)
    BY <1>4 DEF LoadInv, BeforeReady, Accepted
  <2>2. BeforeReady' /\ Accepted' /\ OverAtEnd'
    BY <1>1, <2>1 DEF LoadInv, BeforeReady, Accepted, OverAtEnd
  <2>3. thread.at = "ending" => thread.wait = "none"
    BY ThreadTyped DEF LoadInv, EndInv
  <2>4. NewLoadSurvives'
    BY <1>1, <2>1, <2>3 DEF NewLoadSurvives, Out
  <2> QED
    BY <2>2, <2>4
<1> QED
  BY <1>10, <1>11, <1>12, <1>13 DEF LoadInv

LEMMA LoadInvNext ==
    ASSUME LoadInv, ThreadInv', [Next]_vars
    PROVE  LoadInv'
<1>1. EndInv' /\ ThreadInv
  BY EndInvNext DEF LoadInv, EndInv
<1>2. CASE IdleStep \/ GreetingStep \/ GiveUpStep \/ LostStep \/ LeavingStep
  BY <1>2, IdleLoads, GreetingLoads, FailLoads, LeavingLoads
<1>3. ASSUME NEW c \in Request, NEW kind \in Waits, AskStep(c, kind)
      PROVE  LoadInv'
  <2>1. CASE kind \in {"first", "load"}
    BY <1>3, <2>1, NewLoads
  <2>2. CASE kind \notin {"first", "load"}
    <3>1. /\ kind \notin {"none", "first", "load"} /\ c.op \notin {"load", "stop"} /\ c.url = 0
          /\ thread'.url = thread.url /\ thread'.reused = thread.reused
          /\ thread.at \in {"drain", "poll"}
      BY <1>3, <2>2 DEF AskStep
    <3> QED
      BY <1>3, <3>1, AskLoads
  <2> QED
    BY <2>1, <2>2
<1>4. ASSUME NEW m \in Message, TakesStep(m) \/ AnswerStep(m) \/ RefuseStep(m) \/ KeepStep(m)
      PROVE  LoadInv'
  BY <1>4, TakesLoads, AnswerLoads, FailLoads, KeepLoads
<1>5. ASSUME NEW c \in Request, NEW m \in Message, NEW r \in Seq(Message), LoadedStep(c, m, r)
      PROVE  LoadInv'
  BY <1>1, <1>5, LoadedLoads
<1>6. ASSUME NEW r \in Seq(Message), SaidStep(r) \/ EndedStep(r)
      PROVE  LoadInv'
  BY <1>1, <1>6, SpokenKinds, SpokenLoads
<1>7. CASE StoppedStep
  <2>1. <<>> \in Seq(Message)
    OBVIOUS
  <2> QED
    BY <1>1, <1>7, <2>1, SpokenKinds, SpokenLoads
<1> QED
  BY <1>1, <1>2, <1>3, <1>4, <1>5, <1>6, <1>7, StepKinds

LEMMA LoadInvInit == Init => LoadInv
<1> SUFFICES ASSUME Init PROVE LoadInv
  OBVIOUS
<1>1. EndInv
  BY EndInvInit
<1>2. /\ wire = <<>> /\ calls = <<>> /\ tv.media = 0 /\ tv.url = 0 /\ thread.url = 1
      /\ ~thread.accepted /\ ~thread.reused /\ thread.over = "none" /\ thread.at = "setup"
      /\ thread.wait = "none"
  BY DEF Init
<1>3. Marks /\ BeforeReady
  BY <1>2 DEF Marks, BeforeReady, NoLoad, Loading
<1>4. Urls /\ Fresh
  BY <1>2 DEF Urls, Fresh, NoLoad, LoadLast
<1>5. Accepted /\ OverAtEnd /\ NewLoadSurvives
  BY <1>2 DEF Accepted, OverAtEnd, NewLoadSurvives
<1> QED
  BY <1>1, <1>3, <1>4, <1>5 DEF LoadInv

\* Once a load was answered, the end of the media it replaced does not end the
\* cast (load_media and run_session).
THEOREM NewLoadSurvivesHolds == Spec => []NewLoadSurvives
<1>1. LoadInv => NewLoadSurvives
  BY DEF LoadInv
<1> QED
  BY <1>1, LoadInvInit, LoadInvNext, ThreadInvariant, PTL DEF Spec

===============================================================================
