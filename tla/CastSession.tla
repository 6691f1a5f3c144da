----------------------------- MODULE CastSession -----------------------------
(***************************************************************************)
(* One Google Cast thread (run_session in cast.rs): the queue of           *)
(* CastCommands, the requests it sends and waits for, the media session it *)
(* tracks, the loop that receives and polls, and the limit on frames read  *)
(* behind a helper's back.  Around it: the daemon's end of the queue, and  *)
(* the receiver with the two ordered streams of its TLS connection.        *)
(*                                                                         *)
(* A rust_cast helper waits for the answer to one request and keeps every  *)
(* message that is not it; `receive` hands those out first.  A message or  *)
(* request is marked `re` while it belongs to the request the thread waits *)
(* for now; a wait that ends takes the mark off whatever is still          *)
(* underway, so a late answer is an ordinary status.                       *)
(*                                                                         *)
(* Left out: volume, positions, track lists, and the keyframe lookup.  A   *)
(* seek of a transcoded stream is a "reload" (same code, a URL of its own);*)
(* volume, mute and subtitle changes are "adjust": a call whose outcome no *)
(* decision here reads.                                                    *)
(***************************************************************************)
EXTENDS Integers, Sequences

CONSTANTS
    Commands,       \* which of "pause", "resume", "seek", "reload", "adjust"
    MaxCommands,    \* bound on the commands users send
    MaxWire,        \* bound on messages underway or kept
    MaxCalls,       \* bound on requests the receiver has not looked at
    FrameCap,       \* MAX_UNCLAIMED_FRAMES
    ErrorLimit,     \* receive errors in a row that are tolerated (5)
    Reported,       \* what a receiver reports unasked, of Players
    LoadReplies,    \* how a receiver answers a load (TvLoads)
    Endings,        \* how media ends by itself: "Finished", "Error", ...
    Noise           \* messages about nothing: "other", or "odd" (unparseable)

ASSUME CommandsAssumption ==
    Commands \subseteq {"pause", "resume", "seek", "reload", "adjust"}
ASSUME BoundsAssumption ==
    /\ {MaxCommands, MaxWire, MaxCalls, FrameCap, ErrorLimit} \subseteq Nat
    /\ MaxCalls > 0
ASSUME ReportedAssumption == Reported \subseteq {"Playing", "Paused", "Buffering"}
ASSUME LoadRepliesAssumption == LoadReplies \subseteq {"whole", "noRequest", "noEntry"}
ASSUME EndingsAssumption == Endings \subseteq {"Finished", "Error", "Interrupted"}
ASSUME NoiseAssumption == Noise \subseteq {"other", "odd"}

VARIABLES
    session,   \* the shared Session: still ours?, and its state
    queue,     \* CastCommands sent and not drained
    sent,      \* how many commands users sent (bounded)
    told,      \* the daemon sent Shutdown and dropped its CastSession
    thread,    \* the thread's program point and locals
    held,      \* messages a helper kept for later
    wire,      \* messages from the receiver, in order
    calls,     \* requests to the receiver, in order
    tv,        \* the receiver: its app and the media it plays
    frames,    \* FrameBudget: frames read since the loop last reset it
    jammed,    \* FrameLimit::failed
    link,      \* the TCP connection is up
    announced  \* SessionEnded was sent

threadVars == <<thread, held, frames, jammed, announced>>
tvVars == <<tv, link>>
daemonVars == <<queue, sent, told>>
vars == <<session, daemonVars, threadVars, wire, calls, tvVars>>

-------------------------------------------------------------------------------
(* The data *)

Players == {"Playing", "Paused", "Buffering"}
Overs == {"Finished", "Error", "Interrupted"}

\* id: media session, 0 when the status has no entry.
Status(id, url, player, re) ==
    [type |-> "status", id |-> id, url |-> url, player |-> player, re |-> re]
Bare(type, re) == [Status(0, 0, "none", re) EXCEPT !.type = type]

Unmarked(s) == [i \in DOMAIN s |-> [s[i] EXCEPT !.re = FALSE]]

\* The receiver may forget requests it had no time for.
Sent(call) ==
    Append(IF Len(calls) < MaxCalls THEN calls ELSE Tail(calls), call)

Call(op, id, url) == [op |-> op, id |-> id, url |-> url, re |-> TRUE]

\* got: the status the first load was answered with.  accepted: the last load
\* was answered, with a media session.  reused: it named the URL of the load
\* before.  over: the status that ended the cast.  The last three are history,
\* read by properties only.
Init ==
    /\ session = [ours |-> TRUE, state |-> "Connecting"]
    /\ queue = <<>>
    /\ sent = 0
    /\ told = FALSE
    /\ thread = [at |-> "setup", wait |-> "none", msid |-> 0, url |-> 1,
                 running |-> TRUE, errors |-> 0, got |-> Bare("none", FALSE),
                 accepted |-> FALSE, reused |-> FALSE, over |-> "none"]
    /\ held = <<>>
    /\ wire = <<>>
    /\ calls = <<>>
    /\ tv = [app |-> FALSE, media |-> 0, url |-> 0, player |-> "none", last |-> 0]
    /\ frames = 0
    /\ jammed = FALSE
    /\ link = TRUE
    /\ announced = FALSE

-------------------------------------------------------------------------------
(* Writes of the shared Session *)

\* Mutation of Update: the id is not compared.
UpdateUnchecked(state) == [session EXCEPT !.state = state]

\* `update`: a write that compares the session id first.
Update(state) == IF session.ours THEN [session EXCEPT !.state = state] ELSE session

Flipped(from, to) == IF session.state = from THEN Update(to) ELSE session

\* Mutation of Ends: media that another sender replaces does not end the cast.
EndsIgnoringInterrupted(m, msid) ==
    session.ours /\ m.player \in {"Finished", "Error"}

\* Mutation of Ends: an interrupted media session ends the cast whichever it is.
EndsAnySession(m, msid) == session.ours /\ m.player \in Overs

\* What publish_status makes of a status when the thread tracks `msid`.
Ends(m, msid) ==
    /\ session.ours
    /\ \/ m.player \in {"Finished", "Error"}
       \/ m.player = "Interrupted" /\ msid \in {0, m.id}

Published(m, msid) ==
    IF m.player \in Players THEN Update(m.player)
    ELSE IF ~Ends(m, msid) THEN session
    ELSE Update(IF m.player = "Error" THEN "Error" ELSE "Stopped")

-------------------------------------------------------------------------------
(* A helper: a request, and the wait for its answer *)

Loading == thread.wait \in {"first", "load"}

\* Mutation of LoadAnswer: any status with an entry passes for the answer.
LoadAnswerAny(m) == m.type = "status" /\ (m.re \/ m.player # "none")

\* load_media takes a status with its request id, or one that is not idle and
\* already names the URL that was asked for.
LoadAnswer(m) ==
    /\ m.type = "status"
    /\ m.re \/ (m.player \in Players /\ m.url = thread.url)

Answers(m) == IF Loading THEN LoadAnswer(m) ELSE m.type = "status" /\ m.re

\* A refusal is consumed and its wait is over; edit_tracks does not ask whose
\* request was invalid.
Refuses(m) ==
    \/ m.type \in {"loadFailed", "invalid"} /\ m.re
    \/ m.type = "invalid" /\ thread.wait = "adjust"
    \/ m.type = "odd"

\* The wait got its answer m, the head of the wire.
Accept(m) ==
    /\ wire' = Unmarked(Tail(wire))
    /\ calls' = Unmarked(calls)
    /\ held' = held
    /\ LET next == [thread EXCEPT !.wait = "none", !.at = "drain"] IN
       CASE thread.wait = "first" ->
              /\ UNCHANGED session
              /\ thread' = [next EXCEPT !.at = "greet", !.got = m]
         [] thread.wait = "load" ->
              /\ session' = Update("Buffering")
              /\ thread' = [next EXCEPT !.accepted = m.id # 0,
                                        !.msid = IF m.id = 0 THEN @ ELSE m.id]
         [] thread.wait = "poll" ->
              /\ session' = Published(m, thread.msid)
              /\ thread' = IF Ends(m, thread.msid)
                           THEN [next EXCEPT !.at = "ending", !.over = m.player]
                           ELSE next
         [] thread.wait = "pause" ->
              session' = Flipped("Playing", "Paused") /\ thread' = next
         [] thread.wait \in {"resume", "seek"} ->
              session' = Flipped("Paused", "Playing") /\ thread' = next
         [] OTHER -> UNCHANGED session /\ thread' = next

\* The wait failed.  The first load ends the thread; the failure of any other
\* request is only logged.
Abandon(rest) ==
    /\ thread' = [thread EXCEPT
                    !.at = IF thread.wait = "first" THEN "gone" ELSE "drain",
                    !.accepted = @ /\ ~Loading,
                    !.wait = "none"]
    /\ wire' = Unmarked(rest)
    /\ calls' = Unmarked(calls)
    /\ UNCHANGED <<session, held>>

\* FrameBudget::note_frame: FrameCap frames since the loop last took a message,
\* or too long a wait since the first of them.
OverBudget == frames >= FrameCap
MayBeOverBudget == frames >= 1

Readable == link /\ ~jammed /\ wire # <<>>

\* Past the bound MaxWire one more message about nothing is not kept, so that a
\* flood can go on for ever.
WaitRead ==
    /\ thread.at = "wait"
    /\ Readable /\ ~OverBudget
    /\ frames' = IF frames < FrameCap THEN frames + 1 ELSE frames
    /\ LET m == Head(wire) IN
       \/ Answers(m) /\ Accept(m)
       \/ ~Answers(m) /\ Refuses(m) /\ Abandon(Tail(wire))
       \/ /\ ~Answers(m) /\ ~Refuses(m)
          /\ held' = IF m.type = "other" /\ Len(held) >= MaxWire
                     THEN held ELSE Append(held, m)
          /\ wire' = Tail(wire)
          /\ UNCHANGED <<session, thread, calls>>
    /\ UNCHANGED <<daemonVars, tvVars, jammed, announced>>

\* A frame past the budget: the stream is given up for good.
WaitJams ==
    /\ thread.at = "wait"
    /\ Readable /\ (OverBudget \/ MayBeOverBudget)
    /\ jammed' = TRUE
    /\ Abandon(wire)
    /\ UNCHANGED <<daemonVars, tvVars, frames, announced>>

\* No message within the read timeout, or no connection any more.
WaitEnds ==
    /\ thread.at = "wait"
    /\ wire = <<>> \/ ~link \/ jammed
    /\ Abandon(wire)
    /\ UNCHANGED <<daemonVars, tvVars, frames, jammed, announced>>

-------------------------------------------------------------------------------
(* The thread *)

Ask(kind, call) ==
    /\ calls' = Sent(call)
    /\ thread' = [thread EXCEPT !.at = "wait", !.wait = kind]

Go(at) == thread' = [thread EXCEPT !.at = at]

\* TCP, TLS, CONNECT and LAUNCH; then the first load.
SetUp ==
    /\ thread.at = "setup"
    /\ \/ link /\ Ask("first", Call("load", 0, thread.url))
       \/ Go("gone") /\ UNCHANGED calls
    /\ UNCHANGED <<session, daemonVars, held, wire, tvVars, frames, jammed,
                   announced>>

\* `ready` was sent; the first status is published under no media session.
Greet ==
    /\ thread.at = "greet"
    /\ session' = Published(thread.got, -1)
    /\ thread' = [thread EXCEPT !.at = "drain", !.msid = thread.got.id,
                                !.accepted = thread.got.id # 0,
                                !.got = Bare("none", FALSE)]
    /\ UNCHANGED <<daemonVars, held, wire, calls, tvVars, frames, jammed, announced>>

\* One CastCommand.  Requests about the media need a media session to name.
Drain ==
    /\ thread.at = "drain"
    /\ queue # <<>>
    /\ queue' = Tail(queue)
    /\ LET c == Head(queue) IN
       \/ /\ c = "shutdown"
          /\ thread' = [thread EXCEPT !.running = FALSE]
          /\ UNCHANGED calls
       \/ /\ c = "reload"
          /\ \E url \in {thread.url, thread.url + 1} :
               /\ calls' = Sent(Call("load", 0, url))
               /\ thread' = [thread EXCEPT !.at = "wait", !.wait = "load",
                                           !.url = url, !.reused = (url = thread.url)]
       \/ /\ c \in {"pause", "resume", "seek", "adjust"} /\ thread.msid # 0
          /\ Ask(c, Call(c, thread.msid, 0))
       \/ /\ c \in {"pause", "resume", "seek", "adjust"} /\ thread.msid = 0
          /\ UNCHANGED <<thread, calls>>
    /\ UNCHANGED <<session, sent, told, held, wire, tvVars, frames, jammed,
                   announced>>

\* Mutation of Drained: the loop goes on after Shutdown.
DrainedGoesOn ==
    /\ thread.at = "drain"
    /\ queue = <<>>
    /\ Go("check")
    /\ UNCHANGED <<session, daemonVars, held, wire, calls, tvVars, frames, jammed,
                   announced>>

\* The queue is empty.
Drained ==
    /\ thread.at = "drain"
    /\ queue = <<>>
    /\ Go(IF thread.running THEN "check" ELSE "ending")
    /\ UNCHANGED <<session, daemonVars, held, wire, calls, tvVars, frames, jammed,
                   announced>>

\* is_stale, then the reset of the frame budget.
Check ==
    /\ thread.at = "check"
    /\ IF session.ours THEN Go("receive") /\ frames' = 0
                       ELSE Go("gone") /\ UNCHANGED frames
    /\ UNCHANGED <<session, daemonVars, held, wire, calls, tvVars, jammed, announced>>

\* One message of the receive loop.
Handled(m) ==
    LET errors == IF m.type = "odd" THEN thread.errors + 1 ELSE 0
        next == [thread EXCEPT !.errors = errors, !.at = "poll"]
        adopted == [next EXCEPT !.msid = IF @ = 0 THEN m.id ELSE @]
    IN CASE m.type = "status" ->
              /\ session' = Published(m, thread.msid)
              /\ thread' = IF Ends(m, thread.msid)
                           THEN [adopted EXCEPT !.at = "ending", !.over = m.player]
                           ELSE adopted
         [] m.type \in {"loadFailed", "error"} ->
              /\ session' = Update("Error")
              /\ thread' = [next EXCEPT !.at = "ending", !.over = "Error"]
         [] m.type = "odd" /\ errors > ErrorLimit ->
              session' = Update("Error") /\ thread' = [next EXCEPT !.at = "announce"]
         [] OTHER -> UNCHANGED session /\ thread' = next

\* MessageManager::receive: what a helper kept comes first.
Receive ==
    /\ thread.at = "receive"
    /\ \/ /\ held # <<>>
          /\ Handled(Head(held))
          /\ held' = Tail(held)
          /\ UNCHANGED <<wire, frames>>
       \/ /\ held = <<>> /\ Readable
          /\ Handled(Head(wire))
          /\ wire' = Tail(wire)
          /\ frames' = 1
          /\ UNCHANGED held
    /\ UNCHANGED <<daemonVars, calls, tvVars, jammed, announced>>

\* Nothing to read: a timeout, or one more error on a broken connection.
ReceiveNothing ==
    /\ thread.at = "receive"
    /\ held = <<>> /\ ~Readable
    /\ IF link /\ ~jammed THEN Go("poll") /\ UNCHANGED session
       ELSE LET lost == thread.errors + 1 > ErrorLimit IN
            /\ session' = IF lost THEN Update("Error") ELSE session
            /\ thread' = [thread EXCEPT !.errors = @ + 1,
                                        !.at = IF lost THEN "announce" ELSE "poll"]
    /\ UNCHANGED <<daemonVars, held, wire, calls, tvVars, frames, jammed, announced>>

\* GET_STATUS once POLL_INTERVAL is over, while something plays.
Poll ==
    /\ thread.at = "poll"
    /\ \/ Go("drain") /\ UNCHANGED calls
       \/ /\ session.ours /\ session.state \in {"Playing", "Paused"}
          /\ thread.msid # 0
          /\ Ask("poll", Call("poll", thread.msid, 0))
    /\ UNCHANGED <<session, daemonVars, held, wire, tvVars, frames, jammed,
                   announced>>

\* teardown: STOP and the stop of the app, best effort.
Teardown ==
    /\ thread.at = "ending"
    /\ calls' = IF link THEN Sent(Call("stop", thread.msid, 0)) ELSE calls
    /\ Go(IF thread.running THEN "announce" ELSE "gone")
    /\ UNCHANGED <<session, daemonVars, held, wire, tvVars, frames, jammed,
                   announced>>

Announce ==
    /\ thread.at = "announce"
    /\ announced' = TRUE
    /\ Go("gone")
    /\ UNCHANGED <<session, daemonVars, held, wire, calls, tvVars, frames, jammed>>

-------------------------------------------------------------------------------
(* The daemon: it sends commands once the handshake is over *)

Ready == thread.at \notin {"setup", "greet"} /\ thread.wait # "first"

Send(c) ==
    /\ Ready /\ ~told /\ sent < MaxCommands
    /\ queue' = Append(queue, c)
    /\ sent' = sent + 1
    /\ session' = CASE c = "pause" -> Flipped("Playing", "Paused")
                    [] c = "resume" -> Flipped("Paused", "Playing")
                    [] OTHER -> session
    /\ UNCHANGED <<told, threadVars, wire, calls, tvVars>>

\* CastSession::shutdown, at a disconnect; the attempt's timeout sends it too.
Tell ==
    /\ ~told
    /\ told' = TRUE
    /\ queue' = Append(queue, "shutdown")
    /\ UNCHANGED <<session, sent, threadVars, wire, calls, tvVars>>

\* reset_session, after the media server is down.
ResetSession ==
    /\ told /\ session.ours
    /\ session' = [ours |-> FALSE, state |-> "Idle"]
    /\ UNCHANGED <<daemonVars, threadVars, wire, calls, tvVars>>

-------------------------------------------------------------------------------
(* The receiver *)

Room(n) == Len(held) + Len(wire) + n <= MaxWire

Say(messages) == Room(Len(messages)) /\ wire' = wire \o messages

Farewell(player) ==
    IF tv.media = 0 THEN <<>> ELSE <<Status(tv.media, tv.url, player, FALSE)>>

\* A load replaces what plays.  Some receivers leave out the request id, some
\* the media session.
TvLoads ==
    /\ link /\ calls # <<>> /\ Head(calls).op = "load"
    /\ LET c == Head(calls)  id == tv.last + 1 IN
       \/ /\ tv' = [app |-> TRUE, media |-> id, url |-> c.url,
                    player |-> "Buffering", last |-> id]
          /\ \E reply \in LoadReplies :
               Say(Append(Farewell("Interrupted"),
                          CASE reply = "whole" -> Status(id, c.url, "Buffering", c.re)
                            [] reply = "noRequest" -> Status(id, c.url, "Buffering", FALSE)
                            [] OTHER -> Bare("status", c.re)))
       \/ /\ tv' = [tv EXCEPT !.app = TRUE, !.media = 0, !.player = "none"]
          /\ Say(Append(Farewell("Interrupted"), Bare("loadFailed", c.re)))
    /\ calls' = Tail(calls)
    /\ UNCHANGED <<session, daemonVars, threadVars, link>>

TvAnswers ==
    /\ link /\ calls # <<>> /\ Head(calls).op \notin {"load", "stop"}
    /\ LET c == Head(calls)
           player == CASE c.op = "pause" -> "Paused"
                       [] c.op \in {"resume", "seek"} -> "Playing"
                       [] OTHER -> tv.player
       IN IF c.id = tv.media
          THEN /\ tv' = [tv EXCEPT !.player = player]
               /\ Say(<<Status(tv.media, tv.url, player, c.re)>>)
          ELSE /\ tv' = tv
               /\ Say(<<Bare(IF c.op = "poll" THEN "status" ELSE "invalid", c.re)>>)
    /\ calls' = Tail(calls)
    /\ UNCHANGED <<session, daemonVars, threadVars, link>>

TvStops ==
    /\ link /\ calls # <<>> /\ Head(calls).op = "stop"
    /\ tv' = [tv EXCEPT !.app = FALSE, !.media = 0, !.player = "none"]
    /\ calls' = Tail(calls)
    /\ UNCHANGED <<session, daemonVars, threadVars, wire, link>>

TvReports ==
    /\ link /\ tv.media # 0 /\ thread.at # "gone"
    /\ \E player \in Reported \ {tv.player} :
         /\ tv' = [tv EXCEPT !.player = player]
         /\ Say(<<Status(tv.media, tv.url, player, FALSE)>>)
    /\ UNCHANGED <<session, daemonVars, threadVars, calls, link>>

\* The media is over, fails, or another sender replaces it.
TvEnds ==
    /\ link /\ tv.media # 0 /\ thread.at # "gone"
    /\ \E how \in Endings :
         \/ Say(Farewell(how))
         \/ how = "Error" /\ Say(<<Bare("error", FALSE)>>)
    /\ tv' = [tv EXCEPT !.media = 0, !.player = "none"]
    /\ UNCHANGED <<session, daemonVars, threadVars, calls, link>>

TvNoise ==
    /\ link /\ thread.at \notin {"setup", "gone"}
    /\ \E type \in Noise :
         \/ Say(<<Bare(type, FALSE)>>)
         \/ type = "other" /\ wire = <<>> /\ wire' = <<Bare(type, FALSE)>>
    /\ UNCHANGED <<session, daemonVars, threadVars, calls, tvVars>>

LinkDown ==
    /\ link /\ thread.at # "gone"
    /\ link' = FALSE
    /\ wire' = <<>>
    /\ calls' = <<>>
    /\ UNCHANGED <<session, daemonVars, threadVars, tv>>

Terminated == thread.at = "gone" /\ UNCHANGED vars

-------------------------------------------------------------------------------

ThreadStep ==
    \/ SetUp \/ Greet \/ Drain \/ Drained \/ Check \/ Receive \/ ReceiveNothing
    \/ Poll \/ WaitRead \/ WaitJams \/ WaitEnds \/ Teardown \/ Announce

TvStep ==
    TvLoads \/ TvAnswers \/ TvStops \/ TvReports \/ TvEnds \/ TvNoise \/ LinkDown

Next ==
    \/ ThreadStep
    \/ \E c \in Commands : Send(c)
    \/ Tell \/ ResetSession
    \/ TvStep
    \/ Terminated

Spec == Init /\ [][Next]_vars

\* The OS runs the thread.  Every read of it has a timeout, so nothing is asked
\* of the receiver or the network.
FairSpec == Spec /\ WF_vars(ThreadStep)

-------------------------------------------------------------------------------
(* Properties *)

Underway == {held[i] : i \in DOMAIN held} \cup {wire[i] : i \in DOMAIN wire}

\* A thread that tracks a media session the receiver has left still has the
\* message ahead of it that ends the cast: no wait for another answer, no late
\* or failed load, makes it show "playing" for media that is over.
TheEndIsUnderway ==
    /\ thread.at \in {"drain", "check", "receive", "poll"}
    /\ session.ours /\ link /\ ~jammed
    /\ thread.msid \notin {0, tv.media}
    => \E m \in Underway :
         Ends(m, thread.msid) \/ m.type \in {"error", "loadFailed"}

\* Once a load was answered, the "Interrupted" of the media session it replaced
\* never ends the cast: the media it started is over then (load_media and
\* run_session, "would otherwise pass for the new load and end the cast").  A
\* load that reuses the URL is excepted: a status of the old media that is still
\* underway passes for its answer.
NewLoadSurvives ==
    /\ thread.at = "ending" /\ thread.over = "Interrupted"
    /\ thread.accepted /\ ~thread.reused
    => tv.media = 0

\* A thread told to shut down ends, however the receiver behaves, even one that
\* floods the connection.
ToldThreadEnds == told ~> thread.at = "gone"

\* Media that is over ends the cast, unless a load puts new media there, and so
\* does a connection that is lost or given up.
EndsAreNoticed ==
    /\ Ready /\ tv.media = 0 ~> thread.at = "gone" \/ tv.media # 0
    /\ ~link \/ jammed ~> thread.at = "gone"

\* A load that failed does not leave the session as it was (CHANGELOG, "A failed
\* seek or boost restream now ends the session with an error").
FailedReloadEnds ==
    Ready /\ ~thread.accepted ~> thread.at = "gone" \/ told \/ thread.accepted

\* What the thread may still do, as the daemon sees it.
Phase ==
    CASE thread.at = "setup" \/ thread.wait = "first" -> "handshake"
      [] thread.at = "ending" /\ thread.running -> "announce"
      [] thread.at \in {"greet", "announce", "gone"} -> thread.at
      [] OTHER -> "running"

\* Every step is one the daemon reckons with.
Watcher == INSTANCE CastWatcher WITH
    mine <- session.ours, state <- session.state, phase <- Phase

RefinesWatcher == Watcher!Spec
===============================================================================
