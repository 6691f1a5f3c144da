------------------------------ MODULE CastDaemon ------------------------------
(***************************************************************************)
(* The session core of omarchy-castd (daemon.rs): the shared Session, the  *)
(* Active table, the commands that hold the action mutex for their whole   *)
(* run, the tasks that watch the receiver and write the Session without    *)
(* that mutex (one DLNA or AirPlay poller, or one Google Cast thread per   *)
(* session), the SessionEnded channel and the auto-stop task that reads    *)
(* it, and shutdown.                                                       *)
(*                                                                         *)
(* Granularity.  Every `.await` of a command is a step boundary; what a    *)
(* command does to the shared state between two awaits is one action.  A   *)
(* command does nothing before it has the action mutex, so a request that  *)
(* waits for it has no state here and taking the mutex is the command's    *)
(* first step.  The mutex is held exactly while op.name # "free".          *)
(*                                                                         *)
(* A watcher is a tokio task (poller) or a thread (Cast).  Aborting a task *)
(* only takes effect at its next await: one that already has its readings  *)
(* finishes its synchronous write section first ("apply", "announce").     *)
(*                                                                         *)
(* Left out: volume, mute, position, duration, titles (the data of a       *)
(* Session no decision here depends on), a seek of a directly served file  *)
(* (it writes only the position), and the receiver itself, whose answers   *)
(* are arbitrary until it is switched off.                                 *)
(***************************************************************************)
EXTENDS Naturals, Sequences

CONSTANTS
    Protocols,        \* the protocols of the receivers in reach
    Commands,         \* the commands users issue besides connect/disconnect
    Watchers,         \* watcher slots: bounds the watchers alive at a time
    NoWatcher,        \* "no watcher" (an empty Option)
    MaxId,            \* bound on the session ids given out
    MaxQueue,         \* no new reload is begun with this many events queued
    UnreachableLimit, \* POLL_UNREACHABLE_LIMIT
    Prompt            \* timing: synchronous code is faster than any wait

Pollable == {"dlna", "airplay"}
AllProtocols == Pollable \cup {"cast"}

ASSUME ProtocolsAssumption == Protocols \subseteq AllProtocols
ASSUME CommandsAssumption ==
    Commands \subseteq {"pause", "resume", "seek", "subtitle", "boost"}
ASSUME WatchersAssumption == NoWatcher \notin Watchers
ASSUME MaxIdAssumption == MaxId \in Nat
ASSUME MaxQueueAssumption == MaxQueue \in Nat
ASSUME UnreachableLimitAssumption == UnreachableLimit \in Nat \ {0}
ASSUME PromptAssumption == Prompt \in BOOLEAN

VARIABLES
    session,   \* Daemon::state, the shared Session
    nextId,    \* Daemon::next_session_id
    op,        \* who holds the action mutex, where it is, and its locals
    conn,      \* Active::{cast, dlna, airplay}: the registered watcher
    serve,     \* Active::serve: how the file is served
    media,     \* Active::media: whether a server handle is registered
    servers,   \* how many media servers are running
    watch,     \* the watcher tasks and threads
    events,    \* the SessionEnded channel
    handling,  \* the event the auto-stop task is busy with, 0 for none
    reachable, \* environment: the receiver is still on the network
    exited     \* the process has exited

vars == <<session, nextId, op, conn, serve, media, servers, watch, events,
          handling, reachable, exited>>

-------------------------------------------------------------------------------
(* The data *)

States == {"Idle", "Connecting", "Buffering", "Playing", "Paused", "Stopped",
           "Error"}

\* SessionState::is_active
IsActive(state) == state \notin {"Idle", "Stopped"}

\* What auto_stop tears down.
HasEnded(state) == state \in {"Stopped", "Error"}

NoSession == [id |-> 0, state |-> "Idle", proto |-> "none"]

\* The holder of the action mutex.  id: the session id it works for; att: a
\* watcher it has spawned and not registered yet; retried, ready: the Cast
\* attempt it waits for; ok: whether the receiver took the reload.
Unlocked == [name |-> "free", step |-> "none", id |-> 0, att |-> NoWatcher,
             retried |-> FALSE, ready |-> "none", ok |-> TRUE]

\* A slot without a task.
Gone == [kind |-> "none", sid |-> 0, pc |-> "gone", seen |-> FALSE,
         sample |-> "none", miss |-> 0, cut |-> FALSE]

Poller(proto, sid) ==
    [Gone EXCEPT !.kind = proto, !.sid = sid, !.pc = "tick"]

CastThread(sid) ==
    [Gone EXCEPT !.kind = "cast", !.sid = sid, !.pc = "handshake"]

NoConn == [p \in AllProtocols |-> NoWatcher]

Registered == {conn[p] : p \in AllProtocols} \ {NoWatcher}

\* A slot a new task may take: nothing runs in it and nobody holds its handle.
Vacant(w) == watch[w] = Gone /\ w \notin Registered /\ w # op.att

\* JoinHandle::abort on a poller, CastCommand::Shutdown to a Cast thread.  A
\* poller at an await is dropped there; one past its last await runs on until
\* the next tick; a Cast thread sees the command when it next drains its queue.
Aborted(r) ==
    IF r.kind = "cast" \/ r.pc \in {"apply", "announce"}
    THEN [r EXCEPT !.cut = TRUE]
    ELSE Gone

Abort(ws) == [w \in Watchers |-> IF w \in ws THEN Aborted(watch[w]) ELSE watch[w]]

Init ==
    /\ session = NoSession
    /\ nextId = 1
    /\ op = Unlocked
    /\ conn = NoConn
    /\ serve = "none"
    /\ media = FALSE
    /\ servers = 0
    /\ watch = [w \in Watchers |-> Gone]
    /\ events = <<>>
    /\ handling = 0
    /\ reachable = TRUE
    /\ exited = FALSE

-------------------------------------------------------------------------------
(* The action mutex *)

activeVars == <<conn, serve, media, servers>>
taskVars == <<watch, events, handling>>
outerVars == <<reachable, exited>>

Free == op = Unlocked /\ ~exited

At(name, step) == op.name = name /\ op.step = step /\ ~exited

AtAny(names, step) == op.name \in names /\ At(op.name, step)

\* The command `name` takes the mutex and goes on at `step`.
Acquire(name, step) == Free /\ op' = [Unlocked EXCEPT !.name = name, !.step = step]

(***************************************************************************)
(* Timing.  With Prompt = FALSE any thread may be preempted anywhere for   *)
(* any time.  With Prompt = TRUE, code that runs between two awaits is     *)
(* over before a wait for the network or a timer is: an aborted poller     *)
(* finishes before a server stops or starts or a receiver answers, and the *)
(* command that spawned a poller is done with the session before that      *)
(* poller, whose verdicts take at least a second tick, ends it.            *)
(***************************************************************************)
AbortedAreDone ==
    Prompt => \A w \in Watchers :
        watch[w].cut /\ watch[w].kind \in Pollable
            => watch[w].pc \notin {"apply", "announce"}

SpawnerIsBusy == Prompt /\ op.step \in {"putback", "buffering"}

Goto(step) == op' = [op EXCEPT !.step = step]

Release == op' = Unlocked

\* Mutation of GiveUp: the session is reset without a teardown.
GiveUpWithoutTeardown == op' = [Unlocked EXCEPT !.name = "disconnect", !.step = "reset"]

\* A connect that fails does what disconnect does: disconnect_locked, then
\* reset_session.
GiveUp == op' = [Unlocked EXCEPT !.name = "disconnect", !.step = "teardown"]

-------------------------------------------------------------------------------
(* disconnect_locked, shared by connect, disconnect, auto_stop, shutdown *)

Teardowns == {"connect", "disconnect", "autostop", "shutdown"}

\* Takes the watchers out of Active and stops them; the serve context goes.
TakeActive ==
    /\ AtAny(Teardowns, "teardown")
    /\ conn' = NoConn
    /\ serve' = "none"
    /\ watch' = Abort(Registered)
    /\ Goto("stopping")
    /\ UNCHANGED <<session, nextId, media, servers, events, handling, outerVars>>

\* Mutation of StopServer: it stops a server whether or not there is one.
StopServerUnasked ==
    /\ AtAny(Teardowns, "stopping")
    /\ media' = FALSE
    /\ servers' = servers - 1
    /\ Goto(IF op.name = "connect" THEN "publish" ELSE "reset")
    /\ UNCHANGED <<session, nextId, conn, serve, taskVars, outerVars>>

\* MediaServer::stop().await on the server taken out of Active, if any.
StopServer ==
    /\ AtAny(Teardowns, "stopping")
    /\ AbortedAreDone
    /\ media' = FALSE
    /\ servers' = IF media THEN servers - 1 ELSE servers
    /\ Goto(CASE op.name = "connect" -> "publish"
              [] op.name = "shutdown" -> "grace"
              [] OTHER -> "reset")
    /\ UNCHANGED <<session, nextId, conn, serve, taskVars, outerVars>>

\* reset_session at the end of disconnect, a failed connect and auto_stop.
Reset ==
    /\ AtAny({"disconnect", "autostop"}, "reset")
    /\ session' = NoSession
    /\ handling' = IF op.name = "autostop" THEN 0 ELSE handling
    /\ Release
    /\ UNCHANGED <<nextId, activeVars, watch, events, outerVars>>

\* Mutation of Disconnect: the session is reset before it is torn down.
DisconnectResetsFirst ==
    /\ Acquire("disconnect", "teardown")
    /\ session' = NoSession
    /\ UNCHANGED <<nextId, activeVars, taskVars, outerVars>>

Disconnect ==
    /\ Acquire("disconnect", "teardown")
    /\ UNCHANGED <<session, nextId, activeVars, taskVars, outerVars>>

-------------------------------------------------------------------------------
(* connect *)

\* A request that passes validation; one that does not changes nothing.
Connect ==
    /\ nextId <= MaxId
    /\ Acquire("connect", "teardown")
    /\ UNCHANGED <<session, nextId, activeVars, taskVars, outerVars>>

\* A fresh id, published as Connecting before anything slow.
Publish ==
    /\ At("connect", "publish")
    /\ nextId' = nextId + 1
    /\ session' = [id |-> nextId, state |-> "Connecting", proto |-> "none"]
    /\ op' = [op EXCEPT !.id = nextId, !.step = "lookup"]
    /\ UNCHANGED <<activeVars, taskVars, outerVars>>

\* The device is in the cache, discovered or probed.
Lookup ==
    /\ At("connect", "lookup")
    /\ \E p \in Protocols :
         session' = IF session.id = op.id
                    THEN [session EXCEPT !.proto = p]
                    ELSE session
    /\ Goto("firewall")
    /\ UNCHANGED <<nextId, activeVars, taskVars, outerVars>>

UnknownDevice ==
    /\ At("connect", "lookup")
    /\ session' = NoSession
    /\ Release
    /\ UNCHANGED <<nextId, activeVars, taskVars, outerVars>>

FirewallOpened ==
    /\ At("connect", "firewall")
    /\ Goto("serve")
    /\ UNCHANGED <<session, nextId, activeVars, taskVars, outerVars>>

\* firewall::open, start_media, the receiver: any of them refuses.
ConnectFails ==
    /\ At("connect", op.step)
    /\ \/ op.step \in {"firewall", "serve"}
       \/ op.step = "play" /\ session.proto # "cast"
    /\ GiveUp
    /\ UNCHANGED <<session, nextId, activeVars, taskVars, outerVars>>

\* start_media: the handle goes into Active over whatever was there.
StartMedia ==
    /\ media' = TRUE
    /\ servers' = servers + 1

ConnectServe ==
    /\ At("connect", "serve")
    /\ StartMedia
    /\ Goto("play")
    /\ UNCHANGED <<session, nextId, conn, serve, taskVars, outerVars>>

\* The renderer takes the stream; its poller starts before it is registered.
ConnectPlay ==
    /\ At("connect", "play")
    /\ session.proto \in Pollable
    /\ reachable
    /\ \E w \in Watchers :
         /\ Vacant(w)
         /\ watch' = [watch EXCEPT ![w] = Poller(session.proto, op.id)]
         /\ op' = [op EXCEPT !.att = w, !.step = "register"]
    /\ UNCHANGED <<session, nextId, activeVars, events, handling, outerVars>>

\* cast::connect: a thread for this attempt, which reports through `ready`.
CastAttempt ==
    /\ At("connect", "play")
    /\ session.proto = "cast"
    /\ \E w \in Watchers :
         /\ Vacant(w)
         /\ watch' = [watch EXCEPT ![w] = CastThread(op.id)]
         /\ op' = [op EXCEPT !.att = w, !.ready = "none", !.step = "handshake"]
    /\ UNCHANGED <<session, nextId, activeVars, events, handling, outerVars>>

CastConnected ==
    /\ At("connect", "handshake")
    /\ op.ready = "ok"
    /\ Goto("register")
    /\ UNCHANGED <<session, nextId, activeVars, taskVars, outerVars>>

\* Mutation of CastAttemptFails: a timed-out attempt is not told to stop.
CastAttemptForgotten ==
    /\ At("connect", "handshake")
    /\ op.ready # "ok"
    /\ IF op.retried
       THEN GiveUp
       ELSE op' = [op EXCEPT !.att = NoWatcher, !.ready = "none",
                             !.retried = TRUE, !.step = "play"]
    /\ UNCHANGED <<session, nextId, activeVars, taskVars, outerVars>>

\* The thread reports an error, or nothing for 25 s (it is then told to shut
\* down but lives on).  One retry, for the same session.
CastAttemptFails ==
    /\ At("connect", "handshake")
    /\ \/ op.ready = "err" /\ UNCHANGED watch
       \/ op.ready = "none" /\ watch' = Abort({op.att})
    /\ IF op.retried
       THEN GiveUp
       ELSE op' = [op EXCEPT !.att = NoWatcher, !.ready = "none",
                             !.retried = TRUE, !.step = "play"]
    /\ UNCHANGED <<session, nextId, activeVars, events, handling, outerVars>>

Register ==
    /\ At("connect", "register")
    /\ conn' = [conn EXCEPT ![session.proto] = op.att]
    /\ serve' \in {"direct", "ffmpeg"}
    /\ op' = [op EXCEPT !.att = NoWatcher, !.step = "settle"]
    /\ UNCHANGED <<session, nextId, media, servers, taskVars, outerVars>>

\* Buffering, unless a watcher has already reported something else.
Settle ==
    /\ At("connect", "settle")
    /\ session' = IF session.id = op.id /\ session.state = "Connecting"
                  THEN [session EXCEPT !.state = "Buffering"]
                  ELSE session
    /\ Release
    /\ UNCHANGED <<nextId, activeVars, taskVars, outerVars>>

-------------------------------------------------------------------------------
(* pause and resume: the only state they touch is the session's *)

Flip(command, from, to) ==
    /\ Free
    /\ command \in Commands
    /\ \/ session.proto = "cast"
       \/ session.proto \in Pollable /\ conn[session.proto] # NoWatcher
    /\ session.state = from
    /\ session' = [session EXCEPT !.state = to]
    /\ UNCHANGED <<nextId, op, activeVars, taskVars, outerVars>>

Pause == Flip("pause", "Playing", "Paused")
Resume == Flip("resume", "Paused", "Playing")

-------------------------------------------------------------------------------
(* Reloading the stream: seek, set_subtitle, set_boost *)

\* A command that reloads the stream needs an active session when it starts.
BeginReload(command, step) ==
    /\ command \in Commands
    /\ Len(events) < MaxQueue
    /\ IsActive(session.state)
    /\ Acquire(command, step)

\* A seek inside an ffmpeg stream restarts it on DLNA and AirPlay.
Seek ==
    /\ BeginReload("seek", "restart")
    /\ session.proto \in Pollable
    /\ serve = "ffmpeg"
    /\ UNCHANGED <<session, nextId, activeVars, taskVars, outerVars>>

\* A DLNA TV takes a new subtitle track only with a video it loads.
SetSubtitle ==
    /\ BeginReload("subtitle", "restart")
    /\ session.proto = "dlna"
    /\ UNCHANGED <<session, nextId, activeVars, taskVars, outerVars>>

\* Mutation of SetBoost: the pollers go on polling.
SetBoostWithoutAbort ==
    /\ BeginReload("boost", IF serve = "none" THEN "fail" ELSE "swap")
    /\ UNCHANGED <<session, nextId, activeVars, taskVars, outerVars>>

\* restream_inner: the pollers must not take the swap for the end of playback.
SetBoost ==
    /\ BeginReload("boost", IF serve = "none" THEN "fail" ELSE "swap")
    /\ watch' = Abort({conn[p] : p \in Pollable} \ {NoWatcher})
    /\ UNCHANGED <<session, nextId, activeVars, events, handling, outerVars>>

\* Mutation of StopOldServer: the old server is left running.
StopOldServerForgotten ==
    /\ At("boost", "swap")
    /\ Goto("serve")
    /\ UNCHANGED <<session, nextId, activeVars, taskVars, outerVars>>

StopOldServer ==
    /\ At("boost", "swap")
    /\ AbortedAreDone
    /\ media' = FALSE
    /\ servers' = IF media THEN servers - 1 ELSE servers
    /\ Goto("serve")
    /\ UNCHANGED <<session, nextId, conn, serve, taskVars, outerVars>>

\* The new server is up.  A Cast thread only gets a Reload command; the
\* others restart the stream.
RestreamServe ==
    /\ At("boost", "serve")
    /\ StartMedia
    /\ AbortedAreDone
    /\ serve' \in {"direct", "ffmpeg"}
    /\ CASE session.proto # "cast" -> Goto("restart")
         [] session.proto = "cast" /\ conn["cast"] = NoWatcher -> Goto("fail")
         [] OTHER -> Release
    /\ UNCHANGED <<session, nextId, conn, taskVars, outerVars>>

RestreamServeFails ==
    /\ At("boost", "serve")
    /\ Goto("fail")
    /\ UNCHANGED <<session, nextId, activeVars, taskVars, outerVars>>

Reloads == {"seek", "subtitle", "boost"}

\* restart_dlna and restart_airplay take the session out of Active.
RestartTake ==
    /\ AtAny(Reloads, "restart")
    /\ IF serve = "none" \/ conn[session.proto] = NoWatcher
       THEN /\ IF op.name = "boost" THEN Goto("fail") ELSE Release
            /\ UNCHANGED <<conn, watch>>
       ELSE /\ watch' = Abort({conn[session.proto]})
            /\ conn' = [conn EXCEPT ![session.proto] = NoWatcher]
            /\ Goto("replay")
    /\ UNCHANGED <<session, nextId, serve, media, servers, events, handling,
                   outerVars>>

\* Mutation of Replay: no timeout on a receiver that does not answer.
ReplayUnbounded ==
    /\ AtAny(Reloads, "replay")
    /\ reachable
    /\ \E w \in Watchers :
         /\ Vacant(w)
         /\ watch' = [watch EXCEPT ![w] = Poller(session.proto, session.id)]
         /\ op' = [op EXCEPT !.att = w, !.step = "putback"]
    /\ UNCHANGED <<session, nextId, activeVars, events, handling, outerVars>>

\* Stop and play on the receiver; a new poller starts whatever it answered.
Replay ==
    /\ AtAny(Reloads, "replay")
    /\ AbortedAreDone
    /\ \E w \in Watchers, ok \in IF reachable THEN BOOLEAN ELSE {FALSE} :
         /\ Vacant(w)
         /\ watch' = [watch EXCEPT ![w] = Poller(session.proto, session.id)]
         /\ op' = [op EXCEPT !.att = w, !.ok = ok, !.step = "putback"]
    /\ UNCHANGED <<session, nextId, activeVars, events, handling, outerVars>>

PutBack ==
    /\ AtAny(Reloads, "putback")
    /\ conn' = [conn EXCEPT ![session.proto] = op.att]
    /\ op' = [op EXCEPT !.att = NoWatcher, !.step = "buffering"]
    /\ UNCHANGED <<session, nextId, serve, media, servers, taskVars, outerVars>>

\* The reload is Buffering, whatever the session was before.
Rebuffer ==
    /\ AtAny(Reloads, "buffering")
    /\ session' = [session EXCEPT !.state = "Buffering"]
    /\ IF op.ok THEN Release ELSE Goto("reject")
    /\ UNCHANGED <<nextId, activeVars, taskVars, outerVars>>

\* Mutation of FailSession: nobody is told.
FailSessionSilently ==
    /\ session' = [session EXCEPT !.state = IF IsActive(@) THEN "Error" ELSE @]
    /\ UNCHANGED events

\* fail_session: leave it to auto_stop to tear the session down.
FailSession ==
    IF IsActive(session.state)
    THEN /\ session' = [session EXCEPT !.state = "Error"]
         /\ events' = Append(events, session.id)
    ELSE UNCHANGED <<session, events>>

\* The receiver rejected the reload; restream then fails the session again.
Reject ==
    /\ AtAny(Reloads, "reject")
    /\ FailSession
    /\ IF op.name = "boost" THEN Goto("fail") ELSE Release
    /\ UNCHANGED <<nextId, activeVars, watch, handling, outerVars>>

FailRestream ==
    /\ At("boost", "fail")
    /\ FailSession
    /\ Release
    /\ UNCHANGED <<nextId, activeVars, watch, handling, outerVars>>

-------------------------------------------------------------------------------
(* auto_stop, run for one SessionEnded at a time *)

TakeEvent ==
    /\ ~exited
    /\ handling = 0
    /\ events # <<>>
    /\ handling' = Head(events)
    /\ events' = Tail(events)
    /\ UNCHANGED <<session, nextId, op, activeVars, watch, outerVars>>

\* Mutation of AutoStop: any ended session will do.
AutoStopAnySession ==
    /\ handling # 0
    /\ HasEnded(session.state)
    /\ Acquire("autostop", "teardown")
    /\ UNCHANGED <<session, nextId, activeVars, taskVars, outerVars>>

AutoStop ==
    /\ handling # 0
    /\ session.id = handling
    /\ HasEnded(session.state)
    /\ Acquire("autostop", "teardown")
    /\ UNCHANGED <<session, nextId, activeVars, taskVars, outerVars>>

\* The session was replaced, reset, or revived by a reload in the meantime.
AutoStopTooLate ==
    /\ Free
    /\ handling # 0
    /\ session.id # handling \/ ~HasEnded(session.state)
    /\ handling' = 0
    /\ UNCHANGED <<session, nextId, op, activeVars, watch, events, outerVars>>

-------------------------------------------------------------------------------
(* shutdown: the command or a signal; the session is not reset *)

\* Mutation of Shutdown: it exits without a teardown.
ShutdownAtOnce ==
    /\ Acquire("shutdown", "grace")
    /\ UNCHANGED <<session, nextId, activeVars, taskVars, outerVars>>

Shutdown ==
    /\ Acquire("shutdown", "teardown")
    /\ UNCHANGED <<session, nextId, activeVars, taskVars, outerVars>>

\* Mutation of Exit: no SHUTDOWN_GRACE, it waits for the receiver.
ExitUnbounded ==
    /\ At("shutdown", "grace")
    /\ reachable
    /\ exited' = TRUE
    /\ UNCHANGED <<session, nextId, op, activeVars, taskVars, reachable>>

\* The receivers have heard the stop, or 3 s have passed.
Exit ==
    /\ At("shutdown", "grace")
    /\ exited' = TRUE
    /\ UNCHANGED <<session, nextId, op, activeVars, taskVars, reachable>>

-------------------------------------------------------------------------------
(* dlna_poll and airplay_poll *)

PollerAt(w, pc) == watch[w].kind \in Pollable /\ watch[w].pc = pc /\ ~exited

PollCheck(w) ==
    /\ PollerAt(w, "tick")
    /\ watch' = [watch EXCEPT ![w] = IF session.id # @.sid
                                     THEN Gone
                                     ELSE [@ EXCEPT !.pc = "query"]]
    /\ UNCHANGED <<session, nextId, op, activeVars, events, handling, outerVars>>

\* What the receiver can answer; an unreachable one gives no transport state.
Answers(kind) ==
    LET silence == IF kind = "dlna" THEN "UNKNOWN" ELSE "NONE"
        some == IF kind = "dlna"
                THEN {"PLAYING", "PAUSED", "TRANSITIONING", "STOPPED"}
                ELSE {"PLAYING", "PAUSED"}
    IN {silence} \cup IF reachable THEN some ELSE {}

\* The last await of an iteration is over: the readings are in.
PollAnswer(w) ==
    /\ PollerAt(w, "query")
    /\ \E s \in Answers(watch[w].kind) :
         watch' = [watch EXCEPT ![w] = [@ EXCEPT !.sample = s, !.pc = "apply"]]
    /\ UNCHANGED <<session, nextId, op, activeVars, events, handling, outerVars>>

\* Mutation of Verdict: an unanswered poll says nothing.
VerdictIgnoresSilence(r, late, state) ==
    CASE r.seen /\ r.sample = "STOPPED" -> "Stopped"
      [] r.sample = "PLAYING" -> "Playing"
      [] r.sample = "PAUSED" -> "Paused"
      [] r.sample = "TRANSITIONING" -> "Buffering"
      [] OTHER -> state

\* What poller r makes of its sample; `late`: START_GRACE has passed.
Verdict(r, late, state) ==
    LET finished == r.seen /\ r.sample \in {"STOPPED", "NONE"}
        lost == /\ r.kind = "dlna"
                /\ r.sample = "UNKNOWN"
                /\ r.miss + 1 >= UnreachableLimit
        never == /\ late
                 /\ ~r.seen
                 /\ r.sample \notin {"PLAYING", "PAUSED"}
    IN CASE finished -> "Stopped"
         [] ~finished /\ (lost \/ never) -> "Error"
         [] r.sample = "PLAYING" -> "Playing"
         [] r.sample = "PAUSED" -> "Paused"
         [] r.sample = "TRANSITIONING" /\ ~never -> "Buffering"
         [] OTHER -> state

\* Whether the iteration ends the session, and hence the poller.
Ends(r, late) == Verdict(r, late, "Idle") \in {"Stopped", "Error"}

\* The poller after an iteration that did not end the session.
Polled(r) ==
    IF r.cut
    THEN Gone
    ELSE [r EXCEPT
            !.pc = "tick",
            !.sample = "none",
            !.seen = @ \/ r.sample \in {"PLAYING", "PAUSED"},
            !.miss = IF r.sample = "UNKNOWN" THEN @ + 1 ELSE 0]

\* Mutation of PollApply: the session id is not checked after the await.
PollApplyUnchecked(w, late) ==
    /\ PollerAt(w, "apply")
    /\ session' = [session EXCEPT !.state = Verdict(watch[w], late, @)]
    /\ watch' = [watch EXCEPT ![w] = IF Ends(@, late)
                                     THEN [@ EXCEPT !.pc = "announce"]
                                     ELSE Polled(@)]
    /\ UNCHANGED <<nextId, op, activeVars, events, handling, outerVars>>

\* The write section, which checks the session id again.
PollApply(w, late) ==
    /\ PollerAt(w, "apply")
    /\ IF session.id # watch[w].sid
       THEN /\ watch' = [watch EXCEPT ![w] = Gone]
            /\ UNCHANGED session
       ELSE /\ SpawnerIsBusy => ~Ends(watch[w], late)
            /\ session' = [session EXCEPT !.state = Verdict(watch[w], late, @)]
            /\ watch' = [watch EXCEPT ![w] = IF Ends(@, late)
                                             THEN [@ EXCEPT !.pc = "announce"]
                                             ELSE Polled(@)]
    /\ UNCHANGED <<nextId, op, activeVars, events, handling, outerVars>>

\* The ended session is announced, and the watcher is over.
Announce(w) ==
    /\ ~exited
    /\ watch[w].pc = "announce"
    /\ events' = Append(events, watch[w].sid)
    /\ watch' = [watch EXCEPT ![w] = Gone]
    /\ UNCHANGED <<session, nextId, op, activeVars, handling, outerVars>>

-------------------------------------------------------------------------------
(* The Cast thread, as far as the daemon can tell (CastSession details it) *)

CastAt(w, pc) == watch[w].kind = "cast" /\ watch[w].pc = pc /\ ~exited

\* The oneshot back to cast::connect, if it still listens.
TellReady(w, result) ==
    op' = IF op.att = w /\ op.step = "handshake"
          THEN [op EXCEPT !.ready = result]
          ELSE op

CastReady(w) ==
    /\ CastAt(w, "handshake")
    /\ watch' = [watch EXCEPT ![w].pc = "greet"]
    /\ TellReady(w, "ok")
    /\ UNCHANGED <<session, nextId, activeVars, events, handling, outerVars>>

CastRefused(w) ==
    /\ CastAt(w, "handshake")
    /\ watch' = [watch EXCEPT ![w] = Gone]
    /\ TellReady(w, "err")
    /\ UNCHANGED <<session, nextId, activeVars, events, handling, outerVars>>

\* Writes of a Cast thread go through `update`, which checks the session id.
Update(w, state) ==
    session' = IF session.id = watch[w].sid
               THEN [session EXCEPT !.state = state]
               ELSE session

\* The status the load answered with; that it may say "ended" is ignored.
CastGreet(w) ==
    /\ CastAt(w, "greet")
    /\ \E state \in {"Playing", "Paused", "Buffering", "Stopped", "Error"} :
         Update(w, state)
    /\ watch' = [watch EXCEPT ![w].pc = "running"]
    /\ UNCHANGED <<nextId, op, activeVars, events, handling, outerVars>>

CastPublish(w) ==
    /\ CastAt(w, "running")
    /\ \E state \in {"Playing", "Paused", "Buffering"} : Update(w, state)
    /\ UNCHANGED <<nextId, op, activeVars, taskVars, outerVars>>

\* The receiver ends the media, or the link is lost.
CastEnds(w) ==
    /\ CastAt(w, "running")
    /\ \E state \in {"Stopped", "Error"} :
         /\ state = "Stopped" => session.id = watch[w].sid
         /\ Update(w, state)
    /\ watch' = [watch EXCEPT ![w].pc = "announce"]
    /\ UNCHANGED <<nextId, op, activeVars, events, handling, outerVars>>

\* Mutation of CastLeaves: Shutdown is not drained from the queue.
CastLeavesIfStale(w) ==
    /\ CastAt(w, "running")
    /\ session.id # watch[w].sid
    /\ watch' = [watch EXCEPT ![w] = Gone]
    /\ UNCHANGED <<session, nextId, op, activeVars, events, handling, outerVars>>

\* Shutdown was drained from the queue, or the session is somebody else's.
CastLeaves(w) ==
    /\ CastAt(w, "running")
    /\ watch[w].cut \/ session.id # watch[w].sid
    /\ watch' = [watch EXCEPT ![w] = Gone]
    /\ UNCHANGED <<session, nextId, op, activeVars, events, handling, outerVars>>

-------------------------------------------------------------------------------
(* The environment *)

\* The receiver is switched off or leaves the network for good.
SwitchOff ==
    /\ reachable
    /\ ~exited
    /\ reachable' = FALSE
    /\ UNCHANGED <<session, nextId, op, activeVars, taskVars, exited>>

Terminated == exited /\ UNCHANGED vars

-------------------------------------------------------------------------------
(* The specification *)

TeardownStep == TakeActive \/ StopServer \/ Reset

ConnectStep ==
    \/ Publish \/ Lookup \/ UnknownDevice \/ FirewallOpened \/ ConnectFails
    \/ ConnectServe \/ ConnectPlay \/ CastAttempt \/ CastConnected
    \/ CastAttemptFails \/ Register \/ Settle

ReloadStep ==
    \/ StopOldServer \/ RestreamServe \/ RestreamServeFails \/ RestartTake
    \/ Replay \/ PutBack \/ Rebuffer \/ Reject \/ FailRestream

\* A step of the command that holds the action mutex.
HolderStep == TeardownStep \/ ConnectStep \/ ReloadStep \/ Exit

Request == Connect \/ Disconnect \/ Pause \/ Resume \/ Seek \/ SetSubtitle
           \/ SetBoost \/ Shutdown

AutoStopStep == AutoStop \/ AutoStopTooLate

PollStep(w) ==
    PollCheck(w) \/ PollAnswer(w) \/ (\E late \in BOOLEAN : PollApply(w, late))

CastStep(w) ==
    CastReady(w) \/ CastRefused(w) \/ CastGreet(w) \/ CastPublish(w)
    \/ CastEnds(w) \/ CastLeaves(w)

Next ==
    \/ HolderStep
    \/ Request
    \/ TakeEvent
    \/ AutoStopStep
    \/ \E w \in Watchers : PollStep(w) \/ CastStep(w) \/ Announce(w)
    \/ SwitchOff
    \/ Terminated

Spec == Init /\ [][Next]_vars

\* tokio runs every task and thread that can go on, so each continues (weak
\* fairness); the action mutex is FIFO, so the auto-stop task gets it in its
\* turn even under a stream of commands, and time passes, so START_GRACE does
\* elapse for a poller that goes on polling (strong fairness).  Users and the
\* receiver owe nothing.
Fairness ==
    /\ WF_vars(HolderStep)
    /\ WF_vars(TakeEvent)
    /\ SF_vars(AutoStopStep)
    /\ \A w \in Watchers :
         /\ WF_vars(PollStep(w))
         /\ SF_vars(PollApply(w, TRUE))
         /\ WF_vars(Announce(w))
         /\ WF_vars(CastReady(w) \/ CastRefused(w))
         /\ WF_vars(CastGreet(w))
         /\ WF_vars(CastLeaves(w))

FairSpec == Spec /\ Fairness

-------------------------------------------------------------------------------
(* Type invariant *)

Steps == {"none", "teardown", "stopping", "publish", "lookup", "firewall",
          "serve", "play", "handshake", "register", "settle", "reset", "swap",
          "restart", "replay", "putback", "buffering", "reject", "fail",
          "grace"}

Samples == {"none", "PLAYING", "PAUSED", "TRANSITIONING", "STOPPED", "UNKNOWN",
            "NONE"}

SessionType == [id : Nat, state : States, proto : AllProtocols \cup {"none"}]

OpType ==
    [name : {"free", "connect", "disconnect", "seek", "subtitle", "boost",
             "autostop", "shutdown"},
     step : Steps, id : Nat, att : Watchers \cup {NoWatcher},
     retried : BOOLEAN, ready : {"none", "ok", "err"}, ok : BOOLEAN]

WatchType ==
    [kind : AllProtocols \cup {"none"}, sid : Nat,
     pc : {"gone", "tick", "query", "apply", "announce", "handshake", "greet",
           "running"},
     seen : BOOLEAN, sample : Samples, miss : Nat, cut : BOOLEAN]

\* The daemon's state has the shape its types say.
TypeOK ==
    /\ session \in SessionType
    /\ nextId \in Nat \ {0}
    /\ op \in OpType
    /\ conn \in [AllProtocols -> Watchers \cup {NoWatcher}]
    /\ serve \in {"none", "direct", "ffmpeg"}
    /\ media \in BOOLEAN
    /\ servers \in Nat
    /\ watch \in [Watchers -> WatchType]
    /\ events \in Seq(Nat)
    /\ handling \in Nat
    /\ reachable \in BOOLEAN
    /\ exited \in BOOLEAN

-------------------------------------------------------------------------------
(* Safety *)

\* No late writer resurrects a session that was reset, and none is ever left
\* without an id: pollers, the Cast thread and the reload commands write the
\* shared Session long after they looked at it.
IdleHasNoId == session.id = 0 <=> session.state = "Idle"

\* A running media server always has its handle in Active (start_media
\* overwrites the field), so the next teardown stops it: none is leaked, and
\* there are never two.
ServerIsRegistered == servers = IF media THEN 1 ELSE 0

\* A poller that will poll again, and a Cast thread nobody told to shut down.
Live(w) == watch[w].pc \notin {"gone", "announce"} /\ ~watch[w].cut

\* A poller that will poll again can be aborted by the next teardown or reload:
\* its handle is in Active or in the hands of the command that spawned it.  A
\* Cast thread without a handle is one whose connect attempt failed, which the
\* 25 s timeout told to shut down.
NoOrphanWatcher ==
    \A w \in Watchers : Live(w) => w \in Registered \/ w = op.att

\* At rest the daemon serves nothing and watches nothing once the session is
\* reset, and an open session still has the stream and the connection its
\* commands need (restart_dlna's "No active stream" cannot happen).
AtRest ==
    Free => IF session.id = 0
            THEN conn = NoConn /\ serve = "none" /\ ~media
            ELSE /\ session.proto \in Protocols
                 /\ conn[session.proto] # NoWatcher
                 /\ serve # "none"

\* "The pollers must not mistake the stream swap for the end of playback":
\* while the old stream is down no poller waits for the receiver's answer.
NoPollDuringSwap ==
    \/ op.name = "boost" /\ op.step \in {"swap", "serve", "restart"}
    \/ op.step = "replay"
    => \A w \in Watchers : watch[w].pc \notin {"tick", "query"}

\* auto_stop ends the session whose end was announced and no other, however
\* many awaits lie between its check and its reset.
AutoStopEndsItsSession ==
    op.name = "autostop" => session.id = handling /\ handling # 0

\* "A half-rebuilt session must end instead of claiming to play" (restream):
\* auto_stop does not let go of a session whose media server could not be
\* rebuilt and whose end it was told of.
HalfRebuiltEnds ==
    [][AutoStopTooLate /\ session.id = handling => media]_vars

\* Once the process exits, everything it served and watched has been stopped.
ExitIsClean ==
    exited => ~media /\ servers = 0 /\ serve = "none" /\ conn = NoConn

-------------------------------------------------------------------------------
(* Refinement *)

Stage(state) ==
    CASE state = "Idle" -> "Idle"
      [] state = "Connecting" -> "Connecting"
      [] state \in {"Buffering", "Playing", "Paused"} -> "Live"
      [] OTHER -> "Ended"

\* The daemon is one implementation of the session lifecycle.
Lifecycle == INSTANCE SessionLifecycle WITH
    current <- session.id,
    stage <- Stage(session.state),
    lastUsed <- nextId - 1,
    serving <- servers > 0

\* Ids are fresh, a server runs for one session only, and a session is left
\* only with its server down (SessionLifecycle).
RefinesLifecycle == Lifecycle!Spec

-------------------------------------------------------------------------------
(* Liveness *)

\* A session that stopped or failed and that nobody revives is torn down.
EndedIsTornDown ==
    \A i \in 1..MaxId :
        (session.id = i /\ HasEnded(session.state))
            ~> (session.id # i \/ ~HasEnded(session.state) \/ exited)

\* A receiver that is switched off does not keep its session for ever.
SilentReceiverEndsSession ==
    \A i \in 1..MaxId :
        (session.id = i /\ ~reachable) ~> (session.id # i \/ exited)

\* A Cast thread that was told to shut down, by a teardown or because its
\* connect attempt timed out, is over in the end: it does not go on watching
\* the session of the attempt that replaced it.
StrayThreadEnds ==
    \A w \in Watchers :
        (watch[w].kind = "cast" /\ watch[w].cut)
            ~> (watch[w].pc = "gone" \/ exited)

\* No command keeps the action mutex for ever.
MutexIsReleased == (op.name # "free") ~> (op.name = "free" \/ exited)

\* A shutdown that has begun ends the process.
ShutdownExits == (op.name = "shutdown") ~> exited
===============================================================================
