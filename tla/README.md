# A verification of UniCast's casting daemon

UniCast casts a local video file to a TV on the LAN: a Rust daemon (`omarchy-castd`,
`src/src/`) serves the file over HTTP and drives the receiver by DLNA, Google Cast or
AirPlay; a desktop panel sends it one-line JSON commands over a Unix socket. This
directory models the daemon in TLA+, model-checks it with TLC and proves part of it with
TLAPS. Paths below are relative to the repository root.

## 1. Inventory

| component | state it keeps | operations | what is hard |
|---|---|---|---|
| Session core, `src/daemon.rs`, `src/state.rs` | the shared `Session`, the `Active` table (media server, one connection, serve context), `next_session_id`, the action mutex, the `SessionEnded` channel | connect, disconnect, pause, resume, seek, set-subtitle, set-boost, volume, mute, auto-stop, shutdown | commands hold the mutex over many awaits while pollers and the Cast thread write the session without it; failures half-way; teardown races |
| Google Cast thread, `src/cast.rs` | command queue, media session id, error count, position offset | handshake, load, seek, reload, tracks, status, teardown | lives on after a timed-out attempt; two load generations; queue against `is_stale` |
| Media server, `src/media_server.rs` | listener, live transcodes (at most 2), conversion lock, failed tracks | serve ranges, transcode, convert subtitles, stop | eviction, failure marks set outside the lock, connections that outlive `stop` |
| DLNA, AirPlay, `src/dlna.rs`, `src/airplay.rs` | none | SOAP and HTTP requests | background stop against a later play |
| Discovery, `src/discovery.rs` | the cache in `Daemon::devices` | discover, merge, probe | cache overwritten after a scan |
| Subtitles, `src/subtitles.rs` | converted files | discover, convert, re-time | two conversions of one file; cue arithmetic |
| Firewall, `src/firewall.rs` | ledger of rules it added | open, clear | `clear` runs outside the action mutex |
| Settings, `src/settings.rs` | settings files | get, set, manual addresses | read-modify-write across a lock |
| Client, `src/client.rs`, `src/main.rs`, `src/util.rs` | daemon lock, socket, systemd unit | start once, send | two starts at once; foreign units |
| Protocol, player lookup, `src/protocol.rs`, `src/mpris.rs` | none | encode, one D-Bus query | nothing |
| Panel, `Panel.qml`, `BarWidget.qml`, `Model.js` | one process per kind of command, pending volume and address | poll status, send commands | queued values against process ends |
| Setup, uninstall, `bin/`, `lib/` | installed files, ownership records | install, remove | sequential scripts |

How they interact: a command takes `Daemon::action`; connect resets everything
(`disconnect_locked`), publishes a session under a fresh id, opens the firewall, starts a
media server and the receiver's watcher (a tokio task that polls a DLNA or AirPlay
receiver, or a thread that holds the Cast link) and registers both in `Active`. Watchers
write the shared `Session` under a write lock after comparing session ids, and send
`SessionEnded` when playback ended. One task reads that channel and runs `auto_stop`,
which takes the mutex like any command. `PROJECT.json` lists every hazard found in the
code, at its line, with the properties that would catch it.

## 2. Modules

| module | models |
|---|---|
| `SessionLifecycle` | the promise of the session core: fresh ids, a server only for a session, a session is left only with its server down |
| `CastDaemon` (instances: `MCCastDaemon`) | the session core with its watchers, step by step; implements `SessionLifecycle` |
| `CastWatcher` | the promise of a Cast thread: it writes its own session only, announces its end once, after its last write |
| `CastSession` | `run_session`: command queue, waits for answers, media sessions, receive loop, frame limit; implements `CastWatcher` |
| `Renderer` | a DLNA or AirPlay receiver with a state of its own under the daemon's requests, background stops and polls |
| `MediaServer` | live ffmpeg streams and their cap, downloads, start and stop |
| `ByteRange` | the reply to a `Range` header |
| `SubtitleCache` | the subtitle requests, the conversion lock, the failed-track mark, `ensure_vtt`, the directory's end |
| `CueTiming` | `shift_vtt`, `vtt_to_srt` |
| `FirewallLedger` | `open`, `clear` and the ledger of rules |
| `SettingsFiles` | `write_atomic`, `set`, the list of addresses |
| `ReceiverScan` | promotion and merge of what a scan heard |
| `DeviceCache` | the list of known receivers under `discover` and the lookup of `connect` |
| `DaemonStart` | daemon lock, ping, socket file, cleanup; `ensure` of the client |
| `MCMedia`, `MCAnswers`, `MCHost` | the instances TLC runs of the modules above that stand beside the sessions |
| `...Proofs` | theorems about the module they are named for; `MediaProofs` and `AnswersProofs` about the modules that `MCMedia` and `MCAnswers` put together |

How they fit. `CastDaemon` treats a Cast thread as the steps `CastReady`, `CastRefused`,
`CastGreet`, `CastPublish`, `CastEnds` and `CastLeaves`; `CastWatcher` states that
interface, and the run `session_live` shows that `CastSession` keeps it. `Renderer`
turns the other end round: where `CastDaemon` lets a poll answer anything, `Renderer` has
a receiver that was really loaded, played and stopped, and reduces the daemon to one
command at a time (which the action mutex gives). `CastDaemon` starts and stops a media
server as a whole; `MediaServer` and `SubtitleCache` are the requests inside it,
`ByteRange` and `CueTiming` the bytes a request is answered with. `DeviceCache` takes what
`ReceiverScan` makes of one scan as a set of addresses. `FirewallLedger` writes its ledger
by `write_atomic`, which is in `SettingsFiles`: there a write leaves the old file or the
new one, here it succeeds or not.

Components that share no state are run together, apart from one another: `MCMedia`
(`MediaServer` and `SubtitleCache`), `MCAnswers` (`ByteRange`, `CueTiming`,
`ReceiverScan`, `DeviceCache`) and `MCHost` (`DaemonStart`, `FirewallLedger`,
`SettingsFiles`) have a variable `part`, chosen at the start, that names the component a
behaviour is about; the others stand still in an initial state. What TLC explores is the
sum of the components' state spaces, not their product; since no step of one reads or
writes a variable of another, the product would add nothing.

## 3. The session core: `CastDaemon`

**Granularity.** Each `.await` of a command is a step boundary; what happens to shared
state between two awaits is one action. Since a command does nothing before it holds the
action mutex, taking the mutex is its first action. `op` records who holds the mutex,
where it is, and the locals that matter (session id, spawned watcher not yet registered,
Cast attempt). `watch` holds the pollers and Cast threads, with the program point each has
reached. A poller iteration is `PollCheck` (tick and first id check), `PollAnswer` (the
last await is over, the readings are in), `PollApply` (the write section with the second
id check) and `Announce` (the `SessionEnded` send). `Aborted` captures what
`JoinHandle::abort` does: a task at an await disappears, one past its last await runs its
write section to the end.

| state | code |
|---|---|
| `session` | `Daemon::state`: id, state, protocol |
| `nextId` | `Daemon::next_session_id` |
| `op` | `Daemon::action`, with the holder's locals |
| `conn`, `serve`, `media` | `Active::{cast,dlna,airplay}`, `Active::serve`, `Active::media` |
| `servers` | media server tasks that run, registered or not |
| `watch` | `dlna_poll`, `airplay_poll`, `run_session` |
| `events`, `handling` | the `SessionEnded` channel, the event `auto_stop` works on |
| `reachable`, `exited` | environment: the receiver is on the network; the process is gone |

| actions | code |
|---|---|
| `TakeActive`, `StopServer`, `Reset` | `disconnect_locked`, `reset_session` for disconnect, a failed connect, auto-stop, shutdown, and the start of connect |
| `Connect`, `Publish`, `Lookup`, `UnknownDevice`, `FirewallOpened`, `ConnectServe`, `ConnectPlay`, `CastAttempt`, `CastConnected`, `CastAttemptFails`, `Register`, `Settle`, `ConnectFails` | `connect` and `connect_{cast,dlna,airplay}` |
| `Pause`, `Resume` | `pause`, `resume` |
| `Seek`, `SetSubtitle`, `SetBoost`, `StopOldServer`, `RestreamServe`, `RestreamServeFails`, `RestartTake`, `Replay`, `PutBack`, `Rebuffer`, `Reject`, `FailRestream` | `seek`, `set_subtitle`, `set_boost`, `restream`, `restart_dlna`, `restart_airplay`, `fail_session` |
| `TakeEvent`, `AutoStop`, `AutoStopTooLate` | the event task and `auto_stop` |
| `Shutdown`, `Exit` | `shutdown` |
| `PollCheck`, `PollAnswer`, `PollApply`, `Announce` | `dlna_poll`, `airplay_poll` |
| `CastReady`, `CastRefused`, `CastGreet`, `CastPublish`, `CastEnds`, `CastLeaves` | `run_session`, `publish_status`, `set_error`, `is_stale` |

**Abstractions.** Volume, mute, positions, titles and track lists are left out: no
decision modelled here reads them. Whether a boost differs from the current one, whether a
file needs ffmpeg, what a receiver answers and whether the firewall opens are choices. A
command refused by its first check changes nothing and has no action. `pause` and `resume`
change state only at their last step, so they are one action. The write of `Error` and the
send of its event in `fail_session` are one action: nobody but the event task looks at the
channel, and that task waits for the mutex.

**Timing.** With `Prompt = FALSE` (the safety and refinement runs, and the proofs) any
thread may be preempted anywhere for any time. Liveness needs a little timing, which
`Prompt = TRUE` states: code between two awaits is over before a wait for the network or a
one-second tick is. It matters in two places. An aborted poller that is past its last
await finishes before the command that aborted it gets through its next network wait. And
`restart_dlna` writes `Buffering` a few instructions after it spawned the new poller,
which needs at least a second tick to reach a verdict. Without the assumption the second
one breaks liveness: the poller could end the session (`Error` after `START_GRACE`), the
command could then overwrite that with `Buffering`, auto-stop would find nothing to do, and
nobody would poll any more.

## 4. The other models

**`CastSession`.** One thread, the daemon's end of its queue, and the receiver with the two
ordered streams of the connection. A `rust_cast` helper waits for the answer to one request
and keeps every other message (`held`), which `receive` later hands out first. A request
and its answer are marked `re` while they belong to the wait that is on; the end of a wait
takes the mark off what is still underway, so a late answer becomes an ordinary status. A
pass of the loop is `Drain` (the queue of commands), `Check` (`is_stale`), `Receive` or
`ReceiveNothing`, `Poll`. `Shutdown` and the reset of the session are the two steps of the
daemon they are in the code. Volume, mute, and subtitle changes are one kind of call
("adjust"), since nothing modelled reads their outcome; a seek of a transcoded stream is a
reload, the same code under another URL. Positions and track lists are left out.

**`Renderer`.** `tv` is the receiver's stream and transport. A teardown adds the session to
`stops`, and `StopArrives` may happen at any later time: after the play of the next connect
too. A poll asks, then reaches its verdict, so that a pause can come in between. Which
kind of receiver it is belongs to the initial state (`receiver`): DLNA or AirPlay; one that
may leave a stop unanswered past every timeout (`silent`); an AirPlay one that may take a
stream and answer too late (`late`). DLNA answers that cannot be had are "unknown", AirPlay ones
count as no playback, as in the code.

**`MediaServer`.** A live stream is an ffmpeg process, the task that watches it, and the
body the receiver reads. The task learns of ffmpeg's exit only at its tick (200 ms), so a
stream goes "run", "exited", "over". Requests may reach a server that was stopped, over a
connection that was kept open. `live` is the queue `admit_transcode` evicts from.

**`SubtitleCache`.** Each request is a handler that takes the `convert` lock of its server
and goes through `ensure_vtt` step by step. A file is named by the request whose ffmpeg
created it, so that a path can come to name another file while the old one is written on.
A handler can be dropped at any await. `Stop` ends the accept loop and removes the
directory; handlers go on, a kept connection can bring a stopped server further requests,
and one that converts can put a file into the directory between the removal of the others
and its own, which then fails. A restream starts a server with the same directory and a lock
of its own.

**`FirewallLedger`.** Both `open` and `clear` read the ledger, await `pkexec ufw` and write
the ledger from what they read. ufw's answer and the record of it are two steps (`Allowed`,
`Recorded`). `world`, chosen at the start, says whether opens and clears may overlap,
whether ufw may be switched off and on, whether the user adds rules meanwhile, and what may
fail: a record (the daemon dies, or a write fails, whose error the code drops) or an answer
(ufw does its work and is not heard: the 60 s end while it runs as root, where it cannot be
killed, or it fails afterwards). `slipped` is a history variable, the rules to which such a
failure happened and no later record put it right. `ufw` is external: `allow` answers
"added" only for a rule that was not there, and for one of the user's with the same traffic
either skips it or replaces it ("Rule updated", `src/firewall.rs:135`), after which the rule
is "replaced"; a `delete` that is declined changes nothing. `world` never lets a behaviour
do what the code cannot: it leaves events out, to say which of them a property needs.

**`SettingsFiles`.** A write creates, fills, syncs and renames a temporary file under
`WRITE_LOCK`; a step may fail, and the machine may go down between any two. An entry is
named by the request it is about.

**`ReceiverScan`, `ByteRange`, `CueTiming`.** Pure code: the inputs are enumerated, one
action applies the code, and the properties compare the result with a definition written
from what the result is for, not from the code (the bytes a header asks for, the cues that
are left after an offset, the protocols that were heard).

**`DeviceCache`.** `discover` holds no lock, so any number of scans overlap a lookup and
one another. A receiver may appear and vanish at any time, and a scan may miss one.

**`DaemonStart`.** `main` step by step (lock, ping, socket removal, cleanup, bind),
`shutdown`, a kill at any step, systemd's restart, and `ensure` of every client. The lock
is the kernel's and goes with the process; the socket file stays. Whether the unit is ours,
the executable trusted, and a process can be started at all is settled before anything
starts.

## 5. Runs

`PROJECT.json` lists the properties of each run, and for each the mutation (an operator
beside the mutated one: `...Unchecked`, `...Forgets` and so on, a plausible bug) with which
TLC finds it violated.

| run | instance | shows |
|---|---|---|
| `safety` | DLNA and Cast, resume, boost, 2 sessions, 2 watchers, any preemption | no late write, leaked server, orphan watcher or wrong auto-stop; every step is a step of `SessionLifecycle` |
| `live` | DLNA and AirPlay, four commands, 1 session, fair | ended or silent sessions are torn down, the mutex is released, shutdown exits |
| `cast` | Cast, boost, 1 session, 3 watchers, fair | a thread told to shut down ends |
| `session_safety` | 2 restreams, late, unmarked and failed answers | the end of media the thread tracks is underway; the old session's end does not end a new load |
| `session_live` | 1 command of four kinds, endless and odd messages, fair thread | `CastSession` implements `CastWatcher`; told threads end, media that is over and a lost link end the cast |
| `media` | 3 streams, cap 2; 2 subtitle requests, 2 attempts; 2 servers, fair | cap, no forgotten ffmpeg, the newest are kept, streams of a stopped server or a gone reader end; the requests to one server convert one at a time; unless two servers' conversions cross, no half-written track is served; every request is answered or dropped |
| `answers` | sizes 0 to 7, u64 cut to 7; up to 3 blocks, times 0 to 2, every offset; 3 addresses, one off the LAN, 4 events; 2 receivers, 4 scans or probes | the replies to a `Range` header, re-timing and SubRip, and the merge of a scan are exact; a steady receiver is found |
| `host` | 3 daemons, 2 clients, crashes; 3 rules, 2 clears in every world, failures included; 2 sets, add, remove, 1 crash | the serving daemon is reachable and keeps its subtitles, a calm client is answered; the ledger and ufw agree but for rules a failure was about, rules of the user are not deleted; files are whole, settings survive |
| `tv` | every kind of receiver, 3 sessions, 3 requests, fair | the receiver is at rest when nothing is cast, a stopped receiver is noticed, the shown state settles |
| `restream`, `session_stuck`, `subs_torn` | small | the findings of section 7 |

**Bounds.** In `CastDaemon`, `Watchers` is the number of watchers alive at once: two are a
predecessor and its successor, three in `cast` because a failed attempt, a retry and the
thread of a later command can coexist; two sessions let a stale watcher or event meet a
session that is not its own; `MaxQueue` only stops further reloads while an event is
queued; `UnreachableLimit` stands for 20 failed polls (1 makes every poll the deciding one,
2 makes the count matter). `safety` has a DLNA poller and a Cast thread: an AirPlay poller
differs from a DLNA one in which answers count as an end, and takes the same steps; a boost
passes through every step that a seek or a subtitle change has. `live` has the AirPlay
poller and those commands. In `CastSession` two restreams give a third media session, which
is what an answer needs to be two loads late; `MaxWire` and `MaxCalls` bound what is
underway, so the receiver waits when the wire is full, as a TCP peer does; `FrameCap` 2
and `ErrorLimit` 1 stand for 256 and 5; a seek takes the branch of a resume and is left out
of `session_live`. Two servers are a session and one restream, and two subtitle requests
one for each, or two at one lock. Three streams put one beyond a cap of two. Three daemons allow two to race and one to follow a crash. Three rules and two
clears allow a clear to overlap an open and another clear. `MaxU64` is 7: all that matters
is that numbers below, at and above it, and sizes up to it, occur. Watcher slots are
interchangeable and form a symmetry set in `safety`, which has no liveness property.

**What single properties except.** The exceptions are the cases where the code does fail;
section 7 describes each. `WholeUnlessCrossed` says that tracks are served whole in the
behaviours in which no two servers convert at once; `subs_torn` shows one in which they do,
and `OneConversionOfAServer` speaks of one server's lock, which serialises no more.
`NewLoadSurvives` excepts a load that names the URL of the one before.
`LedgerIsOurs` is about a world without overlap where ufw stays on, and excepts in it each
rule whose own record or answer was lost (section 7), so what it shows
of a failure is that no other rule is lost with it. `UserRulesStay` is about every world
except one where the user adds rules while operations overlap or ufw is switched; it lets
`ufw allow` replace a rule that the user added while the prompt was up (section 7), and a
clear delete one that took the place of a rule of the daemon's which a lost record still
names. `SettingsSurvive` forgets at a crash what was saved before it: a rename need not have
reached the disk. It is about writers that overlap.
`RestIsQuiet` is about a receiver that answers in time. `CalmIsAnswered` assumes
that a client waits longer than a daemon takes to start, and can start a process. A probe finds DLNA renderers only,
as `probe_ip` does, so `SteadyIsFound` is about those.

**Deadlock** is checked except in `host` (all daemons of the bound are used up) and in `tv`
(the process has exited): there the system really stops.

**Fairness.** tokio and the OS run every task and thread that can go on. `CastDaemon`: weak
fairness of the mutex holder, the event task, each poller and Cast thread; strong fairness
of `AutoStopStep`, because the action mutex is tokio's FIFO lock; strong fairness of
`PollApply(w, TRUE)`, because a poller that keeps polling has at some time polled for
longer than `START_GRACE`. `CastSession`: weak fairness of the thread, whose every wait
ends in a timeout of the code; nothing is assumed of the receiver. `MediaServer`: the
watching tasks tick and handle a cancel; a body goes on being read or its connection
closes. `SubtitleCache`: every handler goes on; strong fairness of `Lock`, which is tokio's
FIFO lock. `Renderer`: polls are made and judged, waits for the receiver end in timeouts, a
background stop arrives or times out, and `AutoStop` gets the mutex in its turn. Nothing
is assumed of users.

## 6. Proofs

Every theorem holds for all values of the constants that satisfy the named assumptions of
its module. A theorem of one component is about that component alone, whose specification
the `MC` module runs unchanged; those about `DeviceCache`, `ReceiverScan` and `CueTiming` are
about the composed specification of `MCAnswers`, whose runs pick one of the four.

| theorem | module | statement |
|---|---|---|
| `TypeCorrect` | `CastDaemonProofs` | `[]TypeOK` |
| `ServerAlwaysRegistered` | `CastDaemonProofs` | `[]ServerIsRegistered` |
| `IdleNeverHasId` | `CastDaemonProofs` | `[]IdleHasNoId` |
| `DaemonImplementsLifecycle` | `CastDaemonProofs` | `RefinesLifecycle` |
| `AutoStopEndsItsSessionHolds`, `ExitIsCleanHolds` | `CastDaemonProofs` | `[]AutoStopEndsItsSession`, `[]ExitIsClean` |
| `AtRestHolds` | `CastDaemonProofs` | `[]AtRest` |
| `NoOrphanWatcherHolds`, `NoPollDuringSwapHolds` | `CastDaemonProofs` | `[]NoOrphanWatcher`, `[]NoPollDuringSwap` |
| `ThreadIsAWatcher` | `CastSessionProofs` | `RefinesWatcher` |
| `TheEndIsUnderwayHolds` | `CastSessionProofs` | `[]TheEndIsUnderway` |
| `NewLoadSurvivesHolds` | `CastSessionProofs` | `[]NewLoadSurvives` |
| `CapHoldsHolds`, `NewestIsKeptHolds` | `MediaProofs` | `[]CapHolds`, `NewestIsKept` |
| `WholeUnlessCrossedHolds`, `OneConversionOfAServerHolds` | `MediaProofs` | `WholeUnlessCrossed`, `[]OneConversionOfAServer` |
| `RepliesAreExactHolds` | `AnswersProofs` | `[]RepliesAreExact` |
| `MergeIsExactHolds` | `AnswersProofs` | `[]MergeIsExact` |
| `SteadyIsFoundHolds` | `AnswersProofs` | `[]SteadyIsFound` |
| `TracksAreExactHolds` | `AnswersProofs` | `[]TracksAreExact` |
| `AnswersTypeOKHolds` | `AnswersProofs` | `[]AnswersTypeOK` |
| `UserRulesStayHolds` | `FirewallLedgerProofs` | `UserRulesStay` |
| `LedgerIsOursHolds` | `FirewallLedgerProofs` | `[]LedgerIsOurs` |
| `NeverTruncatedHolds`, `SettingsSurviveHolds` | `SettingsFilesProofs` | `[]NeverTruncated`, `[]SettingsSurvive` |
| `ServingIsReachableHolds`, `SubtitlesAreSafeHolds`, `CalmIsAnsweredHolds` | `DaemonStartProofs` | `[]ServingIsReachable`, `[]SubtitlesAreSafe`, `[]CalmIsAnswered` |
| `RestIsQuietHolds` | `RendererProofs` | `[]RestIsQuiet` |

Every property that the run `safety` checks is a theorem. Hardly any is inductive alone.

`ServerInv`, for the first two. Stopping a server subtracts one from a natural number,
which needs `ServerIsRegistered` (a handle in `Active` means there is one); starting one
keeps `ServerIsRegistered` only if `Active` had none. So `ServerInv` adds `ServerIsDown`:
at the steps of connect between the teardown and `start_media`, and of a restream between
`stop` and `start_media`, `Active::media` is empty.

`LifeInv`, for `IdleNeverHasId` and the refinement. Everybody who writes a state into the
session must know a
session. `LifeInv` is `ServerInv` with `IdleHasNoId` and three facts about who knows one:
a watcher was started for a session (`AllWatched`); a command past its first checks still
has a session, since only the holder of the mutex can reset it (`HolderHasSession`); a
connect that has published its session carries its id until its watcher has it
(`HolderHasId`). `SessionMoves` sorts all steps into four kinds: `Publish`, `Reset`,
`UnknownDevice`, and reports by somebody who knows the session. From there `IdleHasNoId` is
kept, and each kind maps to an action of `SessionLifecycle` or to a stutter: `Publish` to
`Open` and the resets to `Close`, with the server down by `ServerIsDown`; starting and
stopping a server to `Serve` and `Unserve`; the rest to `Report`.

`TeardownInv`, for auto-stop and shutdown: `LifeInv` with how far each has come
(`AutoStopUnderway`, `ShutdownUnderway`). `OnlyBystanders` shows that meanwhile only the
watchers and the event task take steps, and they neither replace the session nor touch
`Active`.

`HeldInv`, for `AtRest`: what `Active` holds at each step of the holder of the mutex
(`Unregistered`, `Unserved`, `HasStream`), that a watcher is registered under the protocol
of its session only (`OwnProtocol`), and that a command has a watcher in hand just between
its start and its registration (`InHand`). `WatchInv` adds who is alive: `Evolves` is all a
step does to a watcher that exists, so a watcher comes to life only by the three steps that
start one, in the hands of the command; registering it overwrites nothing, since `Active`
is empty then; and an attempt that was given up has ended or was told to
(`RefusedIsOver`). `NoOrphanWatcher` is part of it, and with `OwnKind` the reason why the
abort at the start of a swap reaches every poller.

`CastSessionProofs`. `ThreadInv`, for the refinement: types, that a wait is open only where
the thread waits, and that `Shutdown` is the last command. The abstract phase of a thread
is a function of where it is (`Phase`); each action of `CastSession` is then shown to be an
action of `CastWatcher` or a stutter. The only writes of the session go through `Update`,
which looks whether the session is still the thread's.

`EndInv`, for `TheEndIsUnderway`. What the thread has still to read is `Ahead`: the messages
it held back during a wait, and behind them those on the wire. An end that the receiver has
announced may be overtaken by nothing, but a status in front of it can make the thread
track a media session that is over already. So the invariant has two parts: `Noticed`, that
the end of what the thread tracks is ahead of it, and `Settled`, that behind every status
that would make it track a session the receiver has left there is one that ends it. A
receiver step appends to `Ahead`, a wait moves a message from one queue to the other, and
the loop takes the first away.

`LoadInv`, for `NewLoadSurvives`, adds to `EndInv` what a URL says of a load. A restream
gives its load a new URL or the same one again (`reused`); while no URL was used twice, what
names the thread's URL is the last load, or comes of it, and no load is on its way behind it
(`Fresh`, `Urls`). The marks that tell the answer to a request from what was said before
are gone when the wait is over (`Marks`), so an answered load is one the thread tracks
(`Accepted`), and the media it replaced has another number.

`MediaProofs`. `StreamsInv`: the queue of `live_transcodes` holds each stream once and every stream
that is not cancelled; `Admit` keeps the uncancelled ones in their order (`Retained`), adds
the new one, and cancels from the front what exceeds the cap. `Retained` is stated without a
recursion, as the entries in increasing order of their numbers, and its lemmas
(`RetainedProperties`, `NoneForgotten`, `OldestGo`) are what the invariant and
`NewestIsKept` rest on. For the subtitles, `LockInv`: who is between the lock of a server and its
release is the holder of that lock, whether the server still runs or not; that gives
`OneConversionOfAServer`. `TrackInv`: a handler's output is a file of its own, which `stop` may
have taken away or the partial file still names (`OutputIsOwn`), and the file with the final
name is whole and nobody will write to it (`TrackIsWhole`). It is inductive in steps from a
state where no conversions of two servers cross (`ConvertersAreAlone`: then the holder of a
lock is the only handler that changes the files), and that is what the temporal
`WholeUnlessCrossed` needs.

`AnswersProofs`. Of `ByteRange`, first that what `parse_range` returns lies in the file
(`RangeWithinFile`), then that a position lies in it just if it is asked for
(`RangeIsWhatIsAskedFor`); the replies follow by cases. Of `DeviceCache`, `SteadyAnswers`: a
receiver that has answered ever since a lookup began answers now, so the probe of the
lookup, which asks that receiver itself, hears it whatever happened to the list. Of
`ReceiverScan`, `Sums`: what a list must say of the records merged so far. `AddRecordSums`
is one turn of merge's loop; `MergeAllSums` is the loop, by induction over its records; and
what is merged says of each address what was heard of it, promotion included
(`RecordsSay`). The library states induction for an operator, which the provers here cannot
instantiate; `Induction` derives it for a set from `WFMin`. A lemma on folds cannot be about
every operator for the same reason: `FoldExists` and `FoldGoes` are about a function, and
each fold of a module has a lemma that applies them to its own operator and names the
states of its loop. Of `CueTiming`, `BlockShifts` and `BlockConverts` take the loops of
`shift_vtt` and `vtt_to_srt` over one block, by induction on the lines of its body;
`ShiftIsExact` and `ConvertIsExact` then go block by block: after a block's blank line,
`shift_vtt` has written just the lines of the blocks that remain and holds nothing back, and
`vtt_to_srt` has written just their cues and is between blocks. The last block may lack
its blank line (`Ends`), which is why the re-timed track is compared up to a last one.

`FirewallLedgerProofs`: `NeverTheUsers` (no rule of the user is recorded, read by an open,
about to be allowed or to be deleted, and none was replaced) is, with types, inductive while
the user adds nothing, whatever overlaps or fails. `StepsOnRules` says which steps change a
rule of the user's at all, which leaves the cases `UserRulesStay` names. For the ledger,
`Accounted` says at every moment of an orderly world where each rule that has not slipped
is: what ufw has of the daemon's is in the ledger on disk when nobody works, in what an open
has read or is about to record, or in a clear's list of rules to delete and rules to keep,
and those lists are within the ledger on disk, which a failed write leaves as it was.

`SettingsFilesProofs`: only the holder of the lock is past its read (`Exclusive`), hence
what `set` read is still what the file has (`Current`), and what it renames is what it
wrote and synced (`Staged`).

`DaemonStartProofs`: two daemons on their way to serving would break the rest in a few
steps, so the invariant is that every process past `acquire_daemon_lock` is the holder of
the lock (`HoldsTheLock`); the socket file belongs to the one that accepts on it
(`SocketIsServed`). `CalmInv` adds what a client may rely on while nothing has gone wrong: the
daemon it waits for is on its way to serving, and the one it was answered by still serves.

`RendererProofs`: `RestIsQuiet` looks at the moment after a teardown; `PlayingIsOwned` says
at every moment who will stop a receiver that plays.

Every invariant and every safety property of a step that a passing run checks is a theorem, and so
are both refinements. Only model-checked: liveness under fairness, which is out of the prover's
reach throughout (`EndedIsTornDown`, `SilentReceiverEndsSession`, `MutexIsReleased`,
`ShutdownExits`, `StrayThreadEnds`, `ToldThreadEnds`, `EndsAreNoticed`, `StreamsEnd`,
`RequestsAreAnswered`, `StoppedIsNoticed`, `StateSettles`). The findings are traces of TLC.

## 7. Findings

Each is a disagreement between the code and a sentence of the repository, with a run whose
trace shows it; `PROJECT.json` quotes both.

- `restream`: a boost whose media server cannot be rebuilt marks the session `Error` and
  queues `SessionEnded`, but a Cast thread whose next status arrives before `auto_stop`
  looks writes `Playing` over it, and `auto_stop` does nothing (`src/daemon.rs:1173`).
- `session_stuck`: a restream whose load the Chromecast never answers is only logged
  (`src/cast.rs:832`); CHANGELOG says that a failed restream ends the session.
- `subs_torn`: `MediaServer::stop` ends the accept loop and not the handlers
  (`src/media_server.rs:149`), so requests of a server and of its successor convert into one
  directory under two locks (`src/daemon.rs:656`); a comment says that two requests never
  race on one file. One that has finished converting renames the partial file that the next
  server's ffmpeg has half written, which is served and kept as the converted track.

The models contain further orders of events that a reader may not expect. No property is
stated about them, or one that excepts them (section 5):

- A load that reuses the URL takes a queued status of the old media session for its answer
  (`src/cast.rs:494`); the old session's "Interrupted" then ends the cast.
- A shutdown and the session's reset between the last `try_recv` and `is_stale` make the
  thread leave without stopping the receiver's app (`src/cast.rs:841`).
- Messages kept over two passes of the loop add up past the frame limit, which counts anew
  at each (`src/cast.rs:844`).
- A failed track is marked after the lock is released, so a queued request converts it
  again, once (`src/media_server.rs:542`).
- A stream that has exited counts until the next tick, so a running one can be ended below
  the cap (`src/media_server.rs:726`).
- ufw replaces a rule that the user added while the prompt for the same traffic was up
  ("Rule updated", `src/firewall.rs:135`; `open` looked before the prompt). The
  repository's README says "your own rules are never changed".
- The daemon dies between ufw's answer and the record of it (`src/firewall.rs:163`, `:168`),
  or the write fails and its error is dropped (`src/settings.rs:116`): ufw has a rule of the
  daemon's that the ledger does not have, so neither `clear` nor the uninstall script
  removes it, although that "removes exactly the rules UniCast added"; or the ledger has one
  that was deleted. So it is when ufw does its work and is not heard (`src/firewall.rs:221`).
- `clear` overwrites the entry of a rule that an open added meanwhile, and forgets all rules
  while ufw is off (`src/firewall.rs:202`, `:185`).
- Two changes of the address list that overlap lose one (`src/daemon.rs:1360`).
- `shutdown` does not wait for a stop that an earlier disconnect left in the background
  (`src/daemon.rs:1414`).
- An AirPlay receiver that takes a play and answers it after the timeout plays on after the
  failed connect (`src/daemon.rs:777`).

The windows are short (microseconds to a prompt's length). A later command puts most of it
right. Three things stay: a half-written track until the session's directory is removed, a
rule of the daemon's that the ledger does not have, and a rule of the user's that ufw
replaced or that a clear deleted in the name of one the daemon no longer has.

## 8. Not modelled

- Volume, mute and positions: no decision modelled here reads them.
- The panel (`Panel.qml`, `BarWidget.qml`, `Model.js`): its commands reach the daemon in any
  order, which is what the models allow; the rest is layout and bindings.
- `src/protocol.rs` and `src/mpris.rs`: data types, and one query whose result chooses the
  file before connect has any effect.
- Setup and uninstall scripts: sequential, run by hand.
- The DLNA state TRANSITIONING, and an AirPlay receiver that answers a rate of 0 when it is
  idle, which the code reads as paused (`src/airplay.rs:185`): in `Renderer` a receiver that
  has stopped says so.
- Rounding: `CueTiming` counts whole milliseconds where the code computes with f64 seconds.
- A polkit prompt that is answered after the daemon that raised it has died.
- Parsing and formatting (SOAP, plist, DIDL, SSDP, timestamps), mime tables, codec plans,
  ffmpeg's arguments, TLS, logging: data.
- The checks of peers and tokens in front of the media server: pure guards on one request.
- A Chromecast that falls silent while its connection stays up, a first load that fails
  after the app was launched, and an AirPlay play that is answered too late: listed as
  hazards; the code promises nothing there, so there is no property to state.
