----------------------------- MODULE MediaServer -----------------------------
(***************************************************************************)
(* The streams of the media server (media_server.rs): live ffmpeg streams, *)
(* capped at MaxLive per server, and downloads of the file itself; start   *)
(* and stop of the server under them.                                      *)
(*                                                                         *)
(* A live stream is an ffmpeg process, a task that watches it, and the     *)
(* body the receiver reads from its pipe.  The task learns of ffmpeg's     *)
(* exit only at its next tick, so for up to 200 ms a stream that is over   *)
(* still occupies its slot.  `stop` aborts the accept loop and cancels the *)
(* shutdown token; handlers and connections are tasks of their own and go  *)
(* on, so a request on a connection that was kept open can reach a server  *)
(* that was stopped.  Subtitles are in SubtitleCache, the byte ranges of a *)
(* download in ByteRange.                                                  *)
(***************************************************************************)
EXTENDS Naturals, FiniteSets, SequencesExt

CONSTANTS
    Streams,     \* GET requests for the media, over the session
    MaxLive,     \* MAX_LIVE_TRANSCODES
    MaxServers   \* bound on the servers of the session: restreams, and one

ASSUME BoundsAssumption == MaxLive \in Nat \ {0} /\ MaxServers \in Nat \ {0}

VARIABLES
    opened,   \* how many servers were started
    up,       \* the last of them accepts connections
    stream,   \* per request: its server, what serves it, and by which program point
    cancelled,\* the live streams whose own token was cancelled
    live      \* live_transcodes of every server, oldest first

vars == <<opened, up, stream, cancelled, live>>

Servers == 1..MaxServers

\* "none"    not yet asked for
\* "spawned" ffmpeg runs, the stream is not registered yet
\* "run"     ffmpeg runs and is watched
\* "exited"  ffmpeg is gone, the watching task has not looked
\* "over"    no process and no task
\* "file"    a download of the file

Init ==
    /\ opened = 1
    /\ up = TRUE
    /\ stream = [s \in Streams |-> [at |-> "none", server |-> 0, read |-> FALSE]]
    /\ cancelled = {}
    /\ live = [v \in Servers |-> <<>>]

At(s, p) == stream[s].at = p
Go(s, p) == stream' = [stream EXCEPT ![s].at = p]

\* The shutdown token of server v is cancelled.
Down(v) == v < opened \/ ~up

\* is_cancelled of a stream's token, a child of the server's.
IsCancelled(s) == s \in cancelled \/ Down(stream[s].server)

-------------------------------------------------------------------------------
(* get_response *)

Get(s, v, p) ==
    /\ At(s, "none")
    /\ stream' = [stream EXCEPT ![s] = [at |-> p, server |-> v, read |-> TRUE]]
    /\ UNCHANGED <<opened, up, cancelled, live>>

\* transcode_response up to the spawn of ffmpeg; a connection kept from an old
\* server still reaches that server's handler.
Spawn(s) == \E v \in 1..opened : Get(s, v, "spawned")

\* file_response: the body ends with the shutdown token.
Download(s) == \E v \in 1..opened : Get(s, v, "file")

\* VecDeque::retain: what a queue q has at the positions I, in its order.
Retained(q, I) ==
    [k \in 1..Cardinality(I) |-> q[CHOOSE i \in I : Cardinality({j \in I : j <= i}) = k]]

Uncancelled(q) == {i \in DOMAIN q : ~IsCancelled(q[i])}

\* The streams that must go for a queue q to hold no more than MaxLive.
Excess(q) == IF Len(q) > MaxLive THEN Len(q) - MaxLive ELSE 0

\* Mutation of Admit: the cap is checked before the new stream is counted.
AdmitOneMore(s) ==
    /\ At(s, "spawned")
    /\ LET v == stream[s].server
           kept == Retained(live[v], Uncancelled(live[v]))
           n == Excess(kept)
       IN /\ live' = [live EXCEPT ![v] = Append(SubSeq(kept, n + 1, Len(kept)), s)]
          /\ cancelled' = cancelled \cup ToSet(SubSeq(kept, 1, n))
    /\ Go(s, "run")
    /\ UNCHANGED <<opened, up>>

\* Mutation of Admit: the newest stream makes room.
AdmitEndsNewest(s) ==
    /\ At(s, "spawned")
    /\ LET v == stream[s].server
           kept == Append(Retained(live[v], Uncancelled(live[v])), s)
           n == Excess(kept)
       IN /\ live' = [live EXCEPT ![v] = SubSeq(kept, 1, Len(kept) - n)]
          /\ cancelled' = cancelled \cup ToSet(SubSeq(kept, Len(kept) - n + 1, Len(kept)))
    /\ Go(s, "run")
    /\ UNCHANGED <<opened, up>>

\* admit_transcode: cancelled streams leave the queue, the new one joins, the
\* oldest beyond the cap are cancelled; its watching task starts.
Admit(s) ==
    /\ At(s, "spawned")
    /\ LET v == stream[s].server
           kept == Append(Retained(live[v], Uncancelled(live[v])), s)
           n == Excess(kept)
       IN /\ live' = [live EXCEPT ![v] = SubSeq(kept, n + 1, Len(kept))]
          /\ cancelled' = cancelled \cup ToSet(SubSeq(kept, 1, n))
    /\ Go(s, "run")
    /\ UNCHANGED <<opened, up>>

-------------------------------------------------------------------------------
(* The task that watches an ffmpeg *)

\* Mutation of Tick: the slot is not freed.
TickKeepsSlot(s) ==
    /\ At(s, "exited")
    /\ Go(s, "over")
    /\ UNCHANGED <<opened, up, cancelled, live>>

\* The tick finds that ffmpeg has exited, and frees the slot.
Tick(s) ==
    /\ At(s, "exited")
    /\ cancelled' = cancelled \cup {s}
    /\ Go(s, "over")
    /\ UNCHANGED <<opened, up, live>>

\* The token is cancelled: ffmpeg is killed.
Kill(s) ==
    /\ stream[s].at \in {"run", "exited"}
    /\ IsCancelled(s)
    /\ cancelled' = cancelled \cup {s}
    /\ Go(s, "over")
    /\ UNCHANGED <<opened, up, live>>

-------------------------------------------------------------------------------
(* ffmpeg, and the receiver's end of the connection *)

\* ffmpeg reaches the end of the file or fails.
FfmpegExits(s) ==
    /\ At(s, "run")
    /\ Go(s, "exited")
    /\ UNCHANGED <<opened, up, cancelled, live>>

\* The receiver closes the connection: the body is dropped, and with it ffmpeg's
\* pipe; a download is over.
TvCloses(s) ==
    /\ stream[s].read
    /\ stream' = [stream EXCEPT ![s].read = FALSE,
                                ![s].at = IF @ = "file" THEN "over" ELSE @]
    /\ UNCHANGED <<opened, up, cancelled, live>>

\* The next write of ffmpeg finds the pipe closed.
BrokenPipe(s) ==
    /\ ~stream[s].read
    /\ FfmpegExits(s)

\* The receiver reads on in a download: a chunk, or the end that the shutdown
\* token puts to the body.
TvReads(s) ==
    /\ At(s, "file") /\ stream[s].read
    /\ IF Down(stream[s].server) THEN Go(s, "over") ELSE UNCHANGED stream
    /\ UNCHANGED <<opened, up, cancelled, live>>

\* The last chunk of a download.
Downloaded(s) ==
    /\ At(s, "file")
    /\ Go(s, "over")
    /\ UNCHANGED <<opened, up, cancelled, live>>

-------------------------------------------------------------------------------
(* The server *)

\* MediaServer::stop: every token of the server is cancelled.
Stop ==
    /\ up
    /\ up' = FALSE
    /\ UNCHANGED <<opened, stream, cancelled, live>>

\* start: the port was free within the 30 tries.
Start ==
    /\ ~up /\ opened < MaxServers
    /\ opened' = opened + 1
    /\ up' = TRUE
    /\ UNCHANGED <<stream, cancelled, live>>

Terminated ==
    /\ ~up /\ opened = MaxServers
    /\ \A s \in Streams : At(s, "over")
    /\ UNCHANGED vars

-------------------------------------------------------------------------------

Step(s) == Admit(s) \/ Tick(s) \/ Kill(s) \/ BrokenPipe(s)

Next ==
    \/ \E s \in Streams :
         \/ Spawn(s) \/ Download(s) \/ Step(s)
         \/ FfmpegExits(s) \/ TvCloses(s) \/ TvReads(s) \/ Downloaded(s)
    \/ Stop \/ Start \/ Terminated

Spec == Init /\ [][Next]_vars

\* tokio runs the handlers and the watching tasks, ffmpeg writes when it can,
\* and a receiver that has not closed a download reads on in it.
Fairness == \A s \in Streams : WF_vars(Step(s)) /\ WF_vars(TvReads(s))

-------------------------------------------------------------------------------
(* Properties *)

\* However requests come in, no more than MaxLive ffmpegs of a server run that
\* are registered and not about to be killed, and none is forgotten: each is in
\* the queue that admit_transcode evicts from, or its token is cancelled already.
CapHolds ==
    \A v \in Servers :
       LET running == {s \in Streams :
               stream[s].server = v /\ At(s, "run") /\ ~IsCancelled(s)}
       IN  Cardinality(running) <= MaxLive /\ running \subseteq ToSet(live[v])

\* Only the oldest stream makes room: when admit_transcode cancels a stream, as
\* many newer ones as the server may have are there, and it is none of them.
NewestIsKept ==
    [][\A s \in Streams :
          stream'[s].at = "run" /\ s \in cancelled' \ cancelled =>
             LET v == stream[s].server IN
             /\ Len(live'[v]) = MaxLive
             /\ \E i \in DOMAIN live[v] :
                  /\ live[v][i] = s
                  /\ \A t \in ToSet(live'[v]) : t \notin ToSet(SubSeq(live[v], 1, i))]_vars

\* Once a server is stopped, its ffmpegs are killed and its downloads end, also
\* those of requests that reach it later over a connection that was kept.
StoppedServerEnds ==
    \A s \in Streams :
       stream[s].at \in {"spawned", "run", "file"} /\ Down(stream[s].server)
          ~> At(s, "over")

\* A stream whose receiver has gone is over in the end, and its slot is free.
GoneReaderFreesSlot ==
    \A s \in Streams :
       At(s, "run") /\ ~stream[s].read ~> At(s, "over") /\ IsCancelled(s)

\* No ffmpeg and no download outlives its use: neither the server that was stopped
\* nor the receiver that closed its connection.
StreamsEnd == StoppedServerEnds /\ GoneReaderFreesSlot
===============================================================================
