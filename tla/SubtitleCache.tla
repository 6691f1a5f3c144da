---------------------------- MODULE SubtitleCache ----------------------------
(***************************************************************************)
(* The converted subtitle files of a session: the GET handler of           *)
(* /{token}/sub/{id} (subtitle_response in media_server.rs), the           *)
(* conversion (ensure_vtt in subtitles.rs), and the end of the server that *)
(* removes their directory (MediaServer::stop).                            *)
(*                                                                         *)
(* A restream starts a new server with the session's token, hence with the *)
(* same directory, but with a lock and a list of failed tracks of its own. *)
(* `stop` aborts the accept loop only: a request that is being handled     *)
(* outlives its server, and a connection that is open can ask it again,    *)
(* until the receiver closes it, which drops the handler (and kills its    *)
(* ffmpeg) at the await it has reached.                                    *)
(*                                                                         *)
(* A file is named by the request whose ffmpeg created it, so that a path  *)
(* can come to name another file while ffmpeg writes on to the old one.    *)
(* One track is modelled: two tracks share only the lock.  Re-timing and   *)
(* the SRT form are in CueTiming.                                          *)
(***************************************************************************)
EXTENDS Naturals, FiniteSets

CONSTANTS
    Requests,    \* requests for the track, over the session
    None,        \* no file
    MaxServers,  \* bound on the servers of the session: restreams, and one
    Attempts     \* conversions tried: UTF-8, then Latin-1 for a sidecar

BoundsAssumption ==
    /\ None \notin Requests
    /\ MaxServers \in Nat \ {0} /\ Attempts \in Nat \ {0}

VARIABLES
    server,  \* the server that accepts: 1.. while up, 0 once stopped
    opened,  \* how many servers were started
    req,     \* the handlers: their server, program point and attempt
    failed,  \* the servers on which the track is marked as failed
    dir,     \* the directory {dir} exists
    part,    \* {dir}/{id}.vtt.part: the file it names
    vtt,     \* {dir}/{id}.vtt: the file it names
    file     \* the files, by the request that created them

vars == <<server, opened, req, failed, dir, part, vtt, file>>
diskVars == <<dir, part, vtt, file>>

Servers == 1..MaxServers

\* Where a handler holds the `convert` lock of its server.
Locked == {"check", "look", "remove", "open", "ffmpeg", "verify", "rename",
           "cleanup", "ok", "failing"}

Idle == [at |-> "none", server |-> 0, tries |-> 0, out |-> None]

Init ==
    /\ server = 1
    /\ opened = 1
    /\ req = [r \in Requests |-> Idle]
    /\ failed = {}
    /\ dir = FALSE
    /\ part = None
    /\ vtt = None
    /\ file = [r \in Requests |-> "none"]

At(r, pc) == req[r].at = pc

Go(r, pc) == req' = [req EXCEPT ![r].at = pc]

\* Where it changes the files of the track.
Converting(r) == req[r].at \in {"remove", "open", "ffmpeg", "verify", "rename", "cleanup"}

Holder(s) == {r \in Requests : req[r].server = s /\ req[r].at \in Locked}

-------------------------------------------------------------------------------
(* subtitle_response *)

\* The request comes in, on a new connection or on one to a server that was
\* stopped, and looks at the failed tracks a first time.
Ask(r) ==
    /\ At(r, "none")
    /\ \E s \in 1..opened :
         req' = [req EXCEPT ![r] =
                    [at |-> IF s \in failed THEN "refused" ELSE "queue",
                     server |-> s, tries |-> Attempts, out |-> None]]
    /\ UNCHANGED <<server, opened, failed, diskVars>>

\* Mutation of Lock: conversions are not serialised.
LockNot(r) ==
    /\ At(r, "queue")
    /\ Go(r, "check")
    /\ UNCHANGED <<server, opened, failed, diskVars>>

Lock(r) ==
    /\ At(r, "queue")
    /\ Holder(req[r].server) = {}
    /\ Go(r, "check")
    /\ UNCHANGED <<server, opened, failed, diskVars>>

\* The second look, with the lock held.
CheckFailed(r) ==
    /\ At(r, "check")
    /\ Go(r, IF req[r].server \in failed THEN "refused" ELSE "look")
    /\ UNCHANGED <<server, opened, failed, diskVars>>

\* The lock was dropped; the track is marked.
Mark(r) ==
    /\ At(r, "mark")
    /\ failed' = failed \cup {req[r].server}
    /\ Go(r, "refused")
    /\ UNCHANGED <<server, opened, diskVars>>

\* The file is read, after the lock was dropped.
Serve(r) ==
    /\ At(r, "read")
    /\ Go(r, IF vtt = None THEN "refused"
             ELSE IF file[vtt] = "whole" THEN "served" ELSE "garbled")
    /\ UNCHANGED <<server, opened, failed, diskVars>>

-------------------------------------------------------------------------------
(* ensure_vtt *)

\* The file is there already; else the directory is made.
Look(r) ==
    /\ At(r, "look")
    /\ dir' = TRUE
    /\ Go(r, IF vtt # None THEN "ok" ELSE "remove")
    /\ UNCHANGED <<server, opened, failed, part, vtt, file>>

RemovePart(r) ==
    /\ At(r, "remove")
    /\ part' = None
    /\ Go(r, "open")
    /\ UNCHANGED <<server, opened, failed, dir, vtt, file>>

Writing(f) == \E r \in Requests : At(r, "ffmpeg") /\ req[r].out = f

\* ffmpeg -y opens its output: a new file, or the one that is there, cut to
\* nothing whoever is writing it.
OpenPart(r) ==
    /\ At(r, "open") /\ dir
    /\ LET out == IF part = None THEN r ELSE part IN
       /\ part' = out
       /\ file' = [file EXCEPT ![out] = IF Writing(out) THEN "mixed" ELSE "partial"]
       /\ req' = [req EXCEPT ![r].at = "ffmpeg", ![r].out = out]
    /\ UNCHANGED <<server, opened, failed, dir, vtt>>

\* This attempt came to nothing.
NextAttempt(r) ==
    req' = [req EXCEPT ![r].at = IF req[r].tries > 1 THEN "remove" ELSE "cleanup",
                       ![r].tries = @ - 1]

\* The directory was removed by `stop`: ffmpeg cannot open its output.
OpenFails(r) ==
    /\ At(r, "open") /\ ~dir
    /\ NextAttempt(r)
    /\ UNCHANGED <<server, opened, failed, diskVars>>

\* Mutation of Convert: the exit status is not looked at.
ConvertAnyStatus(r) ==
    /\ At(r, "ffmpeg")
    /\ \/ file' = [file EXCEPT ![req[r].out] = IF @ = "partial" THEN "whole" ELSE @]
       \/ UNCHANGED file
    /\ Go(r, "verify")
    /\ UNCHANGED <<server, opened, failed, dir, part, vtt>>

\* ffmpeg exits, or CONVERT_TIMEOUT kills it.
Convert(r) ==
    /\ At(r, "ffmpeg")
    /\ \/ /\ file' = [file EXCEPT ![req[r].out] = IF @ = "partial" THEN "whole" ELSE @]
          /\ Go(r, "verify")
       \/ NextAttempt(r) /\ UNCHANGED file
    /\ UNCHANGED <<server, opened, failed, dir, part, vtt>>

\* The size of whatever the path names now: empty or over the cap will not do.
Verify(r) ==
    /\ At(r, "verify")
    /\ \/ part # None /\ Go(r, "rename")
       \/ NextAttempt(r)
    /\ UNCHANGED <<server, opened, failed, diskVars>>

Rename(r) ==
    /\ At(r, "rename")
    /\ IF part # None THEN vtt' = part /\ part' = None /\ Go(r, "ok")
                      ELSE NextAttempt(r) /\ UNCHANGED <<vtt, part>>
    /\ UNCHANGED <<server, opened, failed, dir, file>>

CleanUp(r) ==
    /\ At(r, "cleanup")
    /\ part' = None
    /\ Go(r, "failing")
    /\ UNCHANGED <<server, opened, failed, dir, vtt, file>>

\* Mutation of Unlock: only a success lets go of the lock.
UnlockOk(r) ==
    /\ At(r, "ok")
    /\ Go(r, "read")
    /\ UNCHANGED <<server, opened, failed, diskVars>>

\* The guard goes out of scope.
Unlock(r) ==
    /\ req[r].at \in {"ok", "failing"}
    /\ Go(r, IF At(r, "ok") THEN "read" ELSE "mark")
    /\ UNCHANGED <<server, opened, failed, diskVars>>

-------------------------------------------------------------------------------
(* The receiver closes a connection; the daemon stops and restarts the server *)

Over == {"served", "garbled", "refused", "gone"}
Live(r) == req[r].at \notin Over \cup {"none"}

\* The handler is dropped at the await it is at; the half-written output stays.
Drop(r) ==
    /\ Live(r)
    /\ Go(r, "gone")
    /\ UNCHANGED <<server, opened, failed, diskVars>>

\* MediaServer::stop: no more connections, and the directory is removed with what
\* is in it.  Its handlers go on: one that converts can put a file there between
\* the removal of the others and that of the directory, which then fails, and what
\* had not been removed stays.
Stop ==
    /\ server # 0
    /\ server' = 0
    /\ \/ dir' = FALSE /\ part' = None /\ vtt' = None
       \/ /\ \E r \in Requests : Converting(r)
          /\ dir' = dir /\ part' \in {part, None} /\ vtt' \in {vtt, None}
    /\ UNCHANGED <<opened, req, failed, file>>

\* media_server::start of a restream: same token, same directory.
Start ==
    /\ server = 0 /\ opened < MaxServers
    /\ opened' = opened + 1
    /\ server' = opened'
    /\ UNCHANGED <<req, failed, diskVars>>

Terminated ==
    /\ server = 0 /\ opened = MaxServers
    /\ \A r \in Requests : ~Live(r)
    /\ UNCHANGED vars

-------------------------------------------------------------------------------

Step(r) ==
    \/ Lock(r) \/ CheckFailed(r) \/ Look(r) \/ RemovePart(r) \/ OpenPart(r)
    \/ OpenFails(r) \/ Convert(r) \/ Verify(r) \/ Rename(r) \/ CleanUp(r) \/ Unlock(r)
    \/ Mark(r) \/ Serve(r)

Next ==
    \/ \E r \in Requests : Ask(r) \/ Step(r) \/ Drop(r)
    \/ Stop \/ Start \/ Terminated

Spec == Init /\ [][Next]_vars

\* tokio runs every handler; ffmpeg exits or is killed after CONVERT_TIMEOUT;
\* the tokio lock is first come, first served, hence strong fairness.
Fairness == \A r \in Requests : WF_vars(Step(r)) /\ SF_vars(Lock(r))

-------------------------------------------------------------------------------
(* Properties *)

\* What no receiver is to be served: a track that ffmpeg has not finished writing.
ServedIsWhole == \A r \in Requests : ~At(r, "garbled")

\* A server and its successor convert the track at once, each under a lock of its own.
Crossing ==
    \E r, q \in Requests :
       req[r].server # req[q].server /\ Converting(r) /\ Converting(q)

\* Unless two servers' conversions ever cross, what is served is whole: also after
\* abandoned, timed-out and failed conversions, retries, a removal of the directory
\* under a conversion, and restreams whose predecessor's requests linger.
WholeUnlessCrossed == []~Crossing => []ServedIsWhole

\* The requests to one server never race, however many linger after its end.
OneConversionOfAServer ==
    \A r, q \in Requests :
       At(r, "ffmpeg") /\ At(q, "ffmpeg") /\ req[r].server = req[q].server => r = q

\* Every request is answered, or its connection is closed.
RequestsAreAnswered ==
    \A r \in Requests : At(r, "queue") ~> req[r].at \in Over
===============================================================================
