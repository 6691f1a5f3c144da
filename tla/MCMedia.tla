------------------------------- MODULE MCMedia -------------------------------
(***************************************************************************)
(* One instance for TLC of the two components behind the media server's    *)
(* GET requests: the streams (MediaServer) and the converted subtitles     *)
(* (SubtitleCache).  They share nothing but the restarts of the server,    *)
(* which each has as actions of its own.  `part` is the component that a   *)
(* behaviour is about; the other stands still in its initial state, where  *)
(* its fairness asks for nothing.                                          *)
(***************************************************************************)
EXTENDS MediaServer

CONSTANTS Requests, None, Attempts   \* of SubtitleCache

VARIABLES part, server, starts, req, failed, dir, partFile, vtt, file

Subs == INSTANCE SubtitleCache WITH opened <- starts, part <- partFile

ASSUME SubsAssumption == Subs!BoundsAssumption

subsVars == <<server, starts, req, failed, dir, partFile, vtt, file>>

MCInit == part \in {"streams", "subtitles"} /\ Init /\ Subs!Init

StreamsStep == part = "streams" /\ Next /\ UNCHANGED <<part, subsVars>>
SubtitlesStep == part = "subtitles" /\ Subs!Next /\ UNCHANGED <<part, vars>>

MCNext == StreamsStep \/ SubtitlesStep

MCSpec == MCInit /\ [][MCNext]_<<part, vars, subsVars>> /\ Fairness /\ Subs!Fairness

-------------------------------------------------------------------------------
(* Properties of SubtitleCache; those of MediaServer are its own *)

\* A receiver is never served a track that ffmpeg has not finished writing, also
\* after an abandoned or failed conversion (subtitles.rs, ensure_vtt), unless two
\* servers of the session have converted it at once.
WholeUnlessCrossed == Subs!WholeUnlessCrossed

\* The lock of a server serialises its conversions (media_server.rs,
\* ServerConfig::convert).
OneConversionOfAServer == Subs!OneConversionOfAServer

\* "Two requests never race on one file" (media_server.rs, ServerConfig::convert):
\* what that is for, no track is served half-written.
ServedIsWhole == Subs!ServedIsWhole

\* Every request for a track is answered, or its connection is closed, also
\* behind a conversion that fails (subtitle_response).
RequestsAreAnswered == Subs!RequestsAreAnswered
===============================================================================
