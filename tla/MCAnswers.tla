------------------------------ MODULE MCAnswers ------------------------------
(***************************************************************************)
(* One instance for TLC of the four components that answer a question of   *)
(* the panel or the receiver: the byte range of a download (ByteRange),    *)
(* the subtitle track of a request (CueTiming), the list a scan makes      *)
(* (ReceiverScan), the receiver of a connect (DeviceCache).                *)
(*                                                                         *)
(* They share no state, so their interleavings show nothing.  `part` is    *)
(* the component that a behaviour is about; the others stand still.        *)
(***************************************************************************)
EXTENDS ByteRange

CONSTANTS
    MaxBlocks, MaxTime, Bodies,                       \* of CueTiming
    Ips, LanIps, MaxEvents, MaxMdns,                  \* of ReceiverScan
    KnownIps, Renderers, Clients, MaxScans            \* of DeviceCache

VARIABLES
    part,
    doc, closed, offset, vtt, srt, forms,             \* of CueTiming
    events, open, dlna, scanned, devices,             \* of ReceiverScan
    cache, fresh, reach, task, scans                  \* of DeviceCache

Track == INSTANCE CueTiming WITH done <- forms
Scan == INSTANCE ReceiverScan WITH done <- scanned
Cache == INSTANCE DeviceCache WITH Ips <- KnownIps

ASSUME TrackAssumption == Track!BoundsAssumption
ASSUME ScanAssumption == Scan!BoundsAssumption
ASSUME CacheAssumption == Cache!BoundsAssumption

\* A component that stands still does so in an initial state of its own.
RangeRests ==
    /\ size = 0 /\ reply = NoReply
    /\ range = [usable |-> FALSE, first |-> Missing, second |-> Missing]

TrackRests ==
    /\ doc = <<>> /\ closed = FALSE /\ offset = 0
    /\ vtt = <<>> /\ srt = <<>> /\ forms = 0

ScanRests == events = <<>> /\ open = {} /\ dlna = {} /\ scanned = FALSE /\ devices = {}

CacheRests ==
    /\ cache = {} /\ fresh = FALSE /\ reach = {} /\ scans = 0
    /\ task = [t \in Cache!Tasks |->
                 [at |-> "idle", ip |-> CHOOSE ip \in KnownIps : TRUE,
                  heard |-> {}, steady |-> FALSE]]

MCInit ==
    /\ part \in {"range", "track", "scan", "cache"}
    /\ IF part = "range" THEN Init ELSE RangeRests
    /\ IF part = "track" THEN Track!Init ELSE TrackRests
    /\ IF part = "scan" THEN Scan!Init ELSE ScanRests
    /\ IF part = "cache" THEN Cache!Init ELSE CacheRests

trackVars == <<doc, closed, offset, vtt, srt, forms>>
scanVars == <<events, open, dlna, scanned, devices>>
cacheVars == <<cache, fresh, reach, task, scans>>

RangeStep == part = "range" /\ Next /\ UNCHANGED <<part, trackVars, scanVars, cacheVars>>
TrackStep == part = "track" /\ Track!Next /\ UNCHANGED <<part, vars, scanVars, cacheVars>>
ScanStep == part = "scan" /\ Scan!Next /\ UNCHANGED <<part, vars, trackVars, cacheVars>>
CacheStep == part = "cache" /\ Cache!Next /\ UNCHANGED <<part, vars, trackVars, scanVars>>

MCNext == RangeStep \/ TrackStep \/ ScanStep \/ CacheStep

MCSpec == MCInit /\ [][MCNext]_<<part, vars, trackVars, scanVars, cacheVars>>

-------------------------------------------------------------------------------
(* Properties; RepliesAreExact is ByteRange's own *)

\* Every variable has its type.
AnswersTypeOK ==
    CASE part = "range" -> TypeOK
      [] part = "track" -> Track!TypeOK
      [] part = "scan" -> Scan!TypeOK
      [] part = "cache" -> Cache!TypeOK

\* A receiver that starts in the middle of a file is given the cues it still has
\* to show, each once and at the right time, in either form (subtitles.rs).
TracksAreExact == Track!TracksAreExact

\* A scan lists each LAN address that was heard once, over the best protocol it
\* speaks, with the others as alternates and under its own name, in whatever order
\* the records came (discovery.rs, merge).
MergeIsExact == Scan!MergeIsExact

\* A DLNA receiver that answers all through a connect is never "Unknown device",
\* whatever the scans that overlap it do to the list (daemon.rs:526).
SteadyIsFound == Cache!SteadyIsFound
===============================================================================
