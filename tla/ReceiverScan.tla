----------------------------- MODULE ReceiverScan -----------------------------
(***************************************************************************)
(* What a discovery makes of the records it heard: mdns_devices,           *)
(* promote_cast_capable, merge and discover of discovery.rs.               *)
(*                                                                         *)
(* A record is a device as one protocol announced it.  mDNS events come in *)
(* any order and may repeat; DLNA descriptions are one per address         *)
(* (dlna::collect_devices keeps the first).  A name is the receiver's own, *)
(* its address, or empty.  The port, the id and the model follow the       *)
(* protocol and are left out, as is the order of the list.                 *)
(***************************************************************************)
EXTENDS Naturals, SequencesExt

CONSTANTS
    Ips,       \* addresses
    LanIps,    \* those util::valid_receiver_ip takes
    MaxEvents, \* bound on the mDNS events of a scan
    MaxMdns    \* MAX_MDNS_DEVICES

BoundsAssumption ==
    IsFiniteSet(Ips) /\ LanIps \subseteq Ips /\ MaxEvents \in Nat /\ MaxMdns \in Nat

VARIABLES
    events,   \* the ServiceResolved events, in order
    open,     \* the addresses that answer on the Cast port
    dlna,     \* the DLNA devices found
    done,     \* discover has returned
    devices   \* what it returned

vars == <<events, open, dlna, done, devices>>

Protocols == {"dlna", "cast", "airplay"}
Names == {"own", "address", ""}

Device == [ip : Ips, protocol : Protocols, name : Names, alternates : SUBSET Protocols]

Record(ip, protocol, name) ==
    [ip |-> ip, protocol |-> protocol, name |-> name, alternates |-> {}]

\* What the browses can report: cast_device takes the name from a property that
\* may be empty, airplay_device from the service's name.
Announced ==
    [ip : LanIps, protocol : {"cast"}, name : {"own", ""}, alternates : {{}}]
        \cup [ip : LanIps, protocol : {"airplay"}, name : {"own"}, alternates : {{}}]

DlnaAt(ip) == {{}} \cup {{Record(ip, "dlna", name)} : name \in {"own", "address"}}

Init ==
    /\ events \in SeqOf(Announced, MaxEvents)
    /\ open \in SUBSET LanIps
    /\ \E found \in [Ips -> UNION {DlnaAt(ip) : ip \in Ips}] :
         /\ \A ip \in Ips : found[ip] \in DlnaAt(ip)
         /\ dlna = UNION {found[ip] : ip \in Ips}
    /\ done = FALSE /\ devices = {}

\* mdns_devices keeps the first MaxMdns records.
Heard == IF Len(events) <= MaxMdns THEN events ELSE SubSeq(events, 1, MaxMdns)

\* promote_cast_capable: an address heard only over AirPlay whose Cast port
\* answers is a Cast receiver.
Promoted(records) ==
    LET castIps == {r.ip : r \in {s \in ToSet(records) : s.protocol = "cast"}}
    IN  [i \in DOMAIN records |->
           IF /\ records[i].protocol = "airplay"
              /\ records[i].ip \in open \ castIps
           THEN [records[i] EXCEPT !.protocol = "cast", !.alternates = {"airplay"}]
           ELSE records[i]]

\* preference
Preference(protocol) ==
    CASE protocol = "dlna" -> 3
      [] protocol = "cast" -> 2
      [] protocol = "airplay" -> 1

Unnamed(d) == d.name \in {"", "address"}

\* Mutation of Joined: the device dropped takes what it had heard with it.
JoinedForgets(keep, drop) ==
    [keep EXCEPT !.alternates = @ \cup {drop.protocol},
                 !.name = IF Unnamed(keep) /\ drop.name # "" THEN drop.name ELSE @]

\* The body of merge's loop, keep being the record of the preferred protocol.
Joined(keep, drop) ==
    [keep EXCEPT !.alternates = @ \cup drop.alternates \cup {drop.protocol},
                 !.name = IF Unnamed(keep) /\ drop.name # "" THEN drop.name ELSE @]

\* Two records of one address.
Merged(existing, device) ==
    IF Preference(device.protocol) > Preference(existing.protocol)
    THEN Joined(device, existing)
    ELSE Joined(existing, device)

\* by_ip.remove and insert: the list holds the records merged so far.
AddRecord(list, device) ==
    LET existing == {d \in list : d.ip = device.ip}
    IN  (list \ existing)
          \cup (IF existing = {} THEN {device}
                ELSE {Merged(d, device) : d \in existing})

\* merge: the mDNS records, then those of DLNA, whose order does not matter, as
\* there is one for each address.
MergeAll == FoldLeft(AddRecord, {}, Promoted(Heard) \o SetToSeq(dlna))

\* discover, from the records to the list.
Discover ==
    /\ ~done /\ done' = TRUE
    /\ devices' = {d \in MergeAll : d.ip \in LanIps}
    /\ UNCHANGED <<events, open, dlna>>

Done == done /\ UNCHANGED vars

Next == Discover \/ Done

Spec == Init /\ [][Next]_vars

-------------------------------------------------------------------------------

\* Every variable has its type.
TypeOK ==
    /\ events \in Seq(Announced) /\ Len(events) <= MaxEvents
    /\ open \subseteq LanIps /\ dlna \subseteq Device
    /\ done \in BOOLEAN /\ devices \subseteq Device

\* The records of the scan, without the promotion and the merge.
RecordsOf(ip) == {r \in ToSet(Heard) \cup dlna : r.ip = ip}

\* What an address is known to speak: what was heard, and Cast where AirPlay was
\* heard and the Cast port answers.
Speaks(ip) ==
    LET heard == {r.protocol : r \in RecordsOf(ip)}
    IN  heard \cup IF "airplay" \in heard /\ ip \in open THEN {"cast"} ELSE {}

\* However the records were ordered or repeated, an address is listed once and
\* over the best protocol it speaks: a TV that was heard over AirPlay only is not
\* cast to over the weaker protocol.
BestProtocolOnce ==
    done =>
        \A d \in devices :
            /\ \A e \in devices : e.ip = d.ip => e = d
            /\ d.protocol \in Speaks(d.ip)
            /\ \A p \in Speaks(d.ip) : Preference(p) <= Preference(d.protocol)

\* No protocol of a receiver is lost by the merge: it is the one used or an
\* alternate, and nothing else is.
NothingHeardIsLost ==
    done =>
        /\ {d.ip : d \in devices} = {ip \in LanIps : RecordsOf(ip) # {}}
        /\ \A d \in devices : {d.protocol} \cup d.alternates = Speaks(d.ip)

\* A receiver whose name any record knows is listed under its name, whichever
\* record wins.
NamedIfKnown ==
    done =>
        \A d \in devices :
            d.name = "own" <=> \E r \in RecordsOf(d.ip) : r.name = "own"

\* The list a scan answers with says of each LAN address that was heard all that
\* was heard of it, whatever the order in which the protocols announced it.
MergeIsExact == BestProtocolOnce /\ NothingHeardIsLost /\ NamedIfKnown
===============================================================================
