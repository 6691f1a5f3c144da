------------------------------ MODULE DeviceCache ------------------------------
(***************************************************************************)
(* The list of known receivers the daemon keeps (Daemon::devices) under    *)
(* the requests that read and write it: discover, which replaces it after  *)
(* a scan of several seconds, and the lookup of connect, which takes a     *)
(* receiver from it, else scans, else probes the address and adds what it  *)
(* finds.  connect holds the action mutex, discover holds nothing: any     *)
(* number of scans overlap a lookup and one another.                       *)
(*                                                                         *)
(* An entry is an address with the scan or probe it comes from; what a     *)
(* scan makes of the records it heard is ReceiverScan.                     *)
(***************************************************************************)
EXTENDS Naturals

CONSTANTS
    Ips,        \* receivers
    Renderers,  \* those with a DLNA description, which a probe finds
    Clients,    \* requests for discover, each with its own task
    MaxScans    \* bound on scans and probes

Lookup == "connect"

BoundsAssumption ==
    /\ Ips # {} /\ Renderers \subseteq Ips
    /\ MaxScans \in Nat
    /\ Lookup \notin Clients

Tasks == Clients \cup {Lookup}

VARIABLES
    cache,    \* the list: entries [ip, from]
    fresh,    \* it is younger than DISCOVER_TTL
    reach,    \* the receivers that answer now
    task,     \* for each task: where it is and what it works on
    scans     \* scans and probes made

vars == <<cache, fresh, reach, task, scans>>

Entry == [ip : Ips, from : 1..MaxScans]

Steps == {"idle", "asked", "scanning", "answered", "find", "scan", "probe", "found", "unknown"}

\* at: the step; ip: what connect looks for; heard: what the scan or the lookup
\* found; steady: ip has answered ever since the lookup began.
Task == [at : Steps, ip : Ips, heard : SUBSET Entry, steady : BOOLEAN]

Init ==
    /\ cache = {} /\ fresh = FALSE
    /\ reach \in SUBSET Ips
    /\ task \in [Tasks -> {[at |-> "idle", ip |-> ip, heard |-> {}, steady |-> FALSE] : ip \in Ips}]
    /\ scans = 0

Goto(t, step) == task' = [task EXCEPT ![t].at = step]

\* A request for discover, forced or not: a fresh list that is not empty answers
\* one that is not.
Ask(t, force) ==
    /\ task[t].at = "idle"
    /\ IF ~force /\ fresh /\ cache # {}
       THEN task' = [task EXCEPT ![t].at = "answered", ![t].heard = cache]
       ELSE Goto(t, "scanning")
    /\ UNCHANGED <<cache, fresh, reach, scans>>

\* discover's cache check for the lookup of connect, which never forces.
AskForConnect(t) ==
    /\ task[t].at = "scan"
    /\ IF fresh /\ cache # {}
       THEN task' = [task EXCEPT ![t].at = "answered", ![t].heard = cache]
       ELSE Goto(t, "scanning")
    /\ UNCHANGED <<cache, fresh, reach, scans>>

Scanned(ips) == {[ip |-> ip, from |-> scans'] : ip \in ips}

\* discovery::discover: a scan hears some of the receivers that answer (mDNS is
\* best effort).  What it heard is not written yet.
Scan(t) ==
    /\ task[t].at = "scanning" /\ task[t].heard = {} /\ scans < MaxScans
    /\ scans' = scans + 1
    /\ \E ips \in SUBSET reach : task' = [task EXCEPT ![t].heard = Scanned(ips)]
    /\ UNCHANGED <<cache, fresh, reach>>

\* The list becomes what this scan heard, whatever was written meanwhile.  A scan
\* that has not heard anything when it ends heard nothing.
Overwrite(t) ==
    /\ task[t].at = "scanning"
    /\ cache' = task[t].heard /\ fresh' = TRUE
    /\ Goto(t, "answered")
    /\ UNCHANGED <<reach, scans>>

\* The reply of a discover request has been sent.
Reply(t) ==
    /\ t \in Clients /\ task[t].at = "answered"
    /\ task' = [task EXCEPT ![t].at = "idle", ![t].heard = {}]
    /\ UNCHANGED <<cache, fresh, reach, scans>>

\* connect begins its lookup.
BeginLookup ==
    /\ task[Lookup].at = "idle"
    /\ \E ip \in Ips :
         task' = [task EXCEPT ![Lookup] =
                    [at |-> "find", ip |-> ip, heard |-> {}, steady |-> ip \in reach]]
    /\ UNCHANGED <<cache, fresh, reach, scans>>

\* The device of the address that connect looks for.
Wanted(entries) == {e \in entries : e.ip = task[Lookup].ip}

\* A device of the list is used as it is, even when the list is old.
FindCached ==
    /\ task[Lookup].at = "find"
    /\ task' = [task EXCEPT ![Lookup].heard = Wanted(cache),
                            ![Lookup].at = IF Wanted(cache) = {} THEN "scan" ELSE "found"]
    /\ UNCHANGED <<cache, fresh, reach, scans>>

\* Mutation of FindScanned: a receiver that the scan missed is unknown.
FindScannedOnly ==
    /\ task[Lookup].at = "answered"
    /\ task' = [task EXCEPT ![Lookup].heard = Wanted(@),
                            ![Lookup].at =
                               IF Wanted(task[Lookup].heard) = {} THEN "unknown" ELSE "found"]
    /\ UNCHANGED <<cache, fresh, reach, scans>>

\* connect looks for the address in what discover returned, and probes it else.
FindScanned ==
    /\ task[Lookup].at = "answered"
    /\ task' = [task EXCEPT ![Lookup].heard = Wanted(@),
                            ![Lookup].at =
                               IF Wanted(task[Lookup].heard) = {} THEN "probe" ELSE "found"]
    /\ UNCHANGED <<cache, fresh, reach, scans>>

\* dlna::probe_ip finds the receiver, without having written it yet.
Probe ==
    /\ task[Lookup].at = "probe" /\ task[Lookup].heard = {}
    /\ task[Lookup].ip \in reach \cap Renderers /\ scans < MaxScans
    /\ scans' = scans + 1
    /\ task' = [task EXCEPT ![Lookup].heard = Scanned({task[Lookup].ip})]
    /\ UNCHANGED <<cache, fresh, reach>>

\* The probed device takes the place of any entry of its address, and is used.
AddProbed ==
    /\ task[Lookup].at = "probe" /\ task[Lookup].heard # {}
    /\ cache' = {e \in cache : e.ip # task[Lookup].ip} \cup task[Lookup].heard
    /\ Goto(Lookup, "found")
    /\ UNCHANGED <<fresh, reach, scans>>

\* "Unknown device": nothing answered at the address, or no DLNA renderer (a
\* Chromecast or AirPlay receiver that the scan missed).
ProbeFails ==
    /\ task[Lookup].at = "probe" /\ task[Lookup].heard = {}
    /\ task[Lookup].ip \notin reach \cap Renderers
    /\ Goto(Lookup, "unknown")
    /\ UNCHANGED <<cache, fresh, reach, scans>>

\* connect is over; the action mutex is free for the next.
EndLookup ==
    /\ task[Lookup].at \in {"found", "unknown"}
    /\ task' = [task EXCEPT ![Lookup].at = "idle", ![Lookup].heard = {}, ![Lookup].steady = FALSE]
    /\ UNCHANGED <<cache, fresh, reach, scans>>

\* The list outlives DISCOVER_TTL.
Expire == fresh /\ fresh' = FALSE /\ UNCHANGED <<cache, reach, task, scans>>

\* A receiver is switched on or off.
Switch(ip) ==
    /\ reach' = IF ip \in reach THEN reach \ {ip} ELSE reach \cup {ip}
    /\ task' = [task EXCEPT ![Lookup].steady = @ /\ task[Lookup].ip # ip]
    /\ UNCHANGED <<cache, fresh, scans>>

LookupStep ==
    \/ BeginLookup \/ FindCached \/ AskForConnect(Lookup) \/ FindScanned
    \/ Probe \/ AddProbed \/ ProbeFails \/ EndLookup

Next ==
    \/ \E t \in Clients, force \in BOOLEAN : Ask(t, force)
    \/ \E t \in Tasks : Scan(t) \/ Overwrite(t) \/ Reply(t)
    \/ LookupStep
    \/ Expire
    \/ \E ip \in Ips : Switch(ip)

Spec == Init /\ [][Next]_vars

-------------------------------------------------------------------------------

\* Every variable has its type.
TypeOK ==
    /\ cache \subseteq Entry /\ fresh \in BOOLEAN /\ reach \subseteq Ips
    /\ task \in [Tasks -> Task] /\ scans \in 0..MaxScans

\* A DLNA receiver that answers all through a connect is not "Unknown device",
\* whatever its scan missed and whatever the scans that overlap the connect do to
\* the list (daemon.rs:526).
SteadyIsFound ==
    task[Lookup].at = "unknown" => ~task[Lookup].steady \/ task[Lookup].ip \notin Renderers

===============================================================================
