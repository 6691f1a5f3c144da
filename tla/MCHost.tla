-------------------------------- MODULE MCHost --------------------------------
(***************************************************************************)
(* One instance for TLC of the three components that leave something on    *)
(* the machine: the daemon's lock, socket and subtitles (DaemonStart), the *)
(* firewall rules and their ledger (FirewallLedger), the settings and the  *)
(* list of addresses (SettingsFiles).                                      *)
(*                                                                         *)
(* They share no file and no lock, so their interleavings show nothing.    *)
(* `part` is the component that a behaviour is about; the others stand     *)
(* still in an initial state of their own.                                 *)
(***************************************************************************)
EXTENDS DaemonStart, FirewallLedger, SettingsFiles

VARIABLE part

StartRests == restart = FALSE /\ setup = [ours |-> FALSE, trusted |-> FALSE, spawns |-> FALSE]

LedgerRests ==
    /\ world = [overlap |-> FALSE, disables |-> FALSE, userAdds |-> FALSE, fails |-> {}]
    /\ rules = [r \in Rules |-> "nobody"]

MCInit ==
    /\ part \in {"start", "ledger", "files"}
    /\ IF part = "start" THEN TRUE ELSE StartRests
    /\ IF part = "ledger" THEN TRUE ELSE LedgerRests
    /\ Init /\ LedgerInit /\ FilesInit

StartStep == part = "start" /\ Next /\ UNCHANGED <<part, ledgerVars, filesVars>>
LedgerStep == part = "ledger" /\ LedgerNext /\ UNCHANGED <<part, vars, filesVars>>
FilesStep == part = "files" /\ FilesNext /\ UNCHANGED <<part, vars, ledgerVars>>

MCNext == StartStep \/ LedgerStep \/ FilesStep

MCSpec == MCInit /\ [][MCNext]_<<part, vars, ledgerVars, filesVars>>
===============================================================================
