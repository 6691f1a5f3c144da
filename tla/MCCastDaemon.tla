----------------------------- MODULE MCCastDaemon -----------------------------
(***************************************************************************)
(* TLC instances of CastDaemon.  Watcher slots are interchangeable, so the *)
(* safety runs use them as a symmetry set; liveness runs do not.           *)
(***************************************************************************)
EXTENDS CastDaemon, TLC, FiniteSets

Symmetry == Permutations(Watchers)
===============================================================================
