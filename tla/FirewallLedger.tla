---------------------------- MODULE FirewallLedger ----------------------------
(***************************************************************************)
(* The ufw rules of the daemon and the ledger that remembers which of them *)
(* are its own (firewall.rs): `open` when a session is connected, `clear`  *)
(* on request.                                                             *)
(*                                                                         *)
(* Both read the ledger, await ufw behind a polkit prompt (up to 60 s for  *)
(* every rule) and write the ledger from what they read.  connect holds    *)
(* the action mutex, so opens follow one another; clear-firewall takes no  *)
(* lock, so a clear can overlap an open or another clear.                  *)
(*                                                                         *)
(* What ufw has done and what the ledger says can part: the daemon may die *)
(* before it writes, a write may fail (its error is dropped; write_atomic, *)
(* in SettingsFiles, leaves the old ledger), and ufw may do its work and   *)
(* not be heard, when the 60 s end while it works or it fails afterwards.  *)
(* `slipped` has the rules to which that has happened.                     *)
(*                                                                         *)
(* ufw is external: `allow` adds a rule, skips an identical one, or puts   *)
(* ours in the place of one for the same traffic; with ufw disabled it     *)
(* edits the saved rules all the same, but does not answer "Rule added".   *)
(* `delete` removes the saved rule, whoever added it.                      *)
(***************************************************************************)
EXTENDS FiniteSets

CONSTANTS
    Rules,     \* (receiver, address, port) triples a session may need
    Clears,    \* clear-firewall requests
    NoRule     \* no open is under way

ASSUME NoRuleAssumption == NoRule \notin Rules

VARIABLES
    world,    \* what may happen, chosen at the start
    enabled,  \* ufw.conf says ENABLED=yes
    rules,    \* /etc/ufw/user.rules: who added each rule
    ledger,   \* the rules recorded in the ledger
    opening,  \* the open under way: its rule and the ledger it read
    clearing, \* the clears: the rules still to delete, and those that stay
    slipped   \* the rules whose addition or deletion went unrecorded

ledgerVars == <<world, enabled, rules, ledger, opening, clearing, slipped>>

\* overlap: a clear may overlap an open or another clear.
\* disables: the user may disable and enable ufw.
\* userAdds: the user may add rules at any time.
\* fails: a record of the daemon's (it may die before the write, or the write
\* fails), and what ufw answers (it may do its work and not be heard).
Worlds == [overlap : BOOLEAN, disables : BOOLEAN, userAdds : BOOLEAN,
           fails : SUBSET {"record", "answer"}]

\* One operation after the other, and ufw stays on.
Orderly == ~world.overlap /\ ~world.disables

\* "replaced" is a rule of the user's that ufw has replaced with ours.
Theirs == {"user", "replaced"}
Owners == {"nobody", "daemon"} \cup Theirs

NotOpening == [at |-> "none", rule |-> NoRule, read |-> {}]
Asked == [at |-> "new", todo |-> {}, remaining |-> {}]

LedgerInit ==
    /\ world \in Worlds
    /\ enabled \in IF world.disables THEN BOOLEAN ELSE {TRUE}
    /\ rules \in [Rules -> {"nobody", "user"}]
    /\ ledger = {}
    /\ opening = NotOpening
    /\ clearing = [c \in Clears |-> Asked]
    /\ slipped = {}

Deleting(c) == clearing[c].at = "delete"

\* Nothing of the daemon is between its read and its write.
Quiet == opening = NotOpening /\ \A c \in Clears : ~Deleting(c)

-------------------------------------------------------------------------------
(* open *)

\* The ledger is read, and ufw's saved rules; nothing is to be done when one of
\* them has the rule or ufw is off.  Otherwise the prompt comes up.
BeginOpen(r) ==
    /\ opening = NotOpening /\ (world.overlap \/ Quiet)
    /\ enabled /\ r \notin ledger /\ rules[r] = "nobody"
    /\ opening' = [at |-> "prompt", rule |-> r, read |-> ledger]
    /\ UNCHANGED <<enabled, rules, ledger, clearing, slipped>>

\* What `ufw allow` does, whoever hears of it.
UfwAllows(r) ==
    \E theirs \in Theirs :
       rules' = [rules EXCEPT ![r] = CASE @ = "nobody" -> "daemon"
                                       [] @ = "user" -> theirs
                                       [] OTHER -> @]

\* Mutation of Allowed: whatever ufw answers, the rule is recorded.
AllowedAny ==
    /\ opening.at = "prompt"
    /\ UfwAllows(opening.rule)
    /\ opening' = [opening EXCEPT !.at = "write"]
    /\ UNCHANGED <<enabled, ledger, clearing, slipped>>

\* The prompt is accepted; only "Rule added" is to be recorded.
Allowed ==
    /\ opening.at = "prompt"
    /\ UfwAllows(opening.rule)
    /\ opening' = IF rules[opening.rule] = "nobody" /\ enabled
                  THEN [opening EXCEPT !.at = "write"] ELSE NotOpening
    /\ UNCHANGED <<enabled, ledger, clearing, slipped>>

\* The ledger is written, from what was read before the prompt.
Recorded ==
    /\ opening.at = "write"
    /\ ledger' = opening.read \cup {opening.rule}
    /\ slipped' = slipped \ {opening.rule}
    /\ opening' = NotOpening
    /\ UNCHANGED <<enabled, rules, clearing>>

\* It is not: write_firewall_ledger drops the error.
NotRecorded ==
    /\ "record" \in world.fails /\ opening.at = "write"
    /\ slipped' = slipped \cup {opening.rule}
    /\ opening' = NotOpening
    /\ UNCHANGED <<enabled, rules, ledger, clearing>>

\* Declined, failed, or 60 s have passed and the prompt is taken down.
NotAllowed ==
    /\ opening.at = "prompt"
    /\ opening' = NotOpening
    /\ UNCHANGED <<enabled, rules, ledger, clearing, slipped>>

\* The same to the daemon, but ufw was at work as root, where it cannot be killed.
AllowedUnheard ==
    /\ "answer" \in world.fails /\ opening.at = "prompt"
    /\ UfwAllows(opening.rule)
    /\ slipped' = IF rules[opening.rule] = "nobody" THEN slipped \cup {opening.rule}
                  ELSE slipped
    /\ opening' = NotOpening
    /\ UNCHANGED <<enabled, ledger, clearing>>

-------------------------------------------------------------------------------
(* clear *)

\* The ledger is read; with ufw off it is emptied and that is all.  So it is
\* when it has no rule: nothing is awaited before it is written.
BeginClear(c) ==
    /\ clearing[c].at = "new" /\ (world.overlap \/ Quiet)
    /\ IF enabled /\ ledger # {}
       THEN /\ clearing' = [clearing EXCEPT
                               ![c] = [at |-> "delete", todo |-> ledger, remaining |-> {}]]
            /\ UNCHANGED ledger
       ELSE /\ clearing' = [clearing EXCEPT ![c].at = "done"]
            /\ \/ ledger' = {}
               \/ "record" \in world.fails /\ UNCHANGED ledger
    /\ UNCHANGED <<enabled, rules, opening, slipped>>

\* ufw deletes a rule, or does not find it.
Deleted(c) ==
    /\ Deleting(c)
    /\ \E r \in clearing[c].todo :
         /\ clearing' = [clearing EXCEPT ![c].todo = @ \ {r}]
         /\ rules' = [rules EXCEPT ![r] = "nobody"]
    /\ UNCHANGED <<enabled, ledger, opening, slipped>>

\* The same, but the daemon takes it for a failure and keeps the rule.
DeletedUnheard(c) ==
    /\ "answer" \in world.fails /\ Deleting(c)
    /\ \E r \in clearing[c].todo :
         /\ clearing' = [clearing EXCEPT ![c].todo = @ \ {r}, ![c].remaining = @ \cup {r}]
         /\ rules' = [rules EXCEPT ![r] = "nobody"]
         /\ slipped' = slipped \cup {r}
    /\ UNCHANGED <<enabled, ledger, opening>>

\* Mutation of NotDeleted: a rule that could not be deleted is forgotten.
NotDeletedForgotten(c) ==
    /\ Deleting(c)
    /\ \E r \in clearing[c].todo : clearing' = [clearing EXCEPT ![c].todo = @ \ {r}]
    /\ UNCHANGED <<enabled, rules, ledger, opening, slipped>>

\* The prompt was declined or timed out: the rule stays.
NotDeleted(c) ==
    /\ Deleting(c)
    /\ \E r \in clearing[c].todo :
         clearing' = [clearing EXCEPT ![c].todo = @ \ {r}, ![c].remaining = @ \cup {r}]
    /\ UNCHANGED <<enabled, rules, ledger, opening, slipped>>

Finish(c) == clearing' = [clearing EXCEPT ![c] = [@ EXCEPT !.at = "done", !.remaining = {}]]

\* Recorded, and no longer to be deleted.
Gone(c) == ledger \ (clearing[c].todo \cup clearing[c].remaining)

\* The ledger is written with the rules that stay.
EndClear(c) ==
    /\ Deleting(c) /\ clearing[c].todo = {}
    /\ ledger' = clearing[c].remaining
    /\ slipped' = slipped \ Gone(c)
    /\ Finish(c)
    /\ UNCHANGED <<enabled, rules, opening>>

\* Or the write fails.
EndClearUnwritten(c) ==
    /\ "record" \in world.fails /\ Deleting(c) /\ clearing[c].todo = {}
    /\ slipped' = slipped \cup Gone(c)
    /\ Finish(c)
    /\ UNCHANGED <<enabled, rules, ledger, opening>>

-------------------------------------------------------------------------------
(* The daemon dies; the user *)

\* At a prompt, between ufw's answer and the record of it, or in a clear.  The next
\* daemon knows what the ledger says.
DaemonDies ==
    /\ "record" \in world.fails /\ ~Quiet
    /\ slipped' = slipped \cup (IF opening.at = "write" THEN {opening.rule} ELSE {})
                           \cup UNION {Gone(c) : c \in {d \in Clears : Deleting(d)}}
    /\ opening' = NotOpening
    /\ clearing' = [c \in Clears |->
                       IF Deleting(c) THEN [at |-> "done", todo |-> {}, remaining |-> {}]
                       ELSE clearing[c]]
    /\ UNCHANGED <<enabled, rules, ledger>>

UserAddsRule(r) ==
    /\ world.userAdds
    /\ rules[r] = "nobody"
    /\ rules' = [rules EXCEPT ![r] = "user"]
    /\ UNCHANGED <<enabled, ledger, opening, clearing, slipped>>

Toggle ==
    /\ world.disables
    /\ enabled' = ~enabled
    /\ UNCHANGED <<rules, ledger, opening, clearing, slipped>>

\* The clears are done, and what is left to open is open.
LedgerSettled ==
    /\ Quiet /\ \A c \in Clears : clearing[c].at = "done"
    /\ UNCHANGED ledgerVars

-------------------------------------------------------------------------------

LedgerNext ==
    /\ UNCHANGED world
    /\ \/ \E r \in Rules : BeginOpen(r) \/ UserAddsRule(r)
       \/ Allowed \/ AllowedUnheard \/ NotAllowed \/ Recorded \/ NotRecorded
       \/ \E c \in Clears :
            \/ BeginClear(c) \/ Deleted(c) \/ DeletedUnheard(c) \/ NotDeleted(c)
            \/ EndClear(c) \/ EndClearUnwritten(c)
       \/ DaemonDies \/ Toggle \/ LedgerSettled

LedgerSpec == LedgerInit /\ [][LedgerNext]_ledgerVars

-------------------------------------------------------------------------------
(* Properties *)

\* Every variable has its type, and a clear is done with a rule once.
LedgerTypeOK ==
    /\ world \in Worlds /\ enabled \in BOOLEAN
    /\ rules \in [Rules -> Owners]
    /\ ledger \subseteq Rules /\ slipped \subseteq Rules
    /\ opening \in [at : {"none", "prompt", "write"}, rule : Rules \cup {NoRule},
                     read : SUBSET Rules]
    /\ opening.at = "none" <=> opening.rule = NoRule
    /\ opening.at = "none" => opening = NotOpening
    /\ clearing \in [Clears -> [at : {"new", "delete", "done"},
                                todo : SUBSET Rules, remaining : SUBSET Rules]]
    /\ \A c \in Clears : clearing[c].todo \cap clearing[c].remaining = {}

\* No step of the daemon deletes a rule of the user's, also one that ufw replaced
\* with ours, and only `ufw allow` replaces one: a rule the user added while the
\* prompt for it was up (firewall.rs:135-142).  If the user adds none, that holds
\* however opens and clears overlap and fail and ufw is switched on and off; in an
\* orderly world, also of the rules added meanwhile, except where a record has
\* outlived the daemon's own rule for that traffic.
UserRulesStay ==
    [][\A r \in Rules :
          (Orderly \/ ~world.userAdds) /\ rules[r] \in Theirs =>
             \/ rules'[r] = rules[r]
             \/ world.userAdds /\ rules'[r] = "replaced" /\ r = opening.rule
             \/ world.userAdds /\ r \in slipped /\ r \in ledger]_ledgerVars

\* The rules the daemon added are the ones that clear and the uninstall script
\* remove: when nothing is under way the ledger has them all.
NothingForgotten ==
    Quiet => \A r \in Rules \ slipped : rules[r] = "daemon" => r \in ledger

\* Nor has it others.
NothingResurrected ==
    Quiet => \A r \in ledger \ slipped : rules[r] = "daemon"

\* In an orderly world the ledger at rest has just the daemon's rules, but for those
\* to which a failure happened themselves: one that is lost, declined or cut off
\* loses no other, and where nothing fails nothing is lost.
LedgerIsOurs ==
    Orderly =>
        NothingForgotten /\ NothingResurrected /\ (world.fails = {} => slipped = {})
===============================================================================
