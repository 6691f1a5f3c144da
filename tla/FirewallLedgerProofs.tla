------------------------- MODULE FirewallLedgerProofs -------------------------
(***************************************************************************)
(* FirewallLedger for any number of rules and of clear requests: as long   *)
(* as the user adds no rule, no interleaving or failure of opens and       *)
(* clears touches a rule of the user; in an orderly world, whatever the    *)
(* user adds and whatever fails, the ledger at rest agrees with ufw about  *)
(* every rule whose own record or answer was not lost.                     *)
(***************************************************************************)
EXTENDS FirewallLedger, TLAPS

-------------------------------------------------------------------------------
(* The user's rules, under any overlap and failure *)

\* What the ledger holds, an open is about to allow, or a clear to put back or
\* delete, is never a rule of the user, and none has been replaced.
NeverTheUsers ==
    \A r \in Rules :
       /\ rules[r] # "replaced"
       /\ rules[r] = "user" =>
             /\ r \notin ledger
             /\ r \notin opening.read /\ r # opening.rule
             /\ \A c \in Clears : r \notin clearing[c].todo \cup clearing[c].remaining

Safe == LedgerTypeOK /\ NeverTheUsers

\* The world is chosen once.
LEMMA WorldIsFixed ==
    ASSUME [LedgerNext]_ledgerVars
    PROVE  world' = world
  BY DEF LedgerNext, ledgerVars

LEMMA InitIsTyped == LedgerInit => LedgerTypeOK
  <1> SUFFICES ASSUME LedgerInit PROVE LedgerTypeOK
    OBVIOUS
  <1>1. /\ world \in Worlds /\ enabled \in BOOLEAN
        /\ rules \in [Rules -> Owners] /\ ledger \subseteq Rules /\ slipped \subseteq Rules
    BY DEF LedgerInit, Owners, Theirs
  <1>2. /\ opening \in [at : {"none", "prompt", "write"}, rule : Rules \cup {NoRule},
                        read : SUBSET Rules]
        /\ opening.at = "none" <=> opening.rule = NoRule
        /\ opening.at = "none" => opening = NotOpening
    BY DEF LedgerInit, NotOpening
  <1>3. /\ clearing \in [Clears -> [at : {"new", "delete", "done"},
                                    todo : SUBSET Rules, remaining : SUBSET Rules]]
        /\ \A c \in Clears : clearing[c].todo \cap clearing[c].remaining = {}
    BY DEF LedgerInit, Asked
  <1> QED BY <1>1, <1>2, <1>3 DEF LedgerTypeOK

\* While the prompt is up or the record is due, it is for a rule.
LEMMA OpeningARule ==
    ASSUME LedgerTypeOK, opening.at # "none"
    PROVE  opening.rule \in Rules
  BY DEF LedgerTypeOK

\* The clear that ends has nothing left to do, and the others are as they were.
LEMMA FinishOne ==
    ASSUME LedgerTypeOK, NEW c \in Clears, Finish(c)
    PROVE  /\ clearing' \in [Clears -> [at : {"new", "delete", "done"},
                                        todo : SUBSET Rules, remaining : SUBSET Rules]]
           /\ clearing'[c].at = "done" /\ clearing'[c].todo = clearing[c].todo
           /\ clearing'[c].remaining = {}
           /\ \A d \in Clears \ {c} : clearing'[d] = clearing[d]
  BY DEF LedgerTypeOK, Finish

\* `ufw allow` gives a rule to nobody, and none of the others another owner.
LEMMA UfwAllowsOne ==
    ASSUME LedgerTypeOK, NEW q \in Rules, UfwAllows(q)
    PROVE  /\ rules' \in [Rules -> Owners]
           /\ \A r \in Rules \ {q} : rules'[r] = rules[r]
           /\ rules[q] = "nobody" => rules'[q] = "daemon"
           /\ rules[q] = "user" => rules'[q] \in Theirs
           /\ rules[q] \notin {"nobody", "user"} => rules'[q] = rules[q]
  BY DEF LedgerTypeOK, UfwAllows, Owners, Theirs

LEMMA TypeStep ==
    ASSUME LedgerTypeOK, [LedgerNext]_ledgerVars
    PROVE  LedgerTypeOK'
  <1> USE DEF LedgerTypeOK
  <1>0. world' \in Worlds
    BY WorldIsFixed
  <1>1. ASSUME NEW r \in Rules, BeginOpen(r) PROVE LedgerTypeOK'
    BY <1>0, <1>1, NoRuleAssumption DEF BeginOpen
  <1>2. ASSUME NEW r \in Rules, UserAddsRule(r) PROVE LedgerTypeOK'
    BY <1>0, <1>2 DEF UserAddsRule, Owners, Theirs
  <1>3. ASSUME Allowed PROVE LedgerTypeOK'
    <2>1. opening.rule \in Rules /\ rules' \in [Rules -> Owners]
      BY <1>3, OpeningARule, UfwAllowsOne DEF Allowed
    <2>2. \/ opening' = [opening EXCEPT !.at = "write"]
          \/ opening' = NotOpening
      BY <1>3 DEF Allowed
    <2>3. /\ opening' \in [at : {"none", "prompt", "write"}, rule : Rules \cup {NoRule},
                           read : SUBSET Rules]
          /\ opening'.at = "none" <=> opening'.rule = NoRule
          /\ opening'.at = "none" => opening' = NotOpening
      BY <2>1, <2>2, NoRuleAssumption DEF NotOpening
    <2> QED BY <1>0, <1>3, <2>1, <2>3 DEF Allowed
  <1>4. ASSUME AllowedUnheard PROVE LedgerTypeOK'
    <2>1. opening.rule \in Rules /\ rules' \in [Rules -> Owners]
      BY <1>4, OpeningARule, UfwAllowsOne DEF AllowedUnheard
    <2> QED BY <1>0, <1>4, <2>1 DEF AllowedUnheard, NotOpening
  <1>5. ASSUME NotAllowed PROVE LedgerTypeOK'
    BY <1>0, <1>5 DEF NotAllowed, NotOpening
  <1>6. ASSUME Recorded \/ NotRecorded PROVE LedgerTypeOK'
    BY <1>0, <1>6, OpeningARule DEF Recorded, NotRecorded, NotOpening
  <1>7. ASSUME NEW c \in Clears, BeginClear(c) PROVE LedgerTypeOK'
    <2>1. CASE enabled /\ ledger # {}
      BY <1>0, <1>7, <2>1 DEF BeginClear
    <2>2. CASE ~(enabled /\ ledger # {})
      BY <1>0, <1>7, <2>2 DEF BeginClear
    <2> QED BY <2>1, <2>2
  <1>8. ASSUME NEW c \in Clears, Deleted(c) PROVE LedgerTypeOK'
    BY <1>0, <1>8 DEF Deleted, Owners
  <1>9. ASSUME NEW c \in Clears, DeletedUnheard(c) PROVE LedgerTypeOK'
    BY <1>0, <1>9 DEF DeletedUnheard, Owners
  <1>10. ASSUME NEW c \in Clears, NotDeleted(c) PROVE LedgerTypeOK'
    BY <1>0, <1>10 DEF NotDeleted
  <1>11. ASSUME NEW c \in Clears, EndClear(c) \/ EndClearUnwritten(c) PROVE LedgerTypeOK'
    <2>1. Finish(c) /\ ledger' \subseteq Rules /\ slipped' \subseteq Rules
      BY <1>11 DEF EndClear, EndClearUnwritten, Gone
    <2>2. /\ clearing' \in [Clears -> [at : {"new", "delete", "done"},
                                       todo : SUBSET Rules, remaining : SUBSET Rules]]
          /\ \A d \in Clears : clearing'[d].todo \cap clearing'[d].remaining = {}
      BY <2>1, FinishOne
    <2> QED BY <1>0, <1>11, <2>1, <2>2 DEF EndClear, EndClearUnwritten
  <1>12. ASSUME DaemonDies PROVE LedgerTypeOK'
    <2>1. slipped' \subseteq Rules
      BY <1>12, OpeningARule DEF DaemonDies, Gone
    <2> QED BY <1>0, <1>12, <2>1 DEF DaemonDies, NotOpening
  <1>13. ASSUME Toggle PROVE LedgerTypeOK'
    BY <1>0, <1>13 DEF Toggle
  <1>14. ASSUME UNCHANGED ledgerVars PROVE LedgerTypeOK'
    BY <1>14 DEF ledgerVars
  <1> QED
    BY <1>1, <1>2, <1>3, <1>4, <1>5, <1>6, <1>7, <1>8, <1>9, <1>10, <1>11, <1>12, <1>13, <1>14
    DEF LedgerNext, LedgerSettled

LEMMA SafeInit == LedgerInit => Safe
  <1> SUFFICES ASSUME LedgerInit PROVE NeverTheUsers
    BY InitIsTyped DEF Safe
  <1> QED BY NoRuleAssumption DEF LedgerInit, NeverTheUsers, NotOpening, Asked

LEMMA SafeStep ==
    ASSUME ~world.userAdds, Safe, [LedgerNext]_ledgerVars
    PROVE  Safe'
  <1> USE DEF NeverTheUsers
  <1>0. LedgerTypeOK /\ LedgerTypeOK' /\ NeverTheUsers
    BY TypeStep DEF Safe
  <1>1. ASSUME NEW r \in Rules, BeginOpen(r) PROVE NeverTheUsers'
    BY <1>0, <1>1 DEF BeginOpen
  <1>2. ASSUME NEW r \in Rules, UserAddsRule(r) PROVE NeverTheUsers'
    BY <1>2 DEF UserAddsRule
  <1>3. ASSUME Allowed PROVE NeverTheUsers'
    <2>1. /\ opening.rule \in Rules
          /\ \A r \in Rules : rules'[r] # "replaced" /\ (rules'[r] = "user" => rules[r] = "user")
      BY <1>0, <1>3, OpeningARule, UfwAllowsOne DEF Allowed, Theirs
    <2>2. \/ opening'.rule = opening.rule /\ opening'.read = opening.read
          \/ opening'.rule = NoRule /\ opening'.read = {}
      BY <1>0, <1>3 DEF Allowed, NotOpening, LedgerTypeOK
    <2> QED BY <1>0, <1>3, <2>1, <2>2, NoRuleAssumption DEF Allowed
  <1>4. ASSUME AllowedUnheard PROVE NeverTheUsers'
    <2>1. /\ opening.rule \in Rules
          /\ \A r \in Rules : rules'[r] # "replaced" /\ (rules'[r] = "user" => rules[r] = "user")
      BY <1>0, <1>4, OpeningARule, UfwAllowsOne DEF AllowedUnheard, Theirs
    <2> QED BY <1>0, <1>4, <2>1, NoRuleAssumption DEF AllowedUnheard, NotOpening
  <1>5. ASSUME NotAllowed PROVE NeverTheUsers'
    BY <1>0, <1>5, NoRuleAssumption DEF NotAllowed, NotOpening
  <1>6. ASSUME Recorded \/ NotRecorded PROVE NeverTheUsers'
    BY <1>0, <1>6, NoRuleAssumption DEF Recorded, NotRecorded, NotOpening
  <1>7. ASSUME NEW c \in Clears, BeginClear(c) PROVE NeverTheUsers'
    <2>1. CASE enabled /\ ledger # {}
      BY <1>0, <1>7, <2>1 DEF BeginClear, LedgerTypeOK
    <2>2. CASE ~(enabled /\ ledger # {})
      BY <1>0, <1>7, <2>2 DEF BeginClear, LedgerTypeOK
    <2> QED BY <2>1, <2>2
  <1>8. ASSUME NEW c \in Clears, Deleted(c) PROVE NeverTheUsers'
    BY <1>0, <1>8 DEF Deleted, LedgerTypeOK
  <1>9. ASSUME NEW c \in Clears, DeletedUnheard(c) PROVE NeverTheUsers'
    BY <1>0, <1>9 DEF DeletedUnheard, LedgerTypeOK
  <1>10. ASSUME NEW c \in Clears, NotDeleted(c) PROVE NeverTheUsers'
    BY <1>0, <1>10 DEF NotDeleted, LedgerTypeOK
  <1>11. ASSUME NEW c \in Clears, EndClear(c) \/ EndClearUnwritten(c) PROVE NeverTheUsers'
    <2>1. /\ Finish(c) /\ UNCHANGED <<rules, opening>>
          /\ ledger' = clearing[c].remaining \/ ledger' = ledger
      BY <1>11 DEF EndClear, EndClearUnwritten
    <2>2. \A d \in Clears : clearing'[d].todo \cup clearing'[d].remaining
                            \subseteq clearing[d].todo \cup clearing[d].remaining
      BY <1>0, <2>1, FinishOne
    <2> QED BY <1>0, <2>1, <2>2
  <1>12. ASSUME DaemonDies PROVE NeverTheUsers'
    BY <1>0, <1>12, NoRuleAssumption DEF DaemonDies, NotOpening
  <1>13. ASSUME Toggle PROVE NeverTheUsers'
    BY <1>0, <1>13 DEF Toggle
  <1>14. ASSUME UNCHANGED ledgerVars PROVE NeverTheUsers'
    BY <1>0, <1>14 DEF ledgerVars
  <1> QED
    BY <1>0, <1>1, <1>2, <1>3, <1>4, <1>5, <1>6, <1>7, <1>8, <1>9, <1>10, <1>11, <1>12, <1>13,
       <1>14
    DEF Safe, LedgerNext, LedgerSettled

\* Only four kinds of step change a rule, and each changes one.
LEMMA StepsOnRules ==
    ASSUME LedgerTypeOK, [LedgerNext]_ledgerVars, NEW r \in Rules, rules[r] \in Theirs
    PROVE  \/ rules'[r] = rules[r]
           \/ rules[r] = "user" /\ rules'[r] = "replaced" /\ r = opening.rule
           \/ \E c \in Clears : Deleting(c) /\ r \in clearing[c].todo
  <1>1. ASSUME Allowed \/ AllowedUnheard
        PROVE  \/ rules'[r] = rules[r]
               \/ rules[r] = "user" /\ rules'[r] = "replaced" /\ r = opening.rule
    BY <1>1, OpeningARule, UfwAllowsOne DEF Allowed, AllowedUnheard, Theirs
  <1>2. ASSUME NEW c \in Clears, Deleted(c) \/ DeletedUnheard(c)
        PROVE  rules'[r] = rules[r] \/ (Deleting(c) /\ r \in clearing[c].todo)
    <2>1. PICK q \in clearing[c].todo : rules' = [rules EXCEPT ![q] = "nobody"]
      BY <1>2 DEF Deleted, DeletedUnheard
    <2>2. rules'[r] = rules[r] \/ r = q
      BY <2>1 DEF LedgerTypeOK
    <2>3. Deleting(c)
      BY <1>2 DEF Deleted, DeletedUnheard
    <2> QED BY <2>1, <2>2, <2>3
  <1>3. ASSUME NEW q \in Rules, UserAddsRule(q) PROVE rules'[r] = rules[r]
    BY <1>3 DEF UserAddsRule, LedgerTypeOK, Theirs
  <1>4. ASSUME UNCHANGED rules PROVE rules'[r] = rules[r]
    BY <1>4
  <1> QED
    BY <1>1, <1>2, <1>3, <1>4
    DEF LedgerNext, LedgerSettled, ledgerVars, BeginOpen, NotAllowed, Recorded, NotRecorded,
        BeginClear, NotDeleted, EndClear, EndClearUnwritten, DaemonDies, Toggle

LEMMA SafeSparesUsers ==
    ASSUME Safe, [LedgerNext]_ledgerVars, NEW r \in Rules, rules[r] \in Theirs
    PROVE  rules'[r] = rules[r]
  BY StepsOnRules DEF Safe, NeverTheUsers, Theirs

-------------------------------------------------------------------------------
(* The ledger, when nothing overlaps *)

\* While one operation is under way nothing else is.  But for the rules to which a
\* failure happened, ufw has what is recorded or is about to be; in a clear, what the
\* daemon has not deleted yet.
Accounted ==
    /\ enabled
    /\ world.fails = {} => slipped = {}
    /\ opening.at # "none" =>
         /\ opening.read = ledger /\ opening.rule \notin ledger
         /\ \A c \in Clears : ~Deleting(c)
    /\ opening.at = "write" => rules[opening.rule] = "daemon"
    /\ \A c, d \in Clears : Deleting(c) /\ Deleting(d) => c = d
    /\ \A c \in Clears : Deleting(c) =>
         /\ clearing[c].todo \cup clearing[c].remaining \subseteq ledger
         /\ \A r \in Gone(c) : rules[r] # "daemon"
         /\ \A r \in Rules \ slipped :
               rules[r] = "daemon" <=> r \in clearing[c].todo \cup clearing[c].remaining
    /\ (\A c \in Clears : ~Deleting(c)) =>
         \A r \in Rules \ slipped :
            rules[r] = "daemon" <=> r \in ledger \/ (opening.at = "write" /\ r = opening.rule)

Exact == LedgerTypeOK /\ Accounted

LEMMA ExactInit ==
    ASSUME Orderly, LedgerInit
    PROVE  Exact
  <1>1. LedgerTypeOK
    BY InitIsTyped
  <1>2. enabled /\ opening = NotOpening /\ \A c \in Clears : ~Deleting(c)
    BY DEF LedgerInit, Orderly, Asked, Deleting
  <1>3. slipped = {} /\ ledger = {} /\ \A r \in Rules : rules[r] # "daemon"
    BY DEF LedgerInit
  <1> QED BY <1>1, <1>2, <1>3 DEF Exact, Accounted, NotOpening

\* A clear is through with r: it is gone, it is gone and the daemon takes it for not
\* deleted, or it stays.
OneLess(c, r) ==
    /\ clearing'[c].at = "delete" /\ clearing'[c].todo = clearing[c].todo \ {r}
    /\ \A d \in Clears \ {c} : clearing'[d] = clearing[d]
    /\ \A q \in Rules \ {r} : rules'[q] = rules[q]
    /\ \/ /\ clearing'[c].remaining = clearing[c].remaining
          /\ rules'[r] = "nobody" /\ slipped' = slipped
       \/ /\ clearing'[c].remaining = clearing[c].remaining \cup {r}
          /\ rules'[r] = "nobody" /\ slipped' = slipped \cup {r} /\ world.fails # {}
       \/ /\ clearing'[c].remaining = clearing[c].remaining \cup {r}
          /\ rules'[r] = rules[r] /\ slipped' = slipped

LEMMA StepsOnClears ==
    ASSUME LedgerTypeOK, NEW c \in Clears, Deleted(c) \/ DeletedUnheard(c) \/ NotDeleted(c)
    PROVE  \E r \in clearing[c].todo : OneLess(c, r)
  <1>1. CASE Deleted(c)
    <2>1. PICK r \in clearing[c].todo :
             /\ clearing' = [clearing EXCEPT ![c].todo = @ \ {r}]
             /\ rules' = [rules EXCEPT ![r] = "nobody"]
      BY <1>1 DEF Deleted
    <2>2. r \in Rules
      BY <2>1 DEF LedgerTypeOK
    <2>3. OneLess(c, r)
      BY <1>1, <2>1, <2>2 DEF Deleted, Deleting, OneLess, LedgerTypeOK
    <2> QED BY <2>3
  <1>2. CASE DeletedUnheard(c)
    <2>1. PICK r \in clearing[c].todo :
             /\ clearing' = [clearing EXCEPT ![c].todo = @ \ {r},
                                             ![c].remaining = @ \cup {r}]
             /\ rules' = [rules EXCEPT ![r] = "nobody"]
             /\ slipped' = slipped \cup {r}
      BY <1>2 DEF DeletedUnheard
    <2>2. r \in Rules
      BY <2>1 DEF LedgerTypeOK
    <2>3. /\ clearing'[c].at = "delete" /\ clearing'[c].todo = clearing[c].todo \ {r}
          /\ clearing'[c].remaining = clearing[c].remaining \cup {r}
          /\ \A d \in Clears \ {c} : clearing'[d] = clearing[d]
      <3>1. clearing[c].at = "delete"
        BY <1>2 DEF DeletedUnheard, Deleting
      <3> QED BY <2>1, <3>1 DEF LedgerTypeOK
    <2>4. rules'[r] = "nobody" /\ \A q \in Rules \ {r} : rules'[q] = rules[q]
      BY <2>1, <2>2 DEF LedgerTypeOK
    <2>5. world.fails # {}
      BY <1>2 DEF DeletedUnheard
    <2>6. OneLess(c, r)
      BY <2>1, <2>3, <2>4, <2>5 DEF OneLess
    <2> QED BY <2>6
  <1>3. CASE NotDeleted(c)
    <2>1. PICK r \in clearing[c].todo :
             clearing' = [clearing EXCEPT ![c].todo = @ \ {r}, ![c].remaining = @ \cup {r}]
      BY <1>3 DEF NotDeleted
    <2>2. OneLess(c, r)
      BY <1>3, <2>1 DEF NotDeleted, Deleting, OneLess, LedgerTypeOK
    <2> QED BY <2>2
  <1> QED BY <1>1, <1>2, <1>3

LEMMA ExactStep ==
    ASSUME Orderly, Exact, [LedgerNext]_ledgerVars
    PROVE  Accounted'
  <1> USE DEF Accounted
  <1>0. LedgerTypeOK /\ LedgerTypeOK' /\ Accounted /\ world' = world
    BY TypeStep, WorldIsFixed DEF Exact
  <1>1. ASSUME NEW r \in Rules, BeginOpen(r) PROVE Accounted'
    BY <1>0, <1>1 DEF BeginOpen, Quiet, Deleting, Orderly, NotOpening, Gone
  <1>2. ASSUME NEW r \in Rules, UserAddsRule(r) PROVE Accounted'
    <2>1. \A q \in Rules : rules'[q] = "daemon" <=> rules[q] = "daemon"
      BY <1>0, <1>2 DEF UserAddsRule, LedgerTypeOK
    <2> QED BY <1>0, <1>2, <2>1, OpeningARule DEF UserAddsRule, Deleting, Gone, LedgerTypeOK
  <1>3. ASSUME Allowed PROVE Accounted'
    <2> DEFINE q == opening.rule
    <2>1. q \in Rules /\ \A c \in Clears : ~Deleting(c) /\ ~Deleting(c)'
      BY <1>0, <1>3, OpeningARule DEF Allowed, Deleting
    <2>2. /\ \A r \in Rules \ {q} : rules'[r] = rules[r]
          /\ rules[q] = "nobody" => rules'[q] = "daemon"
          /\ rules[q] # "nobody" => (rules'[q] = "daemon" <=> rules[q] = "daemon")
      BY <1>0, <1>3, <2>1, UfwAllowsOne DEF Allowed, LedgerTypeOK, Owners, Theirs
    <2>3. CASE rules[q] = "nobody"
      <3>1. opening'.at = "write" /\ opening'.rule = q /\ opening'.read = opening.read
        BY <1>0, <1>3, <2>3 DEF Allowed, LedgerTypeOK
      <3> QED BY <1>0, <1>3, <2>1, <2>2, <2>3, <3>1 DEF Allowed
    <2>4. CASE rules[q] # "nobody"
      <3>1. opening' = NotOpening
        BY <1>3, <2>4 DEF Allowed
      <3> QED BY <1>0, <1>3, <2>1, <2>2, <2>4, <3>1 DEF Allowed, NotOpening
    <2> QED BY <2>3, <2>4
  <1>4. ASSUME AllowedUnheard PROVE Accounted'
    <2> DEFINE q == opening.rule
    <2>1. q \in Rules /\ \A c \in Clears : ~Deleting(c) /\ ~Deleting(c)'
      BY <1>0, <1>4, OpeningARule DEF AllowedUnheard, Deleting
    <2>2. /\ \A r \in Rules \ {q} : rules'[r] = rules[r]
          /\ rules[q] = "nobody" => q \in slipped'
          /\ rules[q] # "nobody" => (rules'[q] = "daemon" <=> rules[q] = "daemon")
      BY <1>0, <1>4, <2>1, UfwAllowsOne DEF AllowedUnheard, LedgerTypeOK, Owners, Theirs
    <2> QED BY <1>0, <1>4, <2>1, <2>2 DEF AllowedUnheard, NotOpening
  <1>5. ASSUME NotAllowed PROVE Accounted'
    BY <1>0, <1>5 DEF NotAllowed, NotOpening, Deleting
  <1>6. ASSUME Recorded PROVE Accounted'
    BY <1>0, <1>6 DEF Recorded, NotOpening, Deleting
  <1>7. ASSUME NotRecorded PROVE Accounted'
    BY <1>0, <1>7 DEF NotRecorded, NotOpening, Deleting
  <1>8. ASSUME NEW c \in Clears, BeginClear(c) PROVE Accounted'
    <2>1. Quiet /\ opening' = opening /\ rules' = rules /\ slipped' = slipped /\ enabled' = enabled
      BY <1>8 DEF BeginClear, Orderly
    <2>2. CASE ledger # {}
      <3>1. /\ Deleting(c)' /\ \A d \in Clears \ {c} : ~Deleting(d)'
            /\ clearing'[c].todo = ledger /\ clearing'[c].remaining = {} /\ ledger' = ledger
        BY <1>0, <1>8, <2>1, <2>2 DEF BeginClear, Quiet, Deleting, LedgerTypeOK
      <3> QED BY <1>0, <2>1, <3>1 DEF Quiet, Gone, NotOpening
    <2>3. CASE ledger = {}
      <3>1. ledger' = ledger /\ \A d \in Clears : ~Deleting(d)'
        BY <1>0, <1>8, <2>1, <2>3 DEF BeginClear, Quiet, Deleting, LedgerTypeOK
      <3> QED BY <1>0, <2>1, <3>1 DEF Quiet, NotOpening
    <2> QED BY <2>2, <2>3
  <1>9. ASSUME NEW c \in Clears, Deleted(c) \/ DeletedUnheard(c) \/ NotDeleted(c)
        PROVE  Accounted'
    <2>1. /\ Deleting(c) /\ opening.at = "none"
          /\ UNCHANGED <<enabled, ledger, opening>>
      BY <1>0, <1>9 DEF Deleted, DeletedUnheard, NotDeleted
    <2>2. PICK r \in clearing[c].todo : OneLess(c, r)
      BY <1>0, <1>9, <2>1, StepsOnClears
    <2>3. /\ clearing'[c].at = "delete" /\ clearing'[c].todo = clearing[c].todo \ {r}
          /\ \A d \in Clears \ {c} : clearing'[d] = clearing[d]
      BY <2>2 DEF OneLess
    <2>4. Deleting(c)' /\ \A d \in Clears : Deleting(d)' => d = c
      BY <1>0, <2>1, <2>3 DEF Deleting
    <2>5. r \in Rules /\ r \notin clearing[c].remaining /\ r \in ledger
      BY <1>0, <2>1 DEF LedgerTypeOK
    <2>6. /\ clearing'[c].todo \cup clearing'[c].remaining \subseteq ledger'
          /\ world'.fails = {} => slipped' = {}
      BY <1>0, <2>1, <2>2, <2>5 DEF OneLess
    <2>7. \A q \in Gone(c)' : rules'[q] # "daemon"
      BY <1>0, <2>1, <2>2, <2>5 DEF Gone, OneLess, LedgerTypeOK
    <2>8. \A q \in Rules \ slipped' :
            rules'[q] = "daemon" <=> q \in clearing'[c].todo \cup clearing'[c].remaining
      BY <1>0, <2>1, <2>2, <2>5 DEF OneLess
    <2> QED BY <1>0, <2>1, <2>4, <2>6, <2>7, <2>8
  <1>10. ASSUME NEW c \in Clears, EndClear(c) \/ EndClearUnwritten(c) PROVE Accounted'
    <2>1. /\ Deleting(c) /\ clearing[c].todo = {} /\ Finish(c) /\ opening.at = "none"
          /\ UNCHANGED <<enabled, rules, opening>>
      BY <1>0, <1>10 DEF EndClear, EndClearUnwritten
    <2>2. \A d \in Clears : ~Deleting(d)'
      BY <1>0, <2>1, FinishOne DEF Deleting
    <2>3. CASE EndClear(c)
      BY <1>0, <2>1, <2>2, <2>3 DEF EndClear, Gone
    <2>4. CASE EndClearUnwritten(c)
      BY <1>0, <2>1, <2>2, <2>4 DEF EndClearUnwritten, Gone
    <2> QED BY <1>10, <2>3, <2>4
  <1>11. ASSUME DaemonDies PROVE Accounted'
    <2>1. /\ \A d \in Clears : ~Deleting(d)'
          /\ opening'.at = "none" /\ UNCHANGED <<enabled, rules, ledger>> /\ world.fails # {}
      BY <1>11 DEF DaemonDies, Deleting, NotOpening
    <2>2. /\ slipped \subseteq slipped'
          /\ opening.at = "write" => opening.rule \in slipped'
          /\ \A d \in Clears : Deleting(d) => Gone(d) \subseteq slipped'
      BY <1>11 DEF DaemonDies
    <2>3. \A r \in Rules \ slipped' : rules[r] = "daemon" <=> r \in ledger
      <3>1. CASE \E d \in Clears : Deleting(d)
        BY <1>0, <2>2, <3>1 DEF Gone
      <3>2. CASE \A d \in Clears : ~Deleting(d)
        BY <1>0, <2>2, <3>2
      <3> QED BY <3>1, <3>2
    <2> QED BY <1>0, <2>1, <2>3
  <1>12. ASSUME Toggle PROVE Accounted'
    BY <1>12 DEF Toggle, Orderly
  <1>13. ASSUME UNCHANGED ledgerVars PROVE Accounted'
    BY <1>0, <1>13 DEF ledgerVars, Deleting, Gone
  <1> QED
    BY <1>1, <1>2, <1>3, <1>4, <1>5, <1>6, <1>7, <1>8, <1>9, <1>10, <1>11, <1>12, <1>13
    DEF LedgerNext, LedgerSettled

\* In a clear, a rule of the user's can only be deleted where an earlier record of the
\* daemon's own was left behind.
LEMMA ExactSparesUsers ==
    ASSUME Exact, [LedgerNext]_ledgerVars, NEW r \in Rules, rules[r] \in Theirs
    PROVE  \/ rules'[r] = rules[r]
           \/ rules'[r] = "replaced" /\ r = opening.rule
           \/ r \in slipped /\ r \in ledger
  <1>1. ASSUME NEW c \in Clears, Deleting(c), r \in clearing[c].todo
        PROVE  r \in slipped /\ r \in ledger
    BY <1>1 DEF Exact, Accounted, Theirs
  <1> QED BY <1>1, StepsOnRules DEF Exact

-------------------------------------------------------------------------------
(* Both, each in the worlds it is about *)

LedgerIInv == (~world.userAdds => Safe) /\ (Orderly => Exact)

LEMMA LedgerIInvHolds == LedgerSpec => []LedgerIInv
  <1>1. LedgerInit => LedgerIInv
    BY SafeInit, ExactInit DEF LedgerIInv
  <1>2. LedgerIInv /\ [LedgerNext]_ledgerVars => LedgerIInv'
    <2> SUFFICES ASSUME LedgerIInv, [LedgerNext]_ledgerVars PROVE LedgerIInv'
      OBVIOUS
    <2>1. world' = world
      BY WorldIsFixed
    <2>2. ~world'.userAdds => Safe'
      BY <2>1, SafeStep DEF LedgerIInv
    <2>3. Orderly' => Exact'
      BY <2>1, ExactStep, TypeStep DEF LedgerIInv, Orderly, Exact
    <2> QED BY <2>2, <2>3 DEF LedgerIInv
  <1> QED BY <1>1, <1>2, PTL DEF LedgerSpec

\* No step of the daemon deletes a rule of the user's or one that ufw has replaced with
\* ours: none at all while the user adds no rule, however opens and clears overlap and
\* fail and ufw is switched on and off; and of those added meanwhile, in an orderly
\* world, none that no record of the daemon's has outlived.  `ufw allow` replaces one
\* only if the user added it while the prompt for it was up (firewall.rs).
THEOREM UserRulesStayHolds == LedgerSpec => UserRulesStay
  <1>1. LedgerIInv /\ [LedgerNext]_ledgerVars =>
          [\A r \in Rules :
             (Orderly \/ ~world.userAdds) /\ rules[r] \in Theirs =>
                \/ rules'[r] = rules[r]
                \/ world.userAdds /\ rules'[r] = "replaced" /\ r = opening.rule
                \/ world.userAdds /\ r \in slipped /\ r \in ledger]_ledgerVars
    BY SafeSparesUsers, ExactSparesUsers DEF LedgerIInv
  <1> QED BY <1>1, LedgerIInvHolds, PTL DEF LedgerSpec, UserRulesStay

\* In an orderly world the ledger at rest has all the daemon's rules and only rules
\* that are there, except those whose own record or answer was lost: a crash, a failed
\* write or an answer that is not heard loses no other rule, and declined prompts,
\* time-outs and rules the user adds meanwhile lose none (firewall.rs, settings.rs).
THEOREM LedgerIsOursHolds == LedgerSpec => []LedgerIsOurs
  <1>1. LedgerIInv => LedgerIsOurs
    BY DEF LedgerIInv, Exact, Accounted, LedgerIsOurs, NothingForgotten, NothingResurrected,
           Quiet, NotOpening, LedgerTypeOK
  <1> QED BY <1>1, LedgerIInvHolds, PTL
===============================================================================
