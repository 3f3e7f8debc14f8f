------------------------------ MODULE Allowlist ------------------------------
(* Who may sign in: the rules administrators keep (app/routers/admin.py) and *)
(* the copy of them every login consults (app/utils/access.py). The copy is  *)
(* shared by all logins of the process and renewed when the number of rules  *)
(* or their latest change differs from what it was loaded for; a login reads *)
(* that signature and the rules in two queries. What a rule matches is a     *)
(* constant.                                                                 *)
EXTENDS Integers, FiniteSets, FiniteSetsExt

CONSTANTS AlRules,      \* rules: emails, domains, patterns
          AlMatching,   \* those that match the address that signs in
          AlLogins,     \* its concurrent logins
          AlMaxChanges  \* bound: rules ever added

ASSUME AlAssumption == AlMatching \subseteq AlRules /\ IsFiniteSet(AlRules) /\ AlMaxChanges \in Nat

VARIABLES
  alRows,    \* rows of allowlist: rule and updated_at
  alClock,   \* the time, which moves when a row is made
  alAdding,  \* rows made by a request that has not committed them
  alCache,   \* the copy: signature and rules
  alLogin,   \* each login: its step, the signature it has read, its answer
  alMixed    \* history: a change fell between the two reads of a login, or rows
             \* were committed in another order than they were made

alVars == <<alRows, alClock, alAdding, alCache, alLogin, alMixed>>

AlIn(rows) == {r.rule: r \in rows}
\* is_email_allowed: no rules admit everybody.
AlAdmits(rules) == rules = {} \/ rules \cap AlMatching # {}
\* Mutant: the latest change alone.
AlSignatureLatest(rows) == <<0, IF rows = {} THEN 0 ELSE Max({r.at: r \in rows})>>
AlSignature(rows) == <<Cardinality(rows), IF rows = {} THEN 0 ELSE Max({r.at: r \in rows})>>
AlNoSignature == <<-1, 0>>
AlReading == \E l \in AlLogins: alLogin[l].pc = "rules"

AlInit == /\ alRows = {}
          /\ alClock = 0
          /\ alAdding = {}
          /\ alCache = [signature |-> AlNoSignature, rules |-> {}]
          /\ alLogin = [l \in AlLogins |-> [pc |-> "idle", signature |-> AlNoSignature, admits |-> FALSE]]
          /\ alMixed = FALSE
------------------------------------------------------------------------------
\* admin_settings, add_allowlist and import_allowlist: rules that are not there
\* yet get rows of this moment ...
AlAdd(rules) ==
  /\ rules # {} /\ rules \cap AlIn(alRows) = {} /\ alClock < AlMaxChanges
  /\ alClock' = alClock + 1
  /\ alAdding' = alAdding \cup {[rule |-> r, at |-> alClock']: r \in rules}
  /\ UNCHANGED <<alRows, alCache, alLogin, alMixed>>
\* ... which appear with the commit.
AlAdded(at) ==
  LET rows == {r \in alAdding: r.at = at}
  IN /\ rows # {}
     /\ alRows' = alRows \cup rows
     /\ alAdding' = alAdding \ rows
     /\ alMixed' = (alMixed \/ AlReading \/ \E r \in alRows \cup alAdding: r.at > at)
     /\ UNCHANGED <<alClock, alCache, alLogin>>
\* admin_settings, delete_allowlist.
AlDelete(r) ==
  /\ r \in alRows
  /\ alRows' = alRows \ {r}
  /\ alMixed' = (alMixed \/ AlReading)
  /\ UNCHANGED <<alClock, alAdding, alCache, alLogin>>

AlDecide(l, rules) ==
  alLogin' = [alLogin EXCEPT ![l] = [pc |-> "answered", signature |-> AlNoSignature, admits |-> AlAdmits(rules)]]
\* _load_rules: the signature; if it is that of the copy the copy decides ...
AlConsult(l) ==
  /\ alLogin[l].pc = "idle"
  /\ IF AlSignature(alRows) = alCache.signature
     THEN AlDecide(l, alCache.rules)
     ELSE alLogin' = [alLogin EXCEPT ![l].pc = "rules", ![l].signature = AlSignature(alRows)]
  /\ UNCHANGED <<alRows, alClock, alAdding, alCache, alMixed>>
\* ... otherwise the rules are read and become the copy.
AlLoad(l) ==
  /\ alLogin[l].pc = "rules"
  /\ alCache' = [signature |-> alLogin[l].signature, rules |-> AlIn(alRows)]
  /\ AlDecide(l, AlIn(alRows))
  /\ UNCHANGED <<alRows, alClock, alAdding, alMixed>>
AlAgain(l) ==
  /\ alLogin[l].pc = "answered"
  /\ alLogin' = [alLogin EXCEPT ![l].pc = "idle", ![l].admits = FALSE]
  /\ UNCHANGED <<alRows, alClock, alAdding, alCache, alMixed>>

AlNext ==
  \/ \E rules \in SUBSET AlRules: AlAdd(rules)
  \/ \E at \in 1..AlMaxChanges: AlAdded(at)
  \/ \E r \in alRows: AlDelete(r)
  \/ \E l \in AlLogins: AlConsult(l) \/ AlLoad(l) \/ AlAgain(l)
AlSpec == AlInit /\ [][AlNext]_alVars
------------------------------------------------------------------------------
AlTypeOK ==
  /\ AlIn(alRows \cup alAdding) \subseteq AlRules
  /\ \A r \in alRows \cup alAdding: r.at \in 1..alClock
  /\ alCache.rules \subseteq AlRules
  /\ \A l \in AlLogins: alLogin[l].pc \in {"idle", "rules", "answered"} /\ alLogin[l].admits \in BOOLEAN

\* A login is decided by the rules of that moment, however rules came and went
\* since the copy was made and whichever login made it; unless a change once
\* fell between the two reads of a login (a rule that is added there and deleted
\* later may stay in the copy) or rows were committed out of order.
AlLoginFresh ==
  [][\A l \in AlLogins: alLogin[l].pc # "answered" /\ alLogin'[l].pc = "answered" /\ ~alMixed
       => alLogin'[l].admits = AlAdmits(AlIn(alRows))]_alVars
==============================================================================
