------------------------------- MODULE Routing -------------------------------
(***************************************************************************)
(* Where the traffic of one environment of one project goes: the aliases   *)
(* in PostgreSQL, the dynamic file of the project that Traefik watches,    *)
(* and the four kinds of processes that change them: finalize jobs,        *)
(* rollback requests, settings and domain requests, and the cleanup that   *)
(* removes the containers no alias refers to. The deployments are those of *)
(* one branch; how they get ready for finalize is the module Deployment.   *)
(*                                                                         *)
(* update_traefik_config reads the aliases in one query and the domains in *)
(* a second, after which it writes the file without yielding: a rewrite is *)
(* two steps. The row of the branch alias is locked from its update to the *)
(* commit, so finalize jobs change aliases one at a time; a rollback does  *)
(* not touch that row and may commit between a job's read and its commit.  *)
(***************************************************************************)
EXTENDS Naturals, FiniteSets

CONSTANTS
  Deployments,    \* deployments of the branch
  None,           \* no deployment
  Requests,       \* concurrent requests of users
  Production,     \* is the environment "prod"?
  UserRollbacks,  \* may users roll back?
  MaxCrashes      \* bound: crashes of the job worker

ASSUME NoneAssumption == None \notin Deployments
ASSUME ProductionAssumption == Production \in BOOLEAN /\ UserRollbacks \in BOOLEAN
ASSUME CrashAssumption == MaxCrashes \in Nat

VARIABLES
  conclusion,  \* of each deployment
  gone,        \* deployments whose container the worker has stopped
  alias,       \* the alias rows, None where there is no row
  domain,      \* status of the environment's custom domain
  file,        \* the dynamic file: the deployment each host is routed to
  fin,         \* the finalize job of each deployment
  cleanups,    \* waiting cleanup jobs
  clean,       \* the running cleanup job
  req,         \* what each request is doing
  crashes,     \* crashes of the worker so far
  overlapped   \* history: have two changes of the routes ever overlapped?

vars == <<conclusion, gone, alias, domain, file, fin, cleanups, clean, req, crashes, overlapped>>

Maybe == Deployments \cup {None}
AliasTypes == {"branch", "environment", "environment_id"}
Hosts == AliasTypes \cup {"domain"}
Alias == [cur : Maybe, prev : Maybe]
NoAlias == [cur |-> None, prev |-> None]
NoRoutes == [t \in AliasTypes |-> None]

FinSteps == {"idle", "queued", "looked", "locked", "aliased", "queried", "written",
             "concluded", "failing"}
IdleFin == [pc |-> "idle", branch |-> None, env |-> NoAlias, found |-> NoRoutes]
IdleReq == [pc |-> "idle", env |-> NoAlias, found |-> NoRoutes]
IdleClean == [pc |-> "idle", todo |-> {}]

-----------------------------------------------------------------------------
(* update_traefik_config, in its two steps.                                  *)

\* Mutant: looks only at the deployments included by name.
QueryIncludedOnly(include) ==
  [t \in AliasTypes |-> IF alias[t].cur \in include THEN alias[t].cur ELSE None]

\* The aliases of deployments that have succeeded or are included by name.
Query(include) ==
  [t \in AliasTypes |->
     IF alias[t].cur \in include \cup {d \in Deployments : conclusion[d] = "succeeded"}
       THEN alias[t].cur ELSE None]

\* A custom domain follows the alias of its environment's id.
Content(found) ==
  [h \in Hosts |-> IF h # "domain" THEN found[h]
                   ELSE IF domain = "active" THEN found["environment_id"] ELSE None]

\* Between a change of what should be routed and the end of its rewrite.
Changing == {d \in Deployments : fin[d].pc \in {"aliased", "queried", "written"}}
              \cup {r \in Requests : req[r].pc \in {"committed", "queried"}}
Change == overlapped' = (overlapped \/ Changing # {})

\* Mutant: a row that is at d already is moved again.
MovedAgain(a, t, d) ==
  [cur |-> d, prev |-> IF t = "environment" /\ Production THEN a.cur ELSE None]

\* What update_or_create makes of the alias row a.
Moved(a, t, d) ==
  IF a.cur = d THEN a
  ELSE [cur |-> d, prev |-> IF t = "environment" /\ Production THEN a.cur ELSE None]

Referenced == ({alias[t].cur : t \in AliasTypes} \cup {alias[t].prev : t \in AliasTypes}) \ {None}

Init ==
  /\ conclusion = [d \in Deployments |-> "none"]
  /\ gone = {}
  /\ alias = [t \in AliasTypes |-> NoAlias]
  /\ domain = "pending"
  /\ file = [h \in Hosts |-> None]
  /\ fin = [d \in Deployments |-> IdleFin]
  /\ cleanups = 0
  /\ clean = IdleClean
  /\ req = [r \in Requests |-> IdleReq]
  /\ crashes = 0
  /\ overlapped = FALSE

-----------------------------------------------------------------------------
(* finalize_deployment.                                                      *)

\* The monitor hands over a deployment whose app answered.
Ready(d) ==
  /\ fin[d].pc = "idle" /\ conclusion[d] = "none"
  /\ fin' = [fin EXCEPT ![d].pc = "queued"]
  /\ UNCHANGED <<conclusion, gone, alias, domain, file, cleanups, clean, req, crashes,
                 overlapped>>

\* The job selects the row of the branch alias.
FinalizeLookup(d) ==
  /\ fin[d].pc = "queued"
  /\ fin' = [fin EXCEPT ![d].pc = "looked", ![d].branch = alias["branch"].cur]
  /\ UNCHANGED <<conclusion, gone, alias, domain, file, cleanups, clean, req, crashes,
                 overlapped>>

\* Who has written the branch alias and not committed yet.
Locking(e) == fin[e].pc = "locked" /\ fin[e].branch # e

\* The next query flushes the branch alias, which waits for the lock of its row, and
\* reads the environment alias. To insert a row that exists by then is an error.
FinalizeLock(d) ==
  /\ fin[d].pc = "looked"
  /\ fin[d].branch = d \/ \A e \in Deployments : ~Locking(e)
  /\ IF fin[d].branch = None /\ alias["branch"].cur # None
       THEN fin' = [fin EXCEPT ![d].pc = "failing"]
       ELSE fin' = [fin EXCEPT ![d].pc = "locked", ![d].env = alias["environment"]]
  /\ UNCHANGED <<conclusion, gone, alias, domain, file, cleanups, clean, req, crashes,
                 overlapped>>

\* Mutant: the alias of the environment's id is forgotten.
FinalizeAliasesWithoutId(d) ==
  /\ fin[d].pc = "locked"
  /\ alias' = [t \in AliasTypes |->
       IF t = "environment_id" THEN alias[t] ELSE Moved(alias[t], t, d)]
  /\ fin' = [fin EXCEPT ![d].pc = "aliased", ![d].env = NoAlias, ![d].branch = None]
  /\ Change
  /\ UNCHANGED <<conclusion, gone, domain, file, cleanups, clean, req, crashes>>

\* A commit writes what differs from the environment alias the job has read.
FinalizeAliases(d) ==
  LET read == fin[d].env
      new == Moved(read, "environment", d)
      row == alias["environment"] IN
  /\ fin[d].pc = "locked"
  /\ alias' = [t \in AliasTypes |->
       CASE t = "branch"         -> IF fin[d].branch = d THEN alias[t] ELSE Moved(alias[t], t, d)
         [] t = "environment"    -> [cur  |-> IF new.cur # read.cur THEN new.cur ELSE row.cur,
                                     prev |-> IF new.prev # read.prev THEN new.prev ELSE row.prev]
         [] t = "environment_id" -> Moved(alias[t], t, d)]
  /\ fin' = [fin EXCEPT ![d].pc = "aliased", ![d].env = NoAlias, ![d].branch = None]
  /\ Change
  /\ UNCHANGED <<conclusion, gone, domain, file, cleanups, clean, req, crashes>>

\* Mutant: the deployment that is being finalized is not included by name.
FinalizeQueryItself(d) ==
  /\ fin[d].pc = "aliased"
  /\ fin' = [fin EXCEPT ![d].pc = "queried", ![d].found = Query({})]
  /\ UNCHANGED <<conclusion, gone, alias, domain, file, cleanups, clean, req, crashes,
                 overlapped>>

FinalizeQuery(d) ==
  /\ fin[d].pc = "aliased"
  /\ fin' = [fin EXCEPT ![d].pc = "queried", ![d].found = Query({d})]
  /\ UNCHANGED <<conclusion, gone, alias, domain, file, cleanups, clean, req, crashes,
                 overlapped>>

FinalizeWrite(d) ==
  /\ fin[d].pc = "queried"
  /\ file' = Content(fin[d].found)
  /\ fin' = [fin EXCEPT ![d].pc = "written", ![d].found = NoRoutes]
  /\ UNCHANGED <<conclusion, gone, alias, domain, cleanups, clean, req, crashes, overlapped>>

FinalizeConclude(d) ==
  /\ fin[d].pc = "written"
  /\ conclusion' = [conclusion EXCEPT ![d] = "succeeded"]
  /\ fin' = [fin EXCEPT ![d].pc = "concluded"]
  /\ UNCHANGED <<gone, alias, domain, file, cleanups, clean, req, crashes, overlapped>>

FinalizeDone(d) ==
  /\ fin[d].pc = "concluded"
  /\ cleanups' = cleanups + 1
  /\ fin' = [fin EXCEPT ![d] = IdleFin]
  /\ UNCHANGED <<conclusion, gone, alias, domain, file, clean, req, crashes, overlapped>>

\* Mutant: concludes the way an aborted start job does.
FailCanceled(d) ==
  /\ fin[d].pc = "failing"
  /\ conclusion' = [conclusion EXCEPT ![d] = IF @ = "none" THEN "canceled" ELSE @]
  /\ gone' = gone \cup {d}
  /\ fin' = [fin EXCEPT ![d] = IdleFin]
  /\ UNCHANGED <<alias, domain, file, cleanups, clean, req, crashes, overlapped>>

\* The fail job it left behind: it skips what is concluded, else it stops the container.
Fail(d) ==
  /\ fin[d].pc = "failing"
  /\ IF conclusion[d] = "none"
       THEN /\ conclusion' = [conclusion EXCEPT ![d] = "failed"]
            /\ gone' = gone \cup {d}
       ELSE UNCHANGED <<conclusion, gone>>
  /\ fin' = [fin EXCEPT ![d] = IdleFin]
  /\ UNCHANGED <<alias, domain, file, cleanups, clean, req, crashes, overlapped>>

-----------------------------------------------------------------------------
(* cleanup_inactive_containers.                                              *)

\* Mutant: spares only what an alias points at now.
CleanupLoadCurrent ==
  /\ clean.pc = "idle" /\ cleanups > 0
  /\ cleanups' = cleanups - 1
  /\ clean' = [pc |-> "scanning",
               todo |-> {d \in Deployments \ ({alias[t].cur : t \in AliasTypes} \cup gone) :
                           conclusion[d] # "none"}]
  /\ UNCHANGED <<conclusion, gone, alias, domain, file, fin, req, crashes, overlapped>>

CleanupLoad ==
  /\ clean.pc = "idle" /\ cleanups > 0
  /\ cleanups' = cleanups - 1
  /\ clean' = [pc |-> "scanning",
               todo |-> {d \in Deployments \ (Referenced \cup gone) : conclusion[d] # "none"}]
  /\ UNCHANGED <<conclusion, gone, alias, domain, file, fin, req, crashes, overlapped>>

CleanupOne(d) ==
  /\ clean.pc = "scanning" /\ d \in clean.todo
  /\ gone' = gone \cup {d}
  /\ clean' = [clean EXCEPT !.todo = @ \ {d}]
  /\ UNCHANGED <<conclusion, alias, domain, file, fin, cleanups, req, crashes, overlapped>>

CleanupDone ==
  /\ clean.pc = "scanning" /\ clean.todo = {}
  /\ clean' = IdleClean
  /\ UNCHANGED <<conclusion, gone, alias, domain, file, fin, cleanups, req, crashes, overlapped>>

\* The worker dies: its finalize and cleanup jobs are delivered again.
WorkerCrash ==
  /\ crashes < MaxCrashes
  /\ crashes' = crashes + 1
  /\ fin' = [d \in Deployments |-> IF fin[d].pc \in {"idle", "failing"} THEN fin[d]
                                   ELSE [IdleFin EXCEPT !.pc = "queued"]]
  /\ cleanups' = cleanups + (IF clean.pc = "scanning" THEN 1 ELSE 0)
  /\ clean' = IdleClean
  /\ UNCHANGED <<conclusion, gone, alias, domain, file, req, overlapped>>

-----------------------------------------------------------------------------
(* The requests of users.                                                    *)

RollbackLoad(r) ==
  /\ UserRollbacks
  /\ req[r].pc = "idle"
  /\ alias["environment"].prev # None
  /\ req' = [req EXCEPT ![r].pc = "rollback", ![r].env = alias["environment"]]
  /\ UNCHANGED <<conclusion, gone, alias, domain, file, fin, cleanups, clean, crashes,
                 overlapped>>

\* The swap writes both columns of the row it has read.
RollbackCommit(r) ==
  /\ req[r].pc = "rollback"
  /\ alias' = [alias EXCEPT !["environment"] = [cur |-> req[r].env.prev, prev |-> req[r].env.cur]]
  /\ req' = [req EXCEPT ![r].pc = "committed", ![r].env = NoAlias]
  /\ Change
  /\ UNCHANGED <<conclusion, gone, domain, file, fin, cleanups, clean, crashes>>

\* The protection settings changed: every router is written anew.
ChangeSecurity(r) ==
  /\ req[r].pc = "idle"
  /\ req' = [req EXCEPT ![r].pc = "committed"]
  /\ Change
  /\ UNCHANGED <<conclusion, gone, alias, domain, file, fin, cleanups, clean, crashes>>

VerifyDomain(r) ==
  /\ req[r].pc = "idle" /\ domain = "pending"
  /\ \E d \in Deployments : conclusion[d] = "succeeded"
  /\ domain' = "active"
  /\ req' = [req EXCEPT ![r].pc = "committed"]
  /\ Change
  /\ UNCHANGED <<conclusion, gone, alias, file, fin, cleanups, clean, crashes>>

\* The domain is removed, or disabled with its environment.
RemoveDomain(r) ==
  /\ req[r].pc = "idle" /\ domain = "active"
  /\ domain' = "pending"
  /\ req' = [req EXCEPT ![r].pc = "committed"]
  /\ Change
  /\ UNCHANGED <<conclusion, gone, alias, file, fin, cleanups, clean, crashes>>

\* A new hostname has to be verified again; nothing is rewritten.
EditDomain(r) ==
  /\ req[r].pc = "idle" /\ domain = "active"
  /\ domain' = "pending"
  /\ UNCHANGED <<conclusion, gone, alias, file, fin, cleanups, clean, req, crashes, overlapped>>

RewriteQuery(r) ==
  /\ req[r].pc = "committed"
  /\ req' = [req EXCEPT ![r].pc = "queried", ![r].found = Query({})]
  /\ UNCHANGED <<conclusion, gone, alias, domain, file, fin, cleanups, clean, crashes,
                 overlapped>>

RewriteWrite(r) ==
  /\ req[r].pc = "queried"
  /\ file' = Content(req[r].found)
  /\ req' = [req EXCEPT ![r] = IdleReq]
  /\ UNCHANGED <<conclusion, gone, alias, domain, fin, cleanups, clean, crashes, overlapped>>

Finalize(d) ==
  \/ FinalizeLookup(d) \/ FinalizeLock(d) \/ FinalizeAliases(d) \/ FinalizeQuery(d)
  \/ FinalizeWrite(d) \/ FinalizeConclude(d) \/ FinalizeDone(d) \/ Fail(d)

Request(r) ==
  \/ RollbackLoad(r) \/ RollbackCommit(r) \/ ChangeSecurity(r) \/ VerifyDomain(r)
  \/ RemoveDomain(r) \/ EditDomain(r) \/ RewriteQuery(r) \/ RewriteWrite(r)

Next ==
  \/ \E d \in Deployments : Ready(d) \/ Finalize(d) \/ CleanupOne(d)
  \/ \E r \in Requests : Request(r)
  \/ CleanupLoad \/ CleanupDone \/ WorkerCrash

Spec == Init /\ [][Next]_vars

-----------------------------------------------------------------------------
(* Every field has its type.                                                 *)
TypeOK ==
  /\ conclusion \in [Deployments -> {"none", "succeeded", "failed"}]
  /\ gone \subseteq Deployments
  /\ alias \in [AliasTypes -> Alias]
  /\ domain \in {"pending", "active"}
  /\ file \in [Hosts -> Maybe]
  /\ fin \in [Deployments -> [pc : FinSteps, branch : Maybe, env : Alias,
                              found : [AliasTypes -> Maybe]]]
  /\ cleanups \in Nat
  /\ clean \in [pc : {"idle", "scanning"}, todo : SUBSET Deployments]
  /\ req \in [Requests -> [pc : {"idle", "rollback", "committed", "queried"}, env : Alias,
                           found : [AliasTypes -> Maybe]]]
  /\ crashes \in 0 .. MaxCrashes
  /\ overlapped \in BOOLEAN

(* There is always somewhere else to roll back to: whatever races with what, *)
(* the environment's current and previous deployment are never the same.     *)
PreviousDiffers == alias["environment"].cur # None =>
                     alias["environment"].prev # alias["environment"].cur

(* Without rollbacks and crashes, the worker never stops the container of a  *)
(* deployment some alias refers to, nor of one that may be rolled back to.   *)
ReferencedKept == Referenced \cap gone = {}

(* Without rollbacks and crashes, the aliases of an environment move together. *)
AliasesTogether ==
  \A t \in AliasTypes : alias[t].cur = alias["environment"].cur

(* Whatever crashes, when nobody is at work and no two changes of the routes *)
(* ever overlapped, the file is what the tables say.                         *)
Quiet == /\ \A d \in Deployments : fin[d].pc \in {"idle", "failing"}
         /\ \A r \in Requests : req[r].pc \in {"idle", "rollback"}
SerialRewritesSettle ==
  Quiet /\ ~overlapped =>
    \A h \in Hosts : h # "domain" \/ domain = "active" => file[h] = Content(Query({}))[h]

(* Without crashes, an environment that is served stays served as long as    *)
(* no two changes of the routes overlap.                                     *)
ServedUnlessOverlap ==
  [][~overlapped' /\ file["environment"] # None => file'["environment"] # None]_vars

(* Zero downtime: an environment that is served stays served.                *)
StaysServed == [][file["environment"] # None => file'["environment"] # None]_vars

(* A rollback takes the environment's custom domain along: once it is done,  *)
(* both are routed to the same deployment.                                   *)
DomainFollows ==
  Quiet /\ ~overlapped /\ domain = "active" /\ file["domain"] # None =>
    file["domain"] = file["environment"]
==============================================================================
