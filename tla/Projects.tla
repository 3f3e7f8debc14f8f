------------------------------ MODULE Projects -------------------------------
(* Projects that track one repository: how deployments of them come about, by *)
(* a request or by a push (app/routers/project.py, app/routers/github.py,    *)
(* app/services/deployment.py), and how a project is deleted                 *)
(* (app/workers/tasks/project.py). The module Deployment has the jobs of a   *)
(* deployment, of which only what a deletion can run into is repeated here.  *)
EXTENDS Integers, Sequences, FiniteSets

CONSTANTS PdProjects,
          PdMaxDeployments,   \* bound
          PdBatch,            \* deployments deleted at a time: 100
          PdMaxFaults         \* bound: failures of Redis, of the database, of workers

ASSUME PdAssumption == /\ {PdMaxDeployments, PdMaxFaults} \subseteq Nat
                       /\ PdBatch \in Nat \ {0}

VARIABLES
  pdStatus,     \* of each project: "none", "active", "deleted", "gone"
  pdRows,       \* rows of deployments, in order of creation: project and status
  pdContainers, \* deployments that have a container
  pdAlias,      \* deployment the production alias of a project points to, and the one before
  pdReqs,       \* requests that have loaded an active project, <<project, deployment or 0>>
  pdHook,       \* the push being handled: projects still to deploy, is the session usable?
  pdQueue,      \* queued jobs, <<"start", deployment>> and <<"delete", project>>
  pdJob,        \* the deletion that is running
  pdLeft,       \* failures until the bound
  pdSlips       \* history: "lost" a job was not enqueued, "late" a deployment was
                \* made or started during a deletion, "pinned" a batch was refused,
                \* "kept" a container could not be removed

pdTables == <<pdStatus, pdRows, pdContainers, pdAlias>>
pdWeb == <<pdReqs, pdHook>>
pdVars == <<pdTables, pdWeb, pdQueue, pdJob, pdLeft, pdSlips>>

PdIds == 1..PdMaxDeployments
PdMade == DOMAIN pdRows
\* Whether its row is still there; the job of one that starts goes on without it.
PdThere(d) == pdRows[d].status \notin {"goneStarting", "gone"}
PdOf(p) == {d \in PdMade: pdRows[d].project = p /\ PdThere(d)}
PdWaiting(d) == d \in PdMade /\ pdRows[d].status = "prepare"
PdNoHook == [todo |-> {}, usable |-> TRUE]
PdNoJob == [pc |-> "idle", project |-> CHOOSE p \in PdProjects: TRUE, batch |-> {}]
PdFault == pdLeft > 0 /\ pdLeft' = pdLeft - 1

PdInit == /\ pdStatus = [p \in PdProjects |-> "none"]
          /\ pdRows = <<>>
          /\ pdContainers = {}
          /\ pdAlias = [p \in PdProjects |-> [cur |-> 0, prev |-> 0]]
          /\ pdReqs = {}
          /\ pdHook = PdNoHook
          /\ pdQueue = {}
          /\ pdJob = PdNoJob
          /\ pdLeft = PdMaxFaults
          /\ pdSlips = {}
------------------------------------------------------------------------------
\* Bound: one request or push at a time.
PdNoRequest == pdReqs = {} /\ pdHook.todo = {}

\* new_project: its name is unique in the team, deleted projects included. Rows that
\* do not exist yet are interchangeable: the next one.
PdCreate(p) ==
  /\ pdStatus[p] = "none" /\ p = CHOOSE o \in PdProjects: pdStatus[o] = "none"
  /\ pdStatus' = [pdStatus EXCEPT ![p] = "active"]
  /\ UNCHANGED <<pdRows, pdContainers, pdAlias, pdWeb, pdQueue, pdJob, pdLeft, pdSlips>>

\* project_deploy and project_redeploy begin: get_project_by_name finds no
\* deleted project. GitHub is asked before the deployment is made.
PdDeploy(p) ==
  /\ pdStatus[p] = "active" /\ PdNoRequest
  /\ pdReqs' = {<<p, 0>>}
  /\ UNCHANGED <<pdTables, pdHook, pdQueue, pdJob, pdLeft, pdSlips>>

\* DeploymentService.create: a row with status "prepare", if the project exists; it
\* refuses a branch of no environment and a runner that is unknown or disabled.
PdMayCreate(p) == pdStatus[p] # "gone" /\ Len(pdRows) < PdMaxDeployments
PdRowMade(p) ==
  /\ pdRows' = Append(pdRows, [project |-> p, status |-> "prepare"])
  /\ pdSlips' = pdSlips \cup (IF pdStatus[p] = "deleted" THEN {"late"} ELSE {})
PdDeployCommit(r) ==
  /\ r[2] = 0
  /\ \/ PdMayCreate(r[1]) /\ PdRowMade(r[1]) /\ pdReqs' = {<<r[1], Len(pdRows) + 1>>}
     \/ pdReqs' = {} /\ UNCHANGED <<pdRows, pdSlips>>
  /\ UNCHANGED <<pdStatus, pdContainers, pdAlias, pdHook, pdQueue, pdJob, pdLeft>>
\* The event and the job follow; if Redis fails or the process dies there is a
\* deployment without a job.
PdDeployEnqueue(r) ==
  /\ r[2] # 0
  /\ \/ pdQueue' = pdQueue \cup {<<"start", r[2]>>} /\ UNCHANGED <<pdLeft, pdSlips>>
     \/ PdFault /\ pdSlips' = pdSlips \cup {"lost"} /\ UNCHANGED pdQueue
  /\ pdReqs' = {}
  /\ UNCHANGED <<pdTables, pdHook, pdJob>>

\* github_webhook, push: all active projects of the repository ...
PdPush ==
  /\ PdNoRequest /\ Len(pdRows) < PdMaxDeployments
  /\ pdHook' = [todo |-> {p \in PdProjects: pdStatus[p] = "active"}, usable |-> TRUE]
  /\ UNCHANGED <<pdTables, pdReqs, pdQueue, pdJob, pdLeft, pdSlips>>

PdHookDone(p, ok) == LET todo == pdHook.todo \ {p}
                     IN pdHook' = [todo |-> todo, usable |-> todo = {} \/ (pdHook.usable /\ ok)]
\* ... are deployed one by one. An error of one project is logged; but a commit
\* that fails leaves the session to be rolled back, which nobody does, and the
\* projects after it fail too.
PdPushTo(p) ==
  /\ p \in pdHook.todo
  /\ \/ /\ PdHookDone(p, TRUE)
        /\ UNCHANGED <<pdRows, pdQueue, pdLeft, pdSlips>>
     \/ /\ pdHook.usable /\ PdMayCreate(p) /\ PdRowMade(p)
        /\ pdQueue' = pdQueue \cup {<<"start", Len(pdRows) + 1>>}
        /\ PdHookDone(p, TRUE)
        /\ UNCHANGED pdLeft
     \/ /\ pdHook.usable /\ PdMayCreate(p) /\ PdFault
        /\ \/ pdRows' = Append(pdRows, [project |-> p, status |-> "prepare"]) /\ PdHookDone(p, TRUE)
           \/ UNCHANGED pdRows /\ PdHookDone(p, FALSE)
        /\ pdSlips' = pdSlips \cup {"lost"}
        /\ UNCHANGED pdQueue
  /\ UNCHANGED <<pdStatus, pdContainers, pdAlias, pdReqs, pdJob>>

\* project_settings, danger: the status, then the job. Bound: one deletion at a time.
PdDelete(p) ==
  /\ pdStatus[p] = "active" /\ pdJob = PdNoJob /\ \A o \in PdProjects: <<"delete", o>> \notin pdQueue
  /\ pdStatus' = [pdStatus EXCEPT ![p] = "deleted"]
  /\ \/ pdQueue' = pdQueue \cup {<<"delete", p>>} /\ UNCHANGED <<pdLeft, pdSlips>>
     \/ PdFault /\ pdSlips' = pdSlips \cup {"lost"} /\ UNCHANGED pdQueue
  /\ UNCHANGED <<pdRows, pdContainers, pdAlias, pdWeb, pdJob>>
------------------------------------------------------------------------------
(* Jobs.                                                                     *)

\* Mutant: the job gives up on a project that is being deleted.
PdTakenActive(d) == pdRows[d].status = "prepare" /\ pdStatus[pdRows[d].project] = "active"
PdTaken(d) == pdRows[d].status = "prepare"
\* start_deployment: a missing row fails it; whether the project is being deleted
\* is not looked at.
PdStart(d) ==
  /\ <<"start", d>> \in pdQueue
  /\ pdQueue' = pdQueue \ {<<"start", d>>}
  /\ IF PdTaken(d)
     THEN /\ pdRows' = [pdRows EXCEPT ![d].status = "starting"]
          /\ pdSlips' = pdSlips \cup (IF pdStatus[pdRows[d].project] = "deleted" THEN {"late"} ELSE {})
     ELSE UNCHANGED <<pdRows, pdSlips>>
  /\ UNCHANGED <<pdStatus, pdContainers, pdAlias, pdWeb, pdJob, pdLeft>>
\* Its container runs and is stored, if the row is still there.
PdStarted(d) ==
  /\ d \in PdMade /\ pdRows[d].status \in {"starting", "goneStarting"}
  /\ pdContainers' = pdContainers \cup {d}
  /\ pdRows' = [pdRows EXCEPT ![d].status = IF @ = "starting" THEN "running" ELSE "gone"]
  /\ UNCHANGED <<pdStatus, pdAlias, pdWeb, pdQueue, pdJob, pdLeft, pdSlips>>
\* finalize_deployment: the production alias moves to it and keeps the one before.
PdFinalize(d) ==
  /\ d \in PdMade /\ pdRows[d].status = "running"
  /\ pdRows' = [pdRows EXCEPT ![d].status = "succeeded"]
  /\ pdAlias' = [pdAlias EXCEPT ![pdRows[d].project] = [cur |-> d, prev |-> @.cur]]
  /\ UNCHANGED <<pdStatus, pdContainers, pdWeb, pdQueue, pdJob, pdLeft, pdSlips>>

\* Mutant: a job that finds nothing to delete is taken for a duplicate.
PdMayLoadRows(p) == pdStatus[p] = "deleted" /\ PdOf(p) # {}
PdMayLoad(p) == pdStatus[p] = "deleted"
\* delete_project: a project that is not there or not deleted fails the job.
PdLoad(p) ==
  /\ pdJob.pc = "idle" /\ <<"delete", p>> \in pdQueue
  /\ pdQueue' = pdQueue \ {<<"delete", p>>}
  /\ pdJob' = IF PdMayLoad(p) THEN [PdNoJob EXCEPT !.pc = "batches", !.project = p] ELSE pdJob
  /\ pdSlips' = pdSlips \cup (IF \E d \in PdOf(p): pdRows[d].status = "starting" THEN {"late"} ELSE {})
  /\ UNCHANGED <<pdTables, pdWeb, pdLeft>>

\* Mutant: the rows go and the containers stay.
PdRemovedNone(batch) == {}
\* The containers the batch has stored; one that cannot be removed is logged.
PdRemoved(batch) == {d \in batch: pdRows[d].status # "starting"}
\* The next batch, in no particular order: its containers are removed ...
PdSelect ==
  /\ pdJob.pc = "batches" /\ PdOf(pdJob.project) # {}
  /\ \E batch \in SUBSET PdOf(pdJob.project):
       /\ Cardinality(batch) = IF Cardinality(PdOf(pdJob.project)) < PdBatch
                               THEN Cardinality(PdOf(pdJob.project)) ELSE PdBatch
       /\ pdJob' = [pdJob EXCEPT !.pc = "rows", !.batch = batch]
       /\ \/ pdContainers' = pdContainers \ PdRemoved(batch) /\ UNCHANGED <<pdLeft, pdSlips>>
          \/ PdFault /\ pdSlips' = pdSlips \cup {"kept"} /\ UNCHANGED pdContainers
  /\ UNCHANGED <<pdStatus, pdRows, pdAlias, pdWeb, pdQueue>>
\* ... then, together, the aliases that point to them and their rows; an alias
\* that keeps one of them as previous prevents it, and the loop goes on.
PdPinned == LET a == pdAlias[pdJob.project] IN a.cur \notin pdJob.batch /\ a.prev \in pdJob.batch
PdDeleteRows ==
  /\ pdJob.pc = "rows"
  /\ pdJob' = [pdJob EXCEPT !.pc = "batches", !.batch = {}]
  /\ IF PdPinned
     THEN pdSlips' = pdSlips \cup {"pinned"} /\ UNCHANGED <<pdRows, pdAlias>>
     ELSE /\ pdRows' = [d \in PdMade |->
                          IF d \notin pdJob.batch THEN pdRows[d]
                          ELSE [pdRows[d] EXCEPT !.status = IF @ = "starting" THEN "goneStarting" ELSE "gone"]]
          /\ pdAlias' = IF pdAlias[pdJob.project].cur \in pdJob.batch
                        THEN [pdAlias EXCEPT ![pdJob.project] = [cur |-> 0, prev |-> 0]] ELSE pdAlias
          /\ UNCHANGED pdSlips
  /\ UNCHANGED <<pdStatus, pdContainers, pdWeb, pdQueue, pdLeft>>
\* No rows are left: the file, domains and storage links go ...
PdLast ==
  /\ pdJob.pc = "batches" /\ PdOf(pdJob.project) = {}
  /\ pdJob' = [pdJob EXCEPT !.pc = "final"]
  /\ UNCHANGED <<pdTables, pdWeb, pdQueue, pdLeft, pdSlips>>
\* ... and the project, unless a deployment has come: then the job has failed.
PdFinal ==
  /\ pdJob.pc = "final"
  /\ pdJob' = PdNoJob
  /\ pdStatus' = IF PdOf(pdJob.project) = {} THEN [pdStatus EXCEPT ![pdJob.project] = "gone"] ELSE pdStatus
  /\ UNCHANGED <<pdRows, pdContainers, pdAlias, pdWeb, pdQueue, pdLeft, pdSlips>>
\* The worker dies and the job is delivered again.
PdCrash ==
  /\ pdJob.pc # "idle" /\ PdFault
  /\ pdQueue' = pdQueue \cup {<<"delete", pdJob.project>>}
  /\ pdJob' = PdNoJob
  /\ UNCHANGED <<pdTables, pdWeb, pdSlips>>

PdJobStep == (\E p \in PdProjects: PdLoad(p)) \/ PdSelect \/ PdDeleteRows \/ PdLast \/ PdFinal
PdStartStep(d) == PdStart(d) \/ PdStarted(d)
PdReqStep == \E r \in pdReqs: PdDeployCommit(r) \/ PdDeployEnqueue(r)
PdNext ==
  \/ \E p \in PdProjects: PdCreate(p) \/ PdDeploy(p) \/ PdPushTo(p) \/ PdDelete(p)
  \/ PdReqStep \/ PdPush
  \/ \E d \in PdIds: PdStartStep(d) \/ PdFinalize(d)
  \/ PdJobStep \/ PdCrash
\* Requests end and workers take queued jobs and finish them.
PdFairness == WF_pdVars(PdJobStep) /\ WF_pdVars(PdReqStep) /\ \A d \in PdIds: WF_pdVars(PdStartStep(d))
PdSpec == PdInit /\ [][PdNext]_pdVars /\ PdFairness
------------------------------------------------------------------------------
PdTypeOK ==
  /\ pdStatus \in [PdProjects -> {"none", "active", "deleted", "gone"}]
  /\ \A d \in PdMade: pdRows[d].status \in {"prepare", "starting", "running", "succeeded",
                                              "goneStarting", "gone"}
  /\ pdContainers \subseteq PdMade
  /\ pdJob.pc \in {"idle", "batches", "rows", "final"} /\ pdJob.batch \subseteq PdMade

\* A project that is to be deleted is gone in the end, however its deployments
\* are spread over batches and even if the worker dies in between; unless the job
\* was lost, a deployment came about meanwhile, or an alias kept an earlier
\* deployment from being deleted.
PdGoneInTheEnd ==
  []<>(\A p \in PdProjects: pdStatus[p] # "deleted" \/ {"lost", "late", "pinned"} \cap pdSlips # {})

\* No container outlives the project it was made for, unless its deployment
\* was made or started while the project was being deleted, or Docker failed.
PdNoOrphan ==
  {"late", "kept"} \cap pdSlips = {} => \A d \in pdContainers: pdStatus[pdRows[d].project] # "gone"

\* Every deployment that was made is taken up by a worker or goes with its
\* project, because its row is there before its job; unless the job was lost.
PdStartedInTheEnd ==
  \A d \in PdIds: []<>(~PdWaiting(d) \/ "lost" \in pdSlips)
==============================================================================
