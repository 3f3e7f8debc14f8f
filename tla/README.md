# Pushify in TLA+

Pushify deploys applications to Docker containers: a web process (FastAPI), an arq job
worker, a monitor and Traefik share PostgreSQL rows, Redis queues, a Docker daemon and
configuration files. These modules model what those processes do to each other. TLC checks
the models on small instances, and TLAPS proves the theorems named below for every value of
the constants. `PROJECT.json` lists the runs, the source lines each definition models, the
hazards the properties are aimed at, and the findings.

Run from this directory: `tlc -config DeploymentNominal.cfg MCDeployment.tla`,
`tlapm DeploymentProofs.tla`.

## The system

| component | state it keeps | operations | what is hard about it |
|---|---|---|---|
| Requests (`app/routers/project.py`) | deployment rows, aliases, domains, project config | deploy, redeploy, cancel, rollback, security level, domains, environments | they act on rows they loaded while jobs change them; commit and enqueue are separate |
| Job worker (`app/workers/jobs.py`, `tasks/*`) | arq queue in Redis, 8 concurrent jobs | start, finalize, fail, delete, cleanup; deletions of projects, teams, users; storage; registry | jobs are cancelled, time out, crash and are delivered again |
| Monitor (`app/workers/monitor.py`) | one long-lived session, outage counters, active checks | poll, probe, hand over | cached objects, counters, repeated polls before a fail job has run |
| Deployment service (`app/services/deployment.py`) | aliases, Traefik file of a project | update_status, create, cancel, rollback, setup_aliases, update_traefik_config | read-modify-write of shared rows and files without locks |
| Docker | containers by name and id | create, start, stop, delete, get | every call can fail; containers end by themselves |
| Environments (`models.py`, `utils/environment.py`) | JSON columns of the project: environments, variables | create, rename, delete, save, match a branch | columns read early and overwritten as a whole |
| Domains (`app/services/domain.py`) | domain rows and their locks, the hosts each project's file routes | add, edit, verify, remove, delete the environment | one hostname in several projects; DNS is asked between load and commit; sessions keep old rows; the file is queried and written by several processes |
| Deletion (`tasks/project.py`, `team.py`, `user.py`) | status `deleted`, cascades | delete in batches | deletion while deployments run; a batch that always fails |
| Storage (`tasks/storage.py`, `services/postgres.py`, `mariadb.py`) | storage row, database, users | provision, retry, reset, rotate, deprovision | server and row change at different times; jobs overwrite each other's status |
| Backups (`services/storage_backup.py`) | backup files, last backup in the config | scheduler, backup, prune | dumps cut short; who records what when one fails |
| Storage connections (`project.py`, `deployment.py`) | environment lists of each connection | connect, edit, disconnect; variables and mounts of a container | a deployment reads passwords, paths and mounts at different times and writes passwords back |
| Teams (`routers/team.py`, `user.py`) | members, roles, invites | invite, accept, change role, leave, delete | last owner, double acceptance, revoked invites |
| Sign-in (`utils/access.py`, `routers/auth.py`) | allowlist, its copy in the process | add, delete, consult | when is the copy stale |
| Browser challenge (`services/browser_challenge.py`) | Redis keys, load counter, cached passes | issue, boot, verify | one-time use, expiry, a counter changed by several commands |
| Host security (`services/security_host.py`) | level of a host, copies in each process | set level, forward auth | processes disagree for a while |
| Registry (`services/registry.py`) | catalog and overrides files, images | update, enable, merge, prune, pull | read-modify-write of a file; pruning must not lose a choice |
| Panel update (`services/update.py`) | status file | start, helper | two writers of one file |
| Event streams (`routers/event.py`) | positions in Loki and Redis streams | logs, status | deduplication and moving positions |
| GitHub (`routers/github.py`) | installations, projects | push, rename, uninstall | one session for all projects of a push |
| OAuth, pages, forms, scripts | sessions, none | | external protocols, rendering, host operations |

How the core interacts: a request commits a deployment row and enqueues `start_deployment`;
the job creates and starts a container and saves `status=deploy`; the monitor polls such rows
and, when the app answers on port 8000, saves `status=finalize` and enqueues
`finalize_deployment`, else `fail_deployment`; finalize moves the aliases, rewrites the Traefik
file, concludes and enqueues a cleanup; fail stops the container, enqueues `delete_container`
and concludes. A cancel concludes first, then aborts the start job (or fails there), then stops the container.

What makes each part correct: a deployment always has someone who will act on it and ends
with one conclusion; only an app that answered is finalized and given aliases (the host label of its own
container routes from the start); canceled and failed deployments
leave no runner; aliases never name a removed container, a rollback always leads somewhere
else, the file agrees with the tables and a served environment stays served; storage and
deletion jobs do not resurrect what is being deleted; a stored password opens its database; one-time
tokens are used once; a team keeps an owner; a hostname belongs to one project; cached decisions are
never older than their caches live.

## Modules

| module | what it is |
|---|---|
| `Deployment` | requests, start/finalize/fail/delete/cleanup jobs, worker crashes and stops, monitor, Docker |
| `DeploymentLifecycle` | the abstract specification: the documented lifecycle of `ARCHITECTURE.md` |
| `MCDeployment` | instances of `Deployment` |
| `DeploymentProofs`, `FailureProofs` | what each action of `Deployment` does, and theorems about it |
| `Routing` | aliases, domain and Traefik file under finalize jobs, rollbacks, settings and cleanups |
| `MCRouting`, `RoutingProofs` | instances of `Routing` and theorems about it |
| `Storage` | one storage of any type: row, server, backups, the requests and the jobs on it |
| `Links` | which environments a storage is connected to and what a deployment gets of it |
| `StorageProofs` | theorems about `Storage` and `Links` |
| `Accounts`, `AccountsProofs` | users, teams, members, invites, and the deletion of teams and users; theorems about them |
| `Projects` | requests and pushes that make deployments, and the deletion of a project in batches |
| `Environments` | environments of a project, the variables scoped to them, the environment of a branch |
| `Domains` | domains of several projects and the hosts their files serve |
| `Allowlist` | who may sign in, and the copy every login consults |
| `OneTimeToken` | the abstract specification of a challenge |
| `Challenge` | challenges, verify requests and load counter, one Redis command a step |
| `Gate` | what a protected host answers from the copies its processes keep |
| `SecurityProofs` | theorems about `Allowlist`, `Challenge` and `Gate` |
| `Registry`, `MCRegistry` | catalog, overrides, what they resolve to, images of runners |
| `ProjectsProofs` | theorems about `Projects`, `Environments`, `Domains` and `Registry` |
| `MCServices` | the composition of all modules below `MCRouting`, and their instances for one run |
| `ServicesProofs` | theorems about the composition |

Which module meets which: `Deployment` hands over to `Routing` at finalize. `Projects` repeats of
`Deployment` only what a deletion can run into (take, start, finalize), `Links` repeats of `Storage` only
what its jobs and requests do to the row and the server, and `Domains` has the hosts of the file of which
`Routing` has the routes. `Challenge` implements `OneTimeToken`; the pass it gives is the cookie of `Gate`.
Names of the modules beside the deployments carry a prefix (`St`, `Ac`, `En`, ...), so that one module can
extend them all.

### Deployment

`row` is the deployment table (status, conclusion, container_status, and the id of the
container as the number of the container among those created for the deployment; 0 is NULL).
`slot` holds what each of the worker's concurrent jobs is doing: `pc` says after which commit
or Docker call it stands, `snap` is the row object its session loaded. A session never
refreshes it, because `expire_on_commit=False`, and a commit writes only the columns that the
job changed: that is `Merge` and `Commit`. Each handler is cut where another process can act:
at an await that commits, enqueues or calls Docker. `queue` counts the waiting jobs of each kind
for each deployment. `cancel` is the cancel request with its own loaded row; `linked` says
whether that row held the job's id, without which the job is not aborted. With it `CancelAbort` has two
outcomes: the code asks `Job.info()` for its `success`, which the definition of an unfinished job has or has
not with the version of arq; without it the request fails after its commit, and nothing is aborted or
stopped. `mon` is the monitor:
`cid` and `status` are the object its session still holds from the last poll, or nothing if the
last poll did not return it. `outage` is `docker_outage_counts`. `answered` is a history variable.

Each action is one step of a handler and has its name (`StartSave`, `FailStop`, `MonitorReady`);
`TakeJob` includes a handler's early returns. `Interrupted` is the `CancelledError` that an abort,
a timeout or a graceful stop of the worker raises in `start_deployment`, whose handler treats
them alike; the other jobs have no handler and are delivered again (`WorkerStop`) or are over
(`JobTimeout`).

### Routing

The aliases of one branch and one environment (branch, environment and environment_id), one
custom domain and the Traefik file of the project. `setup_aliases` is two steps and a
commit because its second query flushes the branch alias: from then on PostgreSQL
holds the row's lock, so finalize jobs of a branch take turns (`Locking`), but a rollback, which
does not touch that row, may commit between the job's read of the environment alias and its
commit. A rewrite of the file is a query of the aliases and, after an await, a query of the
domains with the write. `overlapped` is a history variable: whether two changes of the routes
were ever under way at once. The module starts where `Deployment` hands over to finalize;
`Deployment`, in turn, treats finalize's aliases as a transaction that may fail and the set of
referenced deployments as arbitrary.

### Storage and Links

`stRow` is the row with the stored password (a version number, 0 before there is one), `stServer` what the
disk or the database server has, `stDumps` the backup files, newest first. A job (`stJobs`) loads the row,
works in a thread and commits, in steps `work`, `dump`, `commit` and `fail`; it carries the row it `seen`
and writes only what differs from it. `stWeb` is a rotation: the request has loaded the row (`StRotate`), changes the
server in a thread (`StRotateServer`) and commits (`StRotateCommit`). A dump is `good` if all its bytes are in the file;
that the process writes them past the compression, so that the file is no valid `.gz`, is a matter of the format,
which the model has not. Nor has it a PostgreSQL storage made on a project's page, which gets its user and
its entries in `config` only from the provision job.
`stFaults` counts failures of the server, of Redis and of processes down. `stTorn` is history: writers
overlapped or one was cut short; `stAsked` that a deletion was asked for.

`Links` follows one container per environment through `get_runtime_env_vars` and `get_runtime_mounts`:
passwords are read (`LnRead`), given to the server again (`LnGrant`), paths and mounts come from two queries
(`LnPaths`, `LnMounts`), and the commit stores the passwords that were read (`LnCommit`). `touched` collects
the storages whose rows changed since the preparation began: the properties say nothing of those. A
deployment prepared across a rotation is such a case and a real one: it stores and grants the password from before the
rotation, which also touches the containers that got the new one.

### Accounts, Projects, Environments and Domains

In `Accounts`, `acReq` holds requests between their check (`AcLeaveCheck`) and their commit
(`AcLeaveCommit`), `acRoles` the membership rows of each team and user as a sequence, because nothing in
the table forbids two. Two jobs delete teams and users, the second by way of the teams nobody else
owns. History: `acRaced` (two such requests overlapped, an admin removed an owner, or a user made a team
while being deleted), `acLate` (a team got a project during its deletion), `acAsked`.

In `Projects`, a request loads an active project (`PdDeploy`), commits the row and enqueues the job in two
steps; a push (`pdHook`) does so for every project of the repository on one session, which a failed
commit spoils for the rest. `delete_project` selects and deletes batches (`PdSelect`, `PdDeleteRows`), then
what is left (`PdLast`), then the project (`PdFinal`). `pdSlips` records what the properties except.

In `Environments`, a request holds what it will write, computed from the columns it read, and `for` records
for which environment a variable was saved. `enMixed` records that requests overlapped, or that one saved variables for,
renamed or deleted again an environment already deleted.

In `Domains`, an open request holds the rows its session has loaded, which it keeps to its end. A verification
flushes its row, which locks it, and its UPDATE finds the rivals that are committed (`DmFlush`); when their locks are
free it looks at them again, disables them and commits (`DmVerified`). Whoever waits for a locked row is not enabled; waits
in a circle fail one request (`DmDeadlocked`). `update_traefik_config` is a query and a write (`DmQuery`, `DmWrite`), by
any number of requests and jobs at once: the query finds the rows that are active now, but of a row the session has it
sees the columns it had loaded (`DmKnown`), and it skips domains without an environment and any others, as their
alias may be absent or not concluded (`Routing` has the aliases). Of a domain's environment only its
existence is kept. History: `dmUnseen` (an edit and a verification of a row overlapped), `dmMissed`
(two verifications of a hostname that both ran their UPDATE before either committed, and of which neither found
the other's row because it was disabled), `dmAside` (for each file the rows its last write skipped, had old or
failed to write, and those changed since by someone who does not write it).

### Allowlist, Challenge, Gate, Registry

In `Allowlist`, a login reads the signature of the table and then the rules; the copy is one per process.
`Challenge` has one action per Redis command: bump the counter, store the key, store and read the boot
session, take the key (`GETDEL`), decrement, reset, answer; `ChDie` is a process that ends in between. Time is a
clock whose unit is `ChLoadTtl`, and keys hold the time they expire at. `Gate` has a clock too, in units of
the longest database query: a level that was read is cached at most one unit later. `Registry` reads both files when a request
begins and writes the overrides back pruned; `rgSet` is what was last asked for.

## Runs

| run | question | instance | result |
|---|---|---|---|
| `deployment_nominal` | do rows follow the documented lifecycle, and is a failed deployment stopped? | 2 deployments, 2 slots, no faults | `LifecycleOrder` (refinement of `DeploymentLifecycle`) and `FailedIsStopped` hold, 332 k states |
| `deployment_adversity` | what survives cancels, Docker faults, a crash, a stop or a timeout? | 1 deployment, 1 slot, threshold 2, 1 crash | `TypeOK`, `AnsweredFirst`, `CanceledLostOnlyToStaleReader` hold, 1.0 M states |
| `deployment_liveness` | does every deployment conclude? | 1 deployment, 1 slot, faults, 1 crash | `SomeoneResponsible` and `EventuallyConcludes` hold, 20 k states |
| `deployment_cancel_order` | is the lifecycle kept under a cancel? | 1 deployment, no faults | violated, see below |
| `deployment_cancel_removal` | is a canceled runner removed? | 1 deployment, no faults | violated, see below |
| `routing_nominal` | aliases, cleanups and service without crashes | 3 deployments, 1 request | `ReferencedKept`, `AliasesTogether`, `ServedUnlessOverlap` hold, 39 k states |
| `routing_adversity` | rollbacks and a crash | 2 deployments, 1 request, 1 crash | `TypeOK`, `PreviousDiffers`, `SerialRewritesSettle` hold, 150 k states |
| `routing_zero_downtime` | does a served environment stay served? | 2 deployments, 1 request | violated, see below |
| `routing_rollback` | does a rollback take the custom domain along? | 2 deployments, 1 request | violated, see below |
| `services` | what do storages, accounts, environments, domains, projects, logins, connections, challenges, protected hosts and the registry promise? | each component by itself, see below | 27 properties hold, 378 k states |
| `storage_sqlite` | can a SQLite storage be backed up? | 1 storage, no faults | violated, see below |
| `registry_overrides` | does an override win over any catalog? | a catalog that enables items | violated, see below |

What `services` shows, component by component (an exception a property makes is in its comment, next to the
code that causes it):

| component, instance | properties |
|---|---|
| `Storage`: 1 storage of any type, 2 jobs at once, 2 requests, 1 fault, 2 backups kept | `StPasswordAgrees`, `StNothingLeft`, `StGoodKept`, `StDeletionDone`, `StProvisioned` |
| `Links`: a database and a volume, 2 environments, 2 changes, 2 deployments | `LnSecretsWork`, `LnPathsMounted`, `LnFenced` |
| `Accounts`: 2 users, 2 teams, 1 invite, 1 slow request beside others of one step | `AcOwnerKept`, `AcOncePerTeam`, `AcRevokedStays`, `AcAccountGone` |
| `Projects`: 2 projects, 2 deployments, batches of 1, 1 fault | `PdNoOrphan`, `PdGoneInTheEnd`, `PdStartedInTheEnd` |
| `Environments`: production and 2 others, 5 requests of which 2 overlap | `EnSlugsUnique`, `EnProdServed`, `EnVarsOwn` |
| `Domains`: 2 projects, 2 hosts, 2 rows, 4 requests of which 2 overlap | `DmOneActive`, `DmProven`, `DmServed` |
| `Allowlist`: 2 rules of which one matches, 2 logins, 2 additions | `AlLoginFresh` |
| `Challenge`: 2 challenges, 2 verify requests, 3 units of time | `ChAnsweredOnce`, `ChOneTime` (refinement of `OneTimeToken`) |
| `Gate`: 2 processes, 3 units of time | `GtAnswersFresh` |
| `Registry`: 2 runners, 1 preset, catalogs that enable nothing themselves, 1 request | `RgOverridesWin` |

`ServicesTypeOK` is the type of all of them. The components share no state the models keep, so that checking
them side by side would only multiply their states: the initial state of `MCServices` chooses which
component takes steps (`focus`), and the others keep their initial state.

Why these bounds are enough for the question: the jobs of different deployments of a project
share only the worker's slots, the cleanup and the aliases; two deployments on two slots have
every pair of them at work at once, and one deployment meets every interleaving of its own
processes (start, duplicate fail jobs, deletion, monitor, cancel). Three deployments are the least
for which one is current, one is previous and one may be cleaned up. A threshold of 2 has a
count that is below it and one that reaches it. `MaxFails` bounds the fail jobs that wait for one
deployment (the monitor adds one every two seconds); `MaxCrashes` bounds crashes, stops and
timeouts. `SYMMETRY` is used only in runs without liveness properties. `CHECK_DEADLOCK FALSE`:
the number of deployments is finite and their work ends.

Of `services`: two of everything that may collide (jobs, projects, logins, answers, processes, overlapping
requests) and one fault, after which recovery has to work. The lifetimes are the least that keep the
order of those in the code. In `Accounts` rows that do not exist yet are interchangeable and the next one is taken; one
deletion is under way at a time and one team has content. In `Projects` one deletion is under way at a time. With
one request `Registry` never has `rgRaced` by another request; that `RgOverridesWin` needs the exception is
plain from `RgSetItem`, which writes back all that was read. The theorems below lift the bounds of every
safety property of `services`.

Fairness (`FairSpec`): web process, worker, monitor and time go on (`WF` of their steps, the
worker as one process that may choose its next job). `SF` for `Expire`: a deployment that is polled
again and again is at some poll older than its timeout. Nothing is assumed of users, faults, the app
or crashes. Beside the deployments: workers take queued jobs and finish them (`WF` of `StStep`, `AcJobStep`,
`PdJobStep`, `PdStartStep`), requests under way end (`StRotateServer`, `StRotateCommit`, `PdReqStep`), and somebody opens the page of
a storage that stays pending, which is what enqueues its provisioning again (`StRetry`). The other modules
have no liveness and no fairness. No fair action of a component is enabled in its initial state, so that in `MCServices`
the conditions ask nothing of components out of focus.

### What the violations show

* `deployment_cancel_order`: a cancel that precedes the commit of `job_id` cannot abort the start
  job, which sets `status=prepare` on the canceled row.
* `deployment_cancel_removal`: in the same race, or when the abort lands in the middle of the create
  call, the container's id is unknown to whoever should delete it. A monitor then moves the
  canceled row to `finalize`, where no cleanup looks.
* `routing_zero_downtime`: between finalize's commit of the aliases and its conclusion any other
  rewrite of the file omits the new deployment, and with it the environment.
* `routing_rollback`: a rollback swaps the environment alias only; the custom domain
  follows the environment_id alias.
* `storage_sqlite`: `_backup_sqlite` opens its temporary copy in a directory that only the later
  compression makes, so the first backup of a SQLite storage fails.
* `registry_overrides`: pruning removes `enabled=false` as if it were the default; an item that the
  catalog itself enables stays enabled after an administrator disabled it. The bundled catalog enables nothing.

Also met while modelling, and listed as hazards: with a crash, a finalize job that is delivered
again can move aliases back to a deployment whose container a cleanup has removed (`ReferencedKept`
fails with one crash and three deployments); with graceful stops or job timeouts `start_deployment`
swallows its interruption before there is a container and the deployment stays in `prepare`
(`SomeoneResponsible` fails with `Shutdowns`).

Read in the code, in agreement with the models but without a run of their own: an admin may remove
owners although `forms/team.py:228` says there must be at least one; `routers/team.py:1608` sets the deleted status
on the form, not on the team; `routers/project.py:1928` promises that protection settings apply within a few
seconds, while a process may keep a level for 30 or 120 seconds (`GtAnswersFresh` states the true bound); challenges
nobody answers stay in the load counter until it lapses; a rate limit gets its expiry in a second
call (`browser_challenge.py:309`).

## Theorems

Most state a property that some run checks, the others one that their module states next to them, under the assumptions its module names (`ASSUME`, which TLC
evaluates in the runs) and the hypotheses in the last column. It holds for any deployments, crashes, rows,
requests and bounds, any number of processes and any lifetimes (`Deployment`: any finite number of slots).

| theorem | property | hypotheses |
|---|---|---|
| `DeploymentProofs`: `TypeCorrect` | `TypeOK` | |
| `DeploymentProofs`: `AnsweredCorrect` | `AnsweredFirst` | |
| `DeploymentProofs`: `BatonKept` | `SomeoneResponsible` | no graceful stop, no job timeout |
| `DeploymentProofs`: `CanceledKept` | `CanceledLostOnlyToStaleReader` | |
| `DeploymentProofs`: `ConclusionsDecidedHolds`, `CanceledIsFinal` | stated in the module | |
| `FailureProofs`: `FailedStops` | `FailedIsStopped` | Docker calls succeed, no crash, stop or timeout of the worker |
| `FailureProofs`: `LifecycleKept` | `LifecycleOrder` (refinement) | no cancels, Docker calls succeed, no crash, stop or timeout of the worker |
| `RoutingProofs`: `TypeOKHolds`, `PreviousDiffersHolds` | `TypeOK`, `PreviousDiffers` | |
| `RoutingProofs`: `AliasesTogetherHolds`, `ReferencedKeptHolds` | `AliasesTogether`, `ReferencedKept` | no rollback, no crash |
| `RoutingProofs`: `SerialRewritesSettleHolds` | `SerialRewritesSettle` | |
| `RoutingProofs`: `ServedUnlessOverlapHolds` | `ServedUnlessOverlap` | no crash |
| `RoutingProofs`: `DomainFollowsHolds` | `DomainFollows` | no rollback, no crash |
| `StorageProofs`: `StPasswordAgreesHolds`, `StNothingLeftHolds`, `StGoodKeptHolds` | `StPasswordAgrees`, `StNothingLeft`, `StGoodKept` | |
| `StorageProofs`: `StDeletionOwedHolds`, `StRetriableHolds` | stated in the module | |
| `StorageProofs`: `LnSecretsWorkHolds`, `LnPathsMountedHolds`, `LnFencedHolds` | `LnSecretsWork`, `LnPathsMounted`, `LnFenced` | |
| `AccountsProofs`: `AcOwnerKeptHolds`, `AcOncePerTeamHolds`, `AcRevokedStaysHolds` | `AcOwnerKept`, `AcOncePerTeam`, `AcRevokedStays` | |
| `AccountsProofs`: `AcDeletionOwedHolds` | stated in the module | |
| `ProjectsProofs`: `PdNoOrphanHolds` | `PdNoOrphan` | |
| `ProjectsProofs`: `PdDeletionOwedHolds`, `PdStartOwedHolds` | stated in the module | |
| `ProjectsProofs`: `EnSlugsUniqueHolds`, `EnProdServedHolds`, `EnVarsOwnHolds` | `EnSlugsUnique`, `EnProdServed`, `EnVarsOwn` | |
| `ProjectsProofs`: `DmOneActiveHolds`, `DmProvenHolds`, `DmServedHolds` | `DmOneActive`, `DmProven`, `DmServed` | |
| `ProjectsProofs`: `RgOverridesWinHolds` | `RgOverridesWin` | the catalog enables nothing by itself |
| `SecurityProofs`: `AlLoginFreshHolds` | `AlLoginFresh` | |
| `SecurityProofs`: `ChAnsweredOnceHolds`, `ChImplementsToken` | `ChAnsweredOnce`, `ChOneTime` (refinement) | |
| `SecurityProofs`: `GtAnswersFreshHolds` | `GtAnswersFresh` | |
| `ServicesProofs`: `ServicesImplement` | the specification of each service | |
| `ServicesProofs`: `ServicesTyped` | `ServicesTypeOK` | the challenges are a finite set |
| `ServicesProofs`: `ServicesSafe` | all safety properties of `services` but the types | the catalog enables nothing by itself |

The hypotheses are those of the runs that check the property, except that the runs of `FailedIsStopped` have no cancels
and those of `ServedUnlessOverlap` no rollbacks: the theorems hold with them. `DomainFollows` is checked by a run with
rollbacks only, which violates it; the theorem says that nothing else does. Where a property has
an exception ("unless requests overlapped"), it is a history variable of the module and part of the property.

### Deployments

`TypeCorrect`: `TypeOK` is inductive; its one clause that is not a type says that the job in
a slot is about some deployment, without which updates of rows and containers could not be typed.
`DeploymentProofs` goes on to prove, action by action, what a step does to the jobs, commits and containers;
the theorems of that module and of `FailureProofs` use those effects and have one step per action.

`AnsweredCorrect`: `AnsweredFirst` is not inductive, since a monitor that has committed `finalize`
and not yet enqueued the job is a state in which the next step creates the job. `AnsweredInv` adds
that the monitor in that state has seen the app answer.

`BatonKept`: who is responsible changes with nearly every step, so the invariant has four
parts. `BatonInv` names the holder of the baton: the request before it enqueued, a start job that
waits or has not saved its container yet, a deployed row that the monitor selects (or has handed over,
or a finalize job), or a conclusion or a fail job. `ConclusionInv` collects everything that presumes
a conclusion (a completed row, an abort, a committed cancel, a snapshot with a conclusion, a container
listed by a cleanup), so that a step that takes the row out of the monitor's sight finds the deployment
settled. `DeletionInv` says the same of deletions. `StartInv` is needed because a commit
writes only changed columns: a redelivered start job whose snapshot already says `running` does not
write it again, so the table must still say so.

`ConclusionsDecidedHolds`, `CanceledKept` and `CanceledIsFinal` are about steps and share `OpenInv`. The finalize and
fail jobs check the conclusion when they load the row and never again; `OpenInv` says that what they hold still has
the conclusion that let them pass, and that a cancel which has not committed yet loaded a row without one. So a
conclusion changes in four ways only: by a cancel of a row that was open when it was loaded, by the handler of an aborted
start job, by a finalize job that did not load `canceled` and by a fail job that loaded no conclusion; `Decided` lists
them. A step that takes `canceled` away is one of the last two, by the stale reader `CanceledLostOnlyToStaleReader` names.
And since a job that loads a canceled row does not get so far, a canceled deployment stays canceled for ever
once the finalize and fail jobs that were at work on it are over.

`FailedStops`: that a fail job stopped the container when it ran would not do, because a start job may start it
later and a second fail job finds the row without its id. `StoppedInv` says that the steps that create and start the
container are over (`Calm`) before anything can lead to failure (`FailingLate`): there is one start job, and a row is
deployed, polled or failed only after it saved its container. From then on the container only stops. The rest is what
each holder of a container's id or status may believe: rows (`CidTrue`, `StatusTrue`), snapshots of jobs (`JobKnows`), containers a
cleanup listed (`Tidy`) and cancels (`CancelKnows`). With Docker faults or a crash the theorem is
false, as a start job that is delivered again makes a second container.

`LifecycleKept` is the refinement of `DeploymentLifecycle`, whose variables are the two columns of the row. `CourseInv`
names for each deployment the one process that may still write its row, and what the row then says: the start job until the container is
saved and polled (`StartFits`), the monitor (`MonitorFits`), the one finalize job (`HandFits`, `OneHand`), or fail
jobs, of which there may be several (`FailFits`). The last is where it could go wrong: a fail job must
never meet a monitor that finds the deployment ready. It does not, as who enqueues one has first left the monitor's
sight for good (`Beyond`: the attempts are used up, the container is stopped, or the row is past `deploy` and no longer polled).
`SnapFits` bounds what a snapshot may lag behind by. Every step is then one `Advance` of one row, an action of
`DeploymentLifecycle`, or changes neither column. None
of the hypotheses can go. With cancels `DeploymentCancelOrder` shows the order violated; if Docker may fail to find a
running container, the monitor enqueues a fail job and then finds the deployment ready after all, which writes
`finalize` over `fail`; after a crash the redelivered start job writes `prepare` over `deploy`. TLC finds the last
two on `DeploymentNominal` with `DockerFaults = TRUE` or `MaxCrashes = 1`.

### Routes

`PreviousDiffersHolds`: a finalize job writes the environment alias from what it read of it one step earlier, and a
rollback writes the swap of the row it loaded. `DiffInv` therefore says the same of the table (`RowsDiffer`), of the
row in a job's hand (`JobDiffers`) and of the one in a rollback's (`RollbackDiffers`): a previous deployment stands beside
a current and different one. Neither hand need agree with the table. That only one job at a time holds the branch
alias's lock (`OneLock`) is what keeps two first jobs from both making the rows.

`AliasesTogetherHolds` and `ReferencedKeptHolds` share `CalmInv`: no alias names a deployment before its job has
moved them (`JobCalm`), what a cleanup stops is concluded, and since aliases only move to deployments
that are not, none of what it still has to stop is referred to (`Stopped`). A rollback or a redelivered
finalize job moves an alias back and breaks this; `Calm` excludes both, as do the runs.

`SerialRewritesSettleHolds`: while no two changes overlapped, one change of the routes is under way
(`OneChange`), what a rewrite has read is still so when it writes, and between changes the file is what a rewrite
would make of the tables (`FileSays`), unless a job that died half way is to come back (`Owes`). That this job
does come back to its rewrite needs that it can no longer fail for want of an alias row, which is why `SerialInv` also
has a branch alias as soon as anyone rewrites.

`ServedUnlessOverlapHolds` adds that whoever an alias names, or a hand may put into one, has succeeded or is at this
moment rewriting (`NamedServes`), and that nobody who read before there was an alias is left (`NoneFound`). A crash
breaks the first: a job that moved the aliases and has to start over is named without either.

`DomainFollowsHolds` follows from `CalmInv` and `AliasesTogether`: the alias of the environment's id, which a domain is
routed by, names what the alias of its subdomain names. `routing_rollback` shows that a rollback moves only the second.

### Storages

`StInv`: as long as nothing overlapped or was cut short (`stTorn`), one job or one rotation runs
(`StSolo`); what it read of the row is still so, and what it did to the server or the disk is still there when it
commits (`StJobFine`); and an active storage without an error has the stored password, or the one a rotation is about to store
(`StAgrees`), unless a deletion is queued. `StNothingLeft` and `StGoodKept` are its clauses about `gone` and the last
backup: pruning counts files whether they are complete or not, so that the file of the job that has just ended, the
newest one, is what `StKeep >= 1` keeps. `StAssumption` also has no more jobs at once than backups kept, as in
`MCServices` (`max_backups` is 5 to 20 in the code).

`LnInv` says of the container being prepared and of the one that runs, alike, what they
have of every storage not touched since: `LnSecretFine` and `LnFileFine`, which grow with the step the
preparation has reached. One lemma shows that a step that touches some storages keeps this for all others.

### Accounts

`AcInv` has three layers: types; what invites, requests and jobs refer to exists (`AcKnown`), whatever overlapped;
and, while nothing has (`AcQuiet`), that a request is alone (`AcAlone`), that nobody has two rows in a team, or one row and
an invite, or two invites (`AcOnce`, and `AcReqOnce` for what a request is about to add), and that a team has an
owner (`AcOwned`), counting another one than the member who is about to leave or be demoted (`AcReqOwned`) and than the user
being deleted (`AcJobOwned`). `AcRevokedStaysHolds` is about steps and needs only `AcTypes` and `AcKnown`: it holds
however requests overlap.

### Projects, environments, domains and the registry

`PdInv`: a deletion under way works on a project that stays deleted, and none of its deployments starts meanwhile
(`PdJobKeeps`); those of the batch whose rows go next have no containers (`PdBatchClean`); a row that is gone left none, and no
row outlives its project (`PdRowsKeep`). What a late start or a failing Docker leaves is in `pdSlips`, which each clause
mentions where it bites.

`EnInv` says of the table what it says of every list a request is about to write (`EnGoodList`, `EnOwned`): whole
columns are replaced, so a commit is right if what it carries is right by itself. For the slugs that is enough
however requests overlap; for the variables it holds only of a request that is alone.

`DmOneActiveHolds` and `DmProvenHolds` share `DmInv`, for any number of rows: a row locked by a verification has one
such owner and stays (`DmLocks`); as long as no edit overlapped a verification (`DmSound`) a verification still has the
hostname it asked about (`DmChecksSaw`), and an edit has seen an active row as one (`DmEditsSaw`), so that it resets its
status along with the hostname. Of two flushed verifications of a hostname one waits for the other, or neither found
the other, which is `dmMissed` (`DmFound`); otherwise the UPDATE of each has found every row of the hostname that is active by
now (`DmFoundActive`), and so there is one (`DmAlone`). The exception does occur, with a third row that
was verified first or with a row whose environment was deleted and chosen anew: nothing in `project.py` or the table
prevents it. The four requests of the run are too few for it.

`DmServedHolds` needs neither exception. `DmSettled`: for each file somebody is about to query, or it is right but for the rows
of `dmAside`; and what the only writer holds is right in the same sense, because whoever changes a row adds it to
the `aside` of those who have queried before, and a writer that overtakes another spoils what the other holds.

`RgInv`: a request that is alone has read what the files still say (`RgReadFresh`), and an item somebody chose has an
override exactly when the choice was to enable it (`RgChosen`), which is what pruning makes of it
(`RgPrunedIs`) if the catalog enables nothing, the theorem's hypothesis. `registry_overrides` shows that it is needed.

### Sign-in and protected hosts

`AlInv`: the copy of a process was taken of some rows of the past (`AlCopied`), and a login between its two reads
has the signature of the present ones (`AlReadOnce`), unless a change fell between them (`alMixed`). A
signature is a count and the latest time. While the latest row of that past is still there, all rows up to its time were
in the copy, so that a table with an equal signature is a subset of as many members: the same rows (`AlSame`).

`ChInv`: a challenge is in one place at a time (`ChPlaces`) and the counter counts a set of
challenges (`ChCounted`), which `FiniteSetTheorems` turns into arithmetic. The refinement maps a challenge to open
while its key exists and to spent afterwards; commands on the counter stutter.

`GtInv`: a cached level agrees with the host, or the host changed so lately that the entry
expires within its lifetime and a query of the change; the same for passes of a browser that moved.

### What is still to be done has somebody to do it

Liveness is beyond the prover, but each liveness property of the runs has a part that does not depend on fairness: the
work that is left has a process that owes it. For deployments that is `SomeoneResponsible`. `StDeletionOwed`,
`AcDeletionOwed`, `PdDeletionOwed` and `PdStartOwed` say it of deletions and of deployments that wait, and `StRetriable` of a
storage whose provisioning failed. What each needs beside itself is the state in which the job could give up:

* `StGivenUp`: only a failure sends a deprovision job to the branch that gives it up; any other job may overwrite the
  status of the row, but never that of one that is gone.
* `StUntouched`: while a storage is pending no reset or deletion was asked for (`StWanted`), so only a provision job
  can have left its error, which is the one the retry accepts.
* `AcEmptied`: the team that a job deletes has no content but what was made meanwhile; otherwise the last step
  fails, and takes the user's job with it.
* `PdNoneLeft`: a project whose rows were found deleted still has none, or one came about meanwhile; otherwise the last step leaves
  the project as it is and nothing deletes it any more. `PdOneRequest` bounds the requests, as the model does.

With the fairness of the module, what remains to be seen is that the process that owes the step takes it and that the steps come to
an end, which is what TLC checks.

### The services together

`ServicesImplement`: a step of `SvSpec` is a step of one component and a stutter of the others (`SvStepAll`), and
every fairness condition of a component is a conjunct of `SvSpec`. So what is proved of a component holds of the composition, and
`ServicesSafe` collects it. `ServicesTyped` needs more than types: `AcTypeOK` has the foreign keys of the tables, whose
invariant `AcLive` says of every row, invite and request what a later commit will make of it; lists and counters that a
bound limits stay within it (`StBounded`, `EnBounded`); the batch a deletion works on is of rows that were created (`PdNumbered`);
a storage that is gone has no connection (`LnLinked`); the registry's images
are of its runners (`RgHeld`).

Two of these proofs did not go through at first, and the modules were corrected. The load counter of the challenges can
fall further below zero than `ChTypeOK` allowed, by one for every challenge (`ChLow`), as each may be counted off after the counter
lapsed. And `AcTypeOK` presumes that `owner` is a role of the instance, which `AcAssumption` now says.

### Only model-checked

The liveness properties (`EventuallyConcludes`, `StDeletionDone`, `StProvisioned`, `AcAccountGone`, `PdGoneInTheEnd`,
`PdStartedInTheEnd`), as liveness and `ENABLED` are outside the prover; what of them is safety is proved, see above.

## Assumptions about what surrounds the code

* PostgreSQL and Redis calls and writes of the Traefik file do not fail; a commit is atomic.
* arq: at least once delivery; an aborted job that waits is dropped, one that runs is cancelled, and
  `Job.abort` returns when the job is over; a crashed worker's jobs are delivered again, fewer than
  `job_max_tries` times; a graceful stop cancels and requeues. The settings `job_timeout_seconds`
  and `job_completion_wait_seconds` of `WorkerSettings` are not names arq reads, so arq's defaults hold.
* A container's stop and the enqueue of its deletion are one step: nothing of the deployment
  reads between them.
* Checks of one monitor poll do not commit at the same moment (see the hazard at `monitor.py:269`).
* Deferred jobs may run at any later time.
* The calls of one request to MariaDB or PostgreSQL succeed or fail as a whole where the code makes
  them in one function; MariaDB and PostgreSQL forget no user and no database.
* Redis executes one command at a time and its keys expire on time. DNS may answer anything at any time.
* One web process keeps one allowlist copy; several processes differ only in when each of them renews it.

## Not modelled, and what could follow

Left out on purpose, because nothing but data or formatting depends on them: build commands, labels and image pulls (their
failure is an action), log lines, names, avatars, slugs of teams and projects, fields of catalog entries other than
`enabled`, the detection of presets, the proof of work of a challenge, its fingerprints and its rate limit, pages and
forms as far as they only validate one request, scripts and compose files.

Not modelled:

* The panel update: its status file is written by a helper container outside the repository's processes, and
  no request of the present code starts an update.
* Log and event streams: what arrives, in which order, is decided by Loki and Redis alone.
* OAuth exchanges and signed cookies: protocols of others. Of a sign-in, `Allowlist` has the
  decision and `Accounts` what a first one creates.
* GitHub events other than a push: they set a status or a token on rows that no modelled action reads.
* The SQL console of a storage, whose effects are inside the database; non-HTTP projects; aliases of several
  branches at once; two checks of one monitor poll that commit at the same moment.

What could follow: the composition of `Projects` with all of `Deployment`, and of `Links` with all of `Storage`; the
statuses of a row under cancels, stated with the exceptions that `DeploymentCancelOrder` shows, as
`ConclusionsDecidedHolds` does for its conclusion.
