------------------------------- MODULE Storage -------------------------------
(* One storage of a team (SQLite file, MariaDB or PostgreSQL database, or a  *)
(* volume): its row, what exists for it on the disk or database server, its  *)
(* backups, and the requests and worker jobs that act on it:                 *)
(*   app/workers/tasks/storage.py, app/services/storage_backup.py,           *)
(*   app/services/mariadb.py, app/services/postgres.py and the storage pages *)
(*   of app/routers/team.py.                                                 *)
(*                                                                           *)
(* A job loads the row, works in a thread, and commits; between those steps  *)
(* other jobs and requests run. A session writes only the columns that       *)
(* differ from what it loaded. Left out: the name of the storage (its row is *)
(* never reused), the contents of the database, the SQL console, and that    *)
(* the page of a project creates a PostgreSQL storage without its user, made *)
(* by the first visit or job that misses it.                                 *)
EXTENDS Integers, Sequences, FiniteSets

CONSTANTS
  StSlots,         \* jobs the workers run at once
  StKeep,          \* max_backups (5 to 20 in the code)
  StMaxFaults,     \* bound: server, Redis and process failures
  StMaxRequests    \* bound: requests and scheduled backups of one storage

\* Pruning cannot reach a dump still being written: the code keeps at least 5.
ASSUME StAssumption == /\ StKeep \in Nat \ {0} /\ Cardinality(StSlots) <= StKeep
                       /\ StSlots \cap {"good", "partial"} = {}
                       /\ StMaxFaults \in Nat /\ StMaxRequests \in Nat

VARIABLES
  stRow,       \* row of table storage with its admin user's password
  stServer,    \* what exists: the path or database, and the user's password
  stDumps,     \* backup files, newest first
  stQueue,     \* queued jobs of each kind
  stJobs,      \* what each worker slot is doing
  stWeb,       \* a password rotation under way
  stFaults,    \* faults still allowed
  stLeft,      \* requests still allowed
  stTorn,      \* history: two writers overlapped, or one was cut short
  stAsked      \* history: somebody asked for the deletion

stVars == <<stRow, stServer, stDumps, stQueue, stJobs, stWeb, stFaults, stLeft, stTorn, stAsked>>

StTypes == {"database", "mariadb", "postgres", "volume"}
StSql == {"mariadb", "postgres"}
StKinds == {"provision", "deprovision", "reset", "backup"}
\* Passwords are versions: 0 is no user, 1 the first one generated.
StPasswords == 0..(StMaxRequests + 1)
StStatuses == {"none", "pending", "active", "resetting", "deleted", "gone"}
StErrors == {"none", "provision", "reset", "deprovision"}
StSeens == [status: StStatuses, error: StErrors, pw: StPasswords, enabled: BOOLEAN]
StRows == [type: StTypes, status: StStatuses, error: StErrors, pw: StPasswords,
           enabled: BOOLEAN, last: {"none", "ok", "failed"}]
StNoRow == [type |-> "volume", status |-> "none", error |-> "none", pw |-> 0,
            enabled |-> FALSE, last |-> "none"]
\* What a job keeps of the row it loaded: the columns it later uses or writes.
StSeen(k, row) ==
  [status |-> IF k \in {"provision", "backup"} THEN row.status ELSE "none",
   error |-> IF k = "provision" THEN row.error ELSE "none",
   pw |-> IF k = "deprovision" THEN 0 ELSE row.pw,
   enabled |-> k = "backup" /\ row.enabled]
StIdle == [job |-> "none", pc |-> "idle", seen |-> StSeen("none", StNoRow)]
StRotating == [pc: {"idle", "grant", "commit"}, pw: StPasswords]

\* Every writer that could still hold an old copy of the row has finished.
StQuiet == /\ \A s \in StSlots: stJobs[s].pc = "idle"
           /\ stWeb.pc = "idle"
           /\ \A k \in StKinds: stQueue[k] = 0
\* get_storage_by_name: requests do not find a storage marked as deleted.
StVisible == stRow.status \in {"pending", "active", "resetting"}

StFault == stFaults > 0 /\ stFaults' = stFaults - 1
StAsk == stLeft > 0 /\ stLeft' = stLeft - 1
StEnqueue(k) == stQueue[k] = 0 /\ stQueue' = [stQueue EXCEPT ![k] = 1]

StInit == /\ stRow = StNoRow
          /\ stServer = [db |-> FALSE, pw |-> 0]
          /\ stDumps = <<>>
          /\ stQueue = [k \in StKinds |-> 0]
          /\ stJobs = [s \in StSlots |-> StIdle]
          /\ stWeb = [pc |-> "idle", pw |-> 0]
          /\ stFaults = StMaxFaults
          /\ stLeft = StMaxRequests
          /\ stTorn = FALSE
          /\ stAsked = FALSE
------------------------------------------------------------------------------
(* Requests.                                                                 *)

\* A pending row with its admin user and config, from the page of the team or of a
\* project. Left out: a PostgreSQL storage of a project's page has neither yet.
StNewRow(t) == [StNoRow EXCEPT !.type = t, !.status = "pending", !.pw = IF t \in StSql THEN 1 ELSE 0]
\* team_storage, then the provision job; if it cannot be enqueued that is logged.
StCreate(t) ==
  /\ stRow.status = "none"
  /\ stRow' = StNewRow(t)
  /\ \/ StEnqueue("provision") /\ UNCHANGED stFaults
     \/ StFault /\ UNCHANGED stQueue
  /\ UNCHANGED <<stServer, stDumps, stJobs, stWeb, stTorn, stAsked, stLeft>>

\* Mutant: a failed attempt is not tried again.
StRetryUntried == stRow.type = "mariadb" /\ stRow.status = "pending" /\ stRow.error = "none"
\* should_retry_pending_mariadb_provision: false for every PostgreSQL storage,
\* although the PostgreSQL branch of the page asks it too. The 30 seconds since
\* the last attempt may have passed at any time.
StRetryDue == /\ stRow.type = "mariadb" /\ stRow.status = "pending"
              /\ stRow.error \in {"none", "provision"}

\* team_storage_settings, GET: opening the page of a pending storage.
StRetry ==
  /\ StRetryDue
  /\ StEnqueue("provision")
  /\ stRow' = [stRow EXCEPT !.error = "none"]
  /\ UNCHANGED <<stServer, stDumps, stJobs, stWeb, stFaults, stTorn, stAsked, stLeft>>

\* team_storage_settings, danger: reset whatever the status, then the job; if it
\* cannot be enqueued the storage is called active.
StResetRequest ==
  /\ StAsk /\ StVisible
  /\ \/ /\ StEnqueue("reset")
        /\ stRow' = [stRow EXCEPT !.status = "resetting", !.error = "none"]
        /\ UNCHANGED <<stFaults, stTorn>>
     \/ /\ StFault
        /\ stRow' = [stRow EXCEPT !.status = "active", !.error = "none"]
        /\ stTorn' = TRUE
        /\ UNCHANGED stQueue
  /\ UNCHANGED <<stServer, stDumps, stJobs, stWeb, stAsked>>

\* team_storage_settings, danger: delete, then the job, if it can be enqueued.
StDeleteRequest ==
  /\ StAsk /\ StVisible
  /\ stRow' = [stRow EXCEPT !.status = "deleted"]
  /\ stAsked' = TRUE
  /\ \/ StEnqueue("deprovision") /\ UNCHANGED stFaults
     \/ StFault /\ UNCHANGED stQueue
  /\ UNCHANGED <<stServer, stDumps, stJobs, stWeb, stTorn>>

\* team_storage_settings, a new password: the request has loaded the row, and an
\* active storage has its server changed first. Bound: one rotation at a time.
StRotate ==
  LET new == 1 + (IF stRow.pw > stServer.pw THEN stRow.pw ELSE stServer.pw)
  IN /\ StAsk /\ StVisible /\ stRow.type \in StSql /\ stWeb.pc = "idle"
     /\ stWeb' = [pc |-> IF stRow.status = "active" THEN "grant" ELSE "commit", pw |-> new]
     /\ stTorn' = (stTorn \/ \E s \in StSlots: stJobs[s].pc # "idle")
     /\ UNCHANGED <<stRow, stServer, stDumps, stQueue, stJobs, stFaults, stAsked>>

\* Mutant: the new password is stored and the server keeps the old one.
StRotateStored ==
  /\ stWeb.pc = "grant"
  /\ stWeb' = [stWeb EXCEPT !.pc = "commit"]
  /\ UNCHANGED <<stRow, stServer, stDumps, stQueue, stJobs, stFaults, stTorn, stAsked, stLeft>>
\* rotate_user_password, in a thread, whatever became of the storage since.
\* PostgreSQL refuses to grant on a database that does not exist, which fails the
\* request, but the user has the new password by then.
StRotateServer ==
  /\ stWeb.pc = "grant"
  /\ stServer' = [stServer EXCEPT !.pw = stWeb.pw]
  /\ stWeb' = [stWeb EXCEPT !.pc = IF stRow.type = "postgres" /\ ~stServer.db THEN "idle" ELSE "commit"]
  /\ UNCHANGED <<stRow, stDumps, stQueue, stJobs, stFaults, stTorn, stAsked, stLeft>>

\* ... and the row at the end of the request, if it is still there.
StRotateCommit ==
  /\ stWeb.pc = "commit"
  /\ stRow' = IF stRow.status = "gone" THEN stRow ELSE [stRow EXCEPT !.pw = stWeb.pw]
  /\ stWeb' = [stWeb EXCEPT !.pc = "idle"]
  /\ UNCHANGED <<stServer, stDumps, stQueue, stJobs, stFaults, stTorn, stAsked, stLeft>>

\* The web process dies: after the server the stored password is wrong from then on.
StRotateCrash ==
  /\ stWeb.pc # "idle" /\ StFault
  /\ stWeb' = [stWeb EXCEPT !.pc = "idle"]
  /\ stTorn' = (stTorn \/ stWeb.pc = "commit")
  /\ UNCHANGED <<stRow, stServer, stDumps, stQueue, stJobs, stAsked, stLeft>>

\* team_storage_settings, backup: set_backup_config.
StBackupSettings ==
  /\ StAsk /\ StVisible /\ stRow.type # "volume"
  /\ stRow' = [stRow EXCEPT !.enabled = ~@]
  /\ UNCHANGED <<stServer, stDumps, stQueue, stJobs, stWeb, stFaults, stTorn, stAsked>>

\* team_storage_settings, backup_run: now; storage_backup_scheduler: when
\* should_run_backup, whether or not a backup is queued or running.
StBackupEnqueue ==
  /\ StAsk /\ stRow.type # "volume" /\ stRow.status = "active"
  /\ Len(stDumps) <= StKeep   \* bound: failed dumps are not pruned
  /\ StEnqueue("backup")
  /\ UNCHANGED <<stRow, stServer, stDumps, stJobs, stWeb, stFaults, stTorn, stAsked>>

\* should_run_backup: the interval since the last one, or since backups were
\* enabled, may have passed at any time.
StBackupDue == stRow.enabled /\ stRow.status = "active" /\ stRow.type # "volume"
\* storage_backup_scheduler, a cron job.
StSchedule == StBackupDue /\ StBackupEnqueue
------------------------------------------------------------------------------
(* Jobs.                                                                     *)

\* Mutant: a deletion is carried out only while the row says so.
StFoundDeleted(k) ==
  IF k = "deprovision" THEN stRow.status = "deleted" ELSE stRow.status # "gone"
StFound(k) == stRow.status # "gone"

\* Every job begins by loading the row; without one it returns. No job looks at
\* the status; reset_storage commits its own.
StLoad(s, k) ==
  LET row == IF k = "reset" THEN [stRow EXCEPT !.status = "resetting", !.error = "none"]
                            ELSE stRow
  IN /\ stJobs[s].pc = "idle" /\ stQueue[k] > 0
     /\ stQueue' = [stQueue EXCEPT ![k] = @ - 1]
     /\ IF StFound(k)
        THEN /\ stRow' = row
             /\ stJobs' = [stJobs EXCEPT ![s] = [job |-> k, pc |-> "work", seen |-> StSeen(k, row)]]
             /\ stTorn' = (stTorn \/ stWeb.pc # "idle" \/ \E o \in StSlots: stJobs[o].pc # "idle")
        ELSE UNCHANGED <<stRow, stJobs, stTorn>>
     /\ UNCHANGED <<stServer, stDumps, stWeb, stFaults, stAsked, stLeft>>

StAt(s, k, pc) == stJobs[s].job = k /\ stJobs[s].pc = pc
StGoto(s, pc) == stJobs' = [stJobs EXCEPT ![s].pc = pc]

\* What ensure_* leaves: the database (or path) and the user as the job read it.
StEnsured(s) == [db |-> TRUE, pw |-> stJobs[s].seen.pw]

\* provision_storage, in its thread. A server that is not ready fails it.
StProvision(s) ==
  /\ StAt(s, "provision", "work")
  /\ \/ stServer' = StEnsured(s) /\ StGoto(s, "commit") /\ UNCHANGED stFaults
     \/ StFault /\ StGoto(s, "fail") /\ UNCHANGED stServer
  /\ UNCHANGED <<stRow, stDumps, stQueue, stWeb, stTorn, stAsked, stLeft>>

\* What dropping the database or removing the path leaves: the users.
StDropped == [stServer EXCEPT !.db = FALSE]

\* reset_storage: drop, create again, grant. It may fail after the drop.
StReset(s) ==
  /\ StAt(s, "reset", "work")
  /\ \/ stServer' = StEnsured(s) /\ StGoto(s, "commit") /\ UNCHANGED stFaults
     \/ /\ StFault /\ StGoto(s, "fail")
        /\ stServer' \in {stServer, StDropped}
  /\ UNCHANGED <<stRow, stDumps, stQueue, stWeb, stTorn, stAsked, stLeft>>

\* Mutant: the users are not dropped with the database.
StDeprovisionPath(s) ==
  /\ StAt(s, "deprovision", "work")
  /\ stServer' = StDropped /\ stDumps' = <<>>
  /\ StGoto(s, "commit")
  /\ UNCHANGED <<stRow, stQueue, stWeb, stFaults, stLeft, stTorn, stAsked>>

\* deprovision_storage: drop the database, then its users, then all backups.
StDeprovision(s) ==
  /\ StAt(s, "deprovision", "work")
  /\ \/ /\ stServer' = [db |-> FALSE, pw |-> 0] /\ stDumps' = <<>>
        /\ StGoto(s, "commit") /\ UNCHANGED stFaults
     \/ /\ StFault /\ StGoto(s, "fail")
        /\ stServer' \in {stServer, StDropped}
        /\ UNCHANGED stDumps
  /\ UNCHANGED <<stRow, stQueue, stWeb, stTorn, stAsked, stLeft>>

\* create_backup: refused unless the row it loaded was active. A SQL dump opens
\* its file at once; a SQLite backup is first copied next to it, into a
\* directory that only a later step creates, and fails.
StDumpOpens(s) == stJobs[s].seen.status = "active" /\ stRow.type \in StSql
StDumpStart(s) ==
  /\ StAt(s, "backup", "work")
  /\ IF StDumpOpens(s)
     THEN stDumps' = <<s>> \o stDumps /\ StGoto(s, "dump")
     ELSE StGoto(s, "fail") /\ UNCHANGED stDumps
  /\ UNCHANGED <<stRow, stServer, stQueue, stWeb, stFaults, stTorn, stAsked, stLeft>>

\* prune_backups: all but the newest, whatever they hold.
StPruned(dumps) == SubSeq(dumps, 1, IF Len(dumps) < StKeep THEN Len(dumps) ELSE StKeep)
\* The file of a dump by slot s becomes what: complete, or cut short.
StDumped(s, what) == [i \in DOMAIN stDumps |-> IF stDumps[i] = s THEN what ELSE stDumps[i]]

\* Mutant: the exit code of the dump is not checked.
StDumpUnchecked(s) ==
  /\ StAt(s, "backup", "dump")
  /\ \/ /\ stServer.db /\ stServer.pw = stJobs[s].seen.pw
        /\ stDumps' = StPruned(StDumped(s, "good"))
        /\ UNCHANGED stFaults
     \/ /\ IF stServer.db /\ stServer.pw = stJobs[s].seen.pw THEN StFault ELSE UNCHANGED stFaults
        /\ stDumps' = StPruned(StDumped(s, "partial"))
  /\ StGoto(s, "commit")
  /\ UNCHANGED <<stRow, stServer, stQueue, stWeb, stTorn, stAsked, stLeft>>

\* The dump succeeds if the server knows the database and the password that was
\* loaded; then old files are pruned. A failed one leaves its file behind. A dump is
\* "good" if all its bytes are there: the process writes them to the file past the
\* compression, so that of the format a .gz file has only the header and trailer.
StDump(s) ==
  /\ StAt(s, "backup", "dump")
  /\ \/ /\ stServer.db /\ stServer.pw = stJobs[s].seen.pw
        /\ stDumps' = StPruned(StDumped(s, "good"))
        /\ StGoto(s, "commit") /\ UNCHANGED stFaults
     \/ /\ IF stServer.db /\ stServer.pw = stJobs[s].seen.pw THEN StFault ELSE UNCHANGED stFaults
        /\ stDumps' = StDumped(s, "partial")
        /\ StGoto(s, "fail")
  /\ UNCHANGED <<stRow, stServer, stQueue, stWeb, stTorn, stAsked, stLeft>>

\* A session writes a column only if it differs from what it loaded.
StWrite(seen, field, value, old) == IF seen[field] = value THEN old[field] ELSE value

\* The last commit of each job. An UPDATE of a row that is gone raises and
\* changes nothing; the backup job writes its whole copy of config. Provisioning
\* sets the entries of config that the row was created with, which is no change.
StCommitted(s) ==
  LET seen == stJobs[s].seen
  IN IF stRow.status = "gone" THEN stRow
     ELSE CASE stJobs[s].job \in {"provision", "reset"} ->
                 [stRow EXCEPT !.status = StWrite(seen, "status", "active", stRow),
                               !.error = StWrite(seen, "error", "none", stRow)]
            [] stJobs[s].job = "deprovision" -> [stRow EXCEPT !.status = "gone", !.pw = 0]
            [] stJobs[s].job = "backup" -> [stRow EXCEPT !.enabled = seen.enabled, !.last = "ok"]
StCommit(s) ==
  /\ stJobs[s].pc = "commit"
  /\ stRow' = StCommitted(s)
  /\ stJobs' = [stJobs EXCEPT ![s] = StIdle]
  /\ UNCHANGED <<stServer, stDumps, stQueue, stWeb, stFaults, stTorn, stAsked, stLeft>>

\* The except branches: the error is stored; a failed reset is active again.
StFailed(s) ==
  LET seen == stJobs[s].seen
  IN IF stRow.status = "gone" THEN stRow
     ELSE CASE stJobs[s].job = "backup" -> [stRow EXCEPT !.enabled = seen.enabled, !.last = "failed"]
            [] stJobs[s].job = "reset" -> [stRow EXCEPT !.status = "active", !.error = "reset"]
            [] OTHER -> [stRow EXCEPT !.error = stJobs[s].job]
StFail(s) ==
  /\ stJobs[s].pc = "fail"
  /\ stRow' = StFailed(s)
  /\ stJobs' = [stJobs EXCEPT ![s] = StIdle]
  /\ UNCHANGED <<stServer, stDumps, stQueue, stWeb, stFaults, stTorn, stAsked, stLeft>>

\* The worker dies and the job is delivered again, or it exceeds its time and is
\* given up; its thread may have finished its work or not.
StInterrupt(s) ==
  /\ stJobs[s].pc # "idle" /\ StFault
  /\ stDumps' = StDumped(s, "partial")
  /\ \/ stQueue' = [stQueue EXCEPT ![stJobs[s].job] = @ + 1] /\ UNCHANGED stTorn
     \/ stTorn' = TRUE /\ UNCHANGED stQueue
  /\ stJobs' = [stJobs EXCEPT ![s] = StIdle]
  /\ UNCHANGED <<stRow, stServer, stWeb, stAsked, stLeft>>

StStep(s) == \/ \E k \in StKinds: StLoad(s, k)
             \/ StProvision(s) \/ StReset(s) \/ StDeprovision(s)
             \/ StDumpStart(s) \/ StDump(s) \/ StCommit(s) \/ StFail(s)
StNext ==
  \/ \E t \in StTypes: StCreate(t)
  \/ StRetry \/ StResetRequest \/ StDeleteRequest \/ StBackupSettings
  \/ StRotate \/ StRotateServer \/ StRotateCommit \/ StRotateCrash
  \/ StBackupEnqueue \/ StSchedule
  \/ \E s \in StSlots: StStep(s) \/ StInterrupt(s)

\* Workers take queued jobs and finish them; requests end; somebody opens the
\* page of a storage that stays pending.
StFairness == /\ \A s \in StSlots: WF_stVars(StStep(s))
              /\ WF_stVars(StRotateServer) /\ WF_stVars(StRotateCommit)
              /\ WF_stVars(StRetry)
StSpec == StInit /\ [][StNext]_stVars /\ StFairness
------------------------------------------------------------------------------
(* Properties.                                                               *)

StTypeOK == /\ stRow \in StRows
            /\ stServer \in [db: BOOLEAN, pw: StPasswords]
            /\ stDumps \in Seq(StSlots \cup {"good", "partial"})
            /\ stQueue \in [StKinds -> Nat]
            /\ stJobs \in [StSlots -> [job: StKinds \cup {"none"}, seen: StSeens,
                                       pc: {"idle", "work", "dump", "commit", "fail"}]]
            /\ stWeb \in StRotating
            /\ stFaults \in 0..StMaxFaults /\ stLeft \in 0..StMaxRequests
            /\ stTorn \in BOOLEAN /\ stAsked \in BOOLEAN

\* The password shown to the user opens the database: once nothing is under way,
\* an active storage exists and its server has the stored password, whatever was
\* provisioned, rotated, reset and failed, unless two writers overlapped, one was
\* cut short or the last job failed.
StPasswordAgrees ==
  stRow.status = "active" /\ stRow.error = "none" /\ StQuiet /\ ~stTorn
    => stServer.db /\ stServer.pw = stRow.pw

\* deprovision_storage leaves nothing behind: no database, no user who could
\* still log in and no backup, unless another job overlapped it.
StNothingLeft ==
  stRow.status = "gone" /\ StQuiet /\ ~stTorn
    => ~stServer.db /\ stServer.pw = 0 /\ stDumps = <<>>

\* Once a backup has been recorded as made, pruning always leaves a complete one,
\* however many dumps are cut short or follow, unless two writers overlapped.
StGoodKept ==
  stRow.last = "ok" /\ ~stAsked /\ ~stTorn => \E i \in DOMAIN stDumps: stDumps[i] = "good"

\* A deletion is carried out although provision and reset jobs that are still
\* queued or running write their own status over "deleted": unless something
\* fails, the storage is gone in the end.
StDeletionDone == []<>(stAsked => stRow.status = "gone" \/ stFaults < StMaxFaults)

\* A MariaDB storage whose provisioning failed, was lost or never started does
\* not stay pending: the retry of its page and the job's redelivery see to it.
StProvisioned == []<>~(stRow.type = "mariadb" /\ stRow.status = "pending")

\* A backup of an existing, active SQLite storage is made: create_backup says
\* "Backups are only supported for SQLite, MariaDB and PostgreSQL storage".
StSqliteSupported ==
  [][\A s \in StSlots:
       StAt(s, "backup", "work") /\ stRow.type = "database"
         /\ stJobs[s].seen.status = "active" /\ stServer.db
       => stJobs'[s].pc # "fail"]_stVars
==============================================================================
