-------------------------------- MODULE Links ---------------------------------
(* The storages of a project: which environments each is connected to, and   *)
(* what a deployment gets of them when its container is made, the password   *)
(* of a database and the path and mount of a file or volume                  *)
(* (app/routers/project.py and team.py, app/forms/storage.py,                *)
(* app/services/deployment.py get_runtime_env_vars and get_runtime_mounts).  *)
(*                                                                           *)
(* The session of start_deployment writes the password it read back with the  *)
(* next query and commits once the container runs, a row lock in between.    *)
(* Left out: the names of the variables and what a project's own variables   *)
(* override, storages being reset (treated as active ones), and the jobs of  *)
(* Storage, of which only the effect on the row and the server is kept. A    *)
(* container is never told of a later change.                                *)
EXTENDS Integers, FiniteSets

CONSTANTS LnSql, LnFiles,      \* databases on a server; SQLite files and volumes
          LnEnvs,              \* environments the project ever has, "prod" too
          LnMaxChanges,        \* bound: connections, deletions and rotations
          LnMaxStarts          \* bound: deployments

ASSUME LnAssumption == /\ LnSql \cap LnFiles = {} /\ "prod" \in LnEnvs /\ "none" \notin LnEnvs
                       /\ {LnMaxChanges, LnMaxStarts} \subseteq Nat

LnStorages == LnSql \cup LnFiles

VARIABLES
  lnStatus,    \* of each storage: "pending", "active", "deleted", "gone"
  lnLinks,     \* its environment_ids, {} for all of them, or LnUnlinked
  lnDead,      \* environments that were deleted
  lnPassword,  \* stored password of a database, a version
  lnServer,    \* password the server knows; 0 is no user
  lnRotating,  \* databases with a rotation between the server and the commit
  lnEditing,   \* a request that connects a storage, checked and not committed
  lnStarts,    \* the deployment being started in each environment
  lnRuns,      \* the last container of each environment
  lnLeft       \* changes and deployments still allowed

lnVars == <<lnStatus, lnLinks, lnDead, lnPassword, lnServer, lnRotating, lnEditing, lnStarts, lnRuns, lnLeft>>

LnUnlinked == {"none"}
\* What a container has: passwords of databases (0 is none), paths in its
\* variables, mounts. History: the storages that changed since its preparation
\* began.
LnNothing == [pc |-> "idle", passwords |-> [s \in LnSql |-> 0],
              paths |-> {}, mounts |-> {}, touched |-> {}]
LnNoEdit == [storage |-> "none", envs |-> {}, update |-> FALSE]

\* Mutant: environments that were deleted are dropped from the list.
LnReachesAlive(s, e) == lnLinks[s] # LnUnlinked /\ (lnLinks[s] \ lnDead = {} \/ e \in lnLinks[s])
\* An association without environments is for all of them.
LnReaches(s, e) == lnLinks[s] # LnUnlinked /\ (lnLinks[s] = {} \/ e \in lnLinks[s])
LnUsable(s) == lnStatus[s] \notin {"pending", "deleted", "gone"}

\* Containers, made or in preparation, keep what they were given of these.
LnTouched(starts, storages) ==
  /\ lnRuns' = [e \in LnEnvs |-> [lnRuns[e] EXCEPT !.touched = @ \cup storages]]
  /\ lnStarts' = [e \in LnEnvs |-> [starts[e] EXCEPT !.touched = @ \cup storages]]
LnTouch(s) == LnTouched(lnStarts, {s})
LnChange == lnLeft.changes > 0 /\ lnLeft' = [lnLeft EXCEPT !.changes = @ - 1]
\* Rows written and not committed: others that write them wait.
LnHolds(e) == {s \in LnSql: lnStarts[e].pc \in {"mounts", "commit"} /\ lnStarts[e].passwords[s] # 0}
LnFree(s) == \A e \in LnEnvs: s \notin LnHolds(e)

LnInit == /\ lnStatus \in [LnStorages -> {"pending", "active", "gone"}]
          /\ lnLinks \in [LnStorages -> {LnUnlinked} \cup SUBSET LnEnvs]
          /\ \A s \in LnStorages: lnStatus[s] = "gone" => lnLinks[s] = LnUnlinked
          /\ lnDead = {}
          /\ lnPassword = [s \in LnSql |-> 1]
          /\ lnServer = [s \in LnSql |-> IF lnStatus[s] = "active" THEN 1 ELSE 0]
          /\ lnRotating = [s \in LnSql |-> 0]
          /\ lnEditing = LnNoEdit
          /\ lnStarts = [e \in LnEnvs |-> LnNothing]
          /\ lnRuns = [e \in LnEnvs |-> LnNothing]
          /\ lnLeft = [changes |-> LnMaxChanges, starts |-> LnMaxStarts]
------------------------------------------------------------------------------
(* Storages, as Storage has them.                                            *)

LnProvision(s) ==
  /\ lnStatus[s] = "pending"
  /\ lnStatus' = [lnStatus EXCEPT ![s] = "active"]
  /\ lnServer' = [d \in LnSql |-> IF d = s THEN lnPassword[d] ELSE lnServer[d]]
  /\ LnTouch(s)
  /\ UNCHANGED <<lnLinks, lnDead, lnPassword, lnRotating, lnEditing, lnLeft>>
LnMark(s) ==
  /\ LnChange /\ lnStatus[s] \in {"pending", "active"}
  /\ lnStatus' = [lnStatus EXCEPT ![s] = "deleted"]
  /\ LnTouch(s)
  /\ UNCHANGED <<lnLinks, lnDead, lnPassword, lnServer, lnRotating, lnEditing>>
\* Mutant: the links are left behind.
LnUnlinkedNone(s) == lnLinks
LnUnlinkedFrom(s) == [lnLinks EXCEPT ![s] = LnUnlinked]
\* deprovision_storage: its links go with the row.
LnDeprovision(s) ==
  /\ lnStatus[s] = "deleted" /\ LnFree(s)
  /\ lnStatus' = [lnStatus EXCEPT ![s] = "gone"]
  /\ lnLinks' = LnUnlinkedFrom(s)
  /\ lnServer' = [d \in LnSql |-> IF d = s THEN 0 ELSE lnServer[d]]
  /\ LnTouch(s)
  /\ UNCHANGED <<lnDead, lnPassword, lnRotating, lnEditing, lnLeft>>

\* rotate_user_password, on the server and then, unless the process dies, in the
\* row, if that is still there.
LnRotate(s) ==
  /\ LnChange /\ lnStatus[s] = "active" /\ lnRotating[s] = 0
  /\ LET new == 1 + (IF lnPassword[s] > lnServer[s] THEN lnPassword[s] ELSE lnServer[s])
     IN lnServer' = [lnServer EXCEPT ![s] = new] /\ lnRotating' = [lnRotating EXCEPT ![s] = new]
  /\ LnTouch(s)
  /\ UNCHANGED <<lnStatus, lnLinks, lnDead, lnPassword, lnEditing>>
LnRotated(s) ==
  /\ lnRotating[s] # 0
  /\ \/ lnStatus[s] # "gone" /\ LnFree(s) /\ lnPassword' = [lnPassword EXCEPT ![s] = lnRotating[s]]
     \/ UNCHANGED lnPassword
  /\ lnRotating' = [lnRotating EXCEPT ![s] = 0]
  /\ LnTouch(s)
  /\ UNCHANGED <<lnStatus, lnLinks, lnDead, lnServer, lnEditing, lnLeft>>
------------------------------------------------------------------------------
(* Connections.                                                              *)

\* project_storage and team_storage_settings, connect and update: storages not
\* marked as deleted, and any environment the project ever had ...
LnEdit(s, envs) ==
  /\ LnChange /\ lnEditing = LnNoEdit /\ lnStatus[s] \in {"pending", "active"}
  /\ lnEditing' = [storage |-> s, envs |-> envs, update |-> lnLinks[s] # LnUnlinked]
  /\ UNCHANGED <<lnStatus, lnLinks, lnDead, lnPassword, lnServer, lnRotating, lnStarts, lnRuns>>
\* ... and the insert, of a storage that may be marked as deleted by now, or the
\* update of an association that may be gone.
LnSaveable == /\ lnStatus[lnEditing.storage] # "gone"
              /\ lnEditing.update => lnLinks[lnEditing.storage] # LnUnlinked
LnSave ==
  /\ lnEditing # LnNoEdit
  /\ lnEditing' = LnNoEdit
  /\ IF LnSaveable
     THEN lnLinks' = [lnLinks EXCEPT ![lnEditing.storage] = lnEditing.envs] /\ LnTouch(lnEditing.storage)
     ELSE UNCHANGED <<lnLinks, lnStarts, lnRuns>>
  /\ UNCHANGED <<lnStatus, lnDead, lnPassword, lnServer, lnRotating, lnLeft>>
LnDisconnect(s) ==
  /\ LnChange /\ lnLinks[s] # LnUnlinked
  /\ lnLinks' = LnUnlinkedFrom(s)
  /\ LnTouch(s)
  /\ UNCHANGED <<lnStatus, lnDead, lnPassword, lnServer, lnRotating, lnEditing>>
\* delete_environment leaves the associations as they are.
LnDeleteEnvironment(e) ==
  /\ LnChange /\ e \notin lnDead \cup {"prod"}
  /\ lnDead' = lnDead \cup {e}
  /\ UNCHANGED <<lnStatus, lnLinks, lnPassword, lnServer, lnRotating, lnEditing, lnStarts, lnRuns>>
------------------------------------------------------------------------------
(* start_deployment.                                                         *)

LnAt(e, pc) == lnStarts[e].pc = pc

\* ensure_storage_admin_user, for each association that reaches the environment.
LnPasswordFor(s, e) == IF LnUsable(s) /\ LnReaches(s, e) THEN lnPassword[s] ELSE 0
\* get_runtime_env_vars: the databases and their passwords ...
LnRead(e) ==
  /\ LnAt(e, "idle") /\ lnLeft.starts > 0 /\ e \notin lnDead
  /\ lnLeft' = [lnLeft EXCEPT !.starts = @ - 1]
  /\ lnStarts' = [lnStarts EXCEPT ![e] = [LnNothing EXCEPT
       !.pc = "grant",
       !.passwords = [s \in LnSql |-> LnPasswordFor(s, e)]]]
  /\ UNCHANGED <<lnStatus, lnLinks, lnDead, lnPassword, lnServer, lnRotating, lnEditing, lnRuns>>

\* Mutant: an existing user keeps its password.
LnGrantedNew(e, s) == IF lnServer[s] = 0 THEN lnStarts[e].passwords[s] ELSE lnServer[s]
\* ensure_user_access: create the user or alter it.
LnGranted(e, s) == lnStarts[e].passwords[s]
\* ... which ensure_storage_admin_user gives to the server once more, be they
\* older by now; a user it makes for a database dropped meanwhile is not looked at.
LnGrant(e) ==
  LET given == {s \in LnSql: lnStarts[e].passwords[s] # 0 /\ lnStatus[s] # "gone"}
  IN /\ LnAt(e, "grant")
     /\ lnServer' = [s \in LnSql |-> IF s \in given THEN LnGranted(e, s) ELSE lnServer[s]]
     /\ LnTouched([lnStarts EXCEPT ![e].pc = "paths"], given \cap lnStarts[e].touched)
     /\ UNCHANGED <<lnStatus, lnLinks, lnDead, lnPassword, lnRotating, lnEditing, lnLeft>>
\* The next query writes the passwords back, which fails if a row is gone, and
\* reads the paths of files and volumes.
LnPaths(e) ==
  LET read == {s \in LnSql: lnStarts[e].passwords[s] # 0}
  IN /\ LnAt(e, "paths")
     /\ \A s \in read: LnFree(s)
     /\ lnStarts' = [lnStarts EXCEPT ![e] =
          IF \E s \in read: lnStatus[s] = "gone" THEN LnNothing
          ELSE [@ EXCEPT !.pc = "mounts",
                         !.paths = {s \in LnFiles: LnUsable(s) /\ LnReaches(s, e)}]]
     /\ UNCHANGED <<lnStatus, lnLinks, lnDead, lnPassword, lnServer, lnRotating, lnEditing, lnRuns, lnLeft>>

\* Mutant: volumes that do not exist yet are mounted.
LnMountablePending(s) == lnStatus[s] # "gone" /\ lnLinks[s] # LnUnlinked
\* get_runtime_mounts asks for the rows again.
LnMountable(s) == LnUsable(s) /\ lnLinks[s] # LnUnlinked
\* An association the session still holds is not read again. The container.
LnMounts(e) ==
  LET start == lnStarts[e]
      Found == {s \in LnFiles: LnMountable(s)}
      Sure == {s \in Found: s \in start.paths /\ LnReaches(s, e)}
      Maybe == {s \in Found: s \in start.paths \/ LnReaches(s, e)}
  IN /\ LnAt(e, "mounts")
     /\ \E mounts \in SUBSET Maybe:
          /\ Sure \subseteq mounts
          /\ lnRuns' = [lnRuns EXCEPT ![e] = [start EXCEPT !.pc = "runs", !.mounts = mounts]]
     /\ lnStarts' = [lnStarts EXCEPT ![e].pc = "commit"]
     /\ UNCHANGED <<lnStatus, lnLinks, lnDead, lnPassword, lnServer, lnRotating, lnEditing, lnLeft>>
\* update_status: the passwords read are those stored, also over a rotation.
LnCommit(e) ==
  /\ LnAt(e, "commit")
  /\ lnPassword' = [s \in LnSql |-> IF s \in LnHolds(e) THEN lnStarts[e].passwords[s] ELSE lnPassword[s]]
  /\ LnTouched([lnStarts EXCEPT ![e] = LnNothing], LnHolds(e) \cap lnStarts[e].touched)
  /\ UNCHANGED <<lnStatus, lnLinks, lnDead, lnServer, lnRotating, lnEditing, lnLeft>>
\* The job is cancelled, fails or dies: nothing is stored.
LnAbort(e) ==
  /\ ~LnAt(e, "idle")
  /\ lnStarts' = [lnStarts EXCEPT ![e] = LnNothing]
  /\ UNCHANGED <<lnStatus, lnLinks, lnDead, lnPassword, lnServer, lnRotating, lnEditing, lnRuns, lnLeft>>

LnNext ==
  \/ \E s \in LnStorages:
       \/ LnProvision(s) \/ LnMark(s) \/ LnDeprovision(s) \/ LnDisconnect(s)
       \/ \E envs \in SUBSET LnEnvs: LnEdit(s, envs)
  \/ \E s \in LnSql: LnRotate(s) \/ LnRotated(s)
  \/ LnSave
  \/ \E e \in LnEnvs: \/ LnDeleteEnvironment(e) \/ LnRead(e) \/ LnGrant(e) \/ LnPaths(e)
                      \/ LnMounts(e) \/ LnCommit(e) \/ LnAbort(e)
LnSpec == LnInit /\ [][LnNext]_lnVars
------------------------------------------------------------------------------
LnTypeOK ==
  /\ lnStatus \in [LnStorages -> {"pending", "active", "deleted", "gone"}]
  /\ \A s \in LnStorages: lnLinks[s] = LnUnlinked \/ (lnLinks[s] \subseteq LnEnvs /\ lnStatus[s] # "gone")
  /\ lnPassword \in [LnSql -> Nat] /\ lnServer \in [LnSql -> Nat] /\ lnRotating \in [LnSql -> Nat]

\* The storages a container was given and whose rows have not changed since its
\* preparation began.
LnHas(e) == lnRuns[e].paths \cup lnRuns[e].mounts
            \cup {s \in LnSql: lnRuns[e].passwords[s] # 0}
LnSettled(e) == IF lnRuns[e].pc = "idle" THEN {} ELSE LnStorages \ lnRuns[e].touched

\* A container logs in: the password it was given is the one the server knows,
\* whatever rotations, also ones cut short, and deployments of the other
\* environments do before and after, unless its own was rotated meanwhile or a
\* deployment prepared across a rotation brings an older one back.
LnSecretsWork ==
  \A e \in LnEnvs: \A s \in LnSql \cap LnSettled(e) \cap LnHas(e): lnRuns[e].passwords[s] = lnServer[s]

\* A path in the variables of a container is a mount of it and the other way
\* round, although they come from different queries.
LnPathsMounted ==
  \A e \in LnEnvs: LnSettled(e) \cap lnRuns[e].paths = LnSettled(e) \cap lnRuns[e].mounts

\* A storage connected to some environments is given to no other one, also when
\* all of its environments have been deleted.
LnFenced ==
  \A e \in LnEnvs: \A s \in LnSettled(e) \cap LnHas(e):
    lnLinks[s] # LnUnlinked /\ \A o \in LnEnvs: o \in lnLinks[s] => e \in lnLinks[s]
==============================================================================
