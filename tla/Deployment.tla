------------------------------ MODULE Deployment ------------------------------
(***************************************************************************)
(* The life of deployments of one HTTP project: the web process that       *)
(* creates and cancels them, the arq job worker that starts, finalizes,    *)
(* fails and cleans them up, the monitor that polls their containers, the  *)
(* PostgreSQL rows they share and the Docker daemon they drive.            *)
(*                                                                         *)
(* Every process keeps the row it loaded in a session that is never        *)
(* refreshed (expire_on_commit=False) and writes back only the columns it  *)
(* changed, so each actor below carries the snapshot it loaded.            *)
(***************************************************************************)
EXTENDS Naturals, FiniteSets

CONSTANTS
  Deployments,    \* deployments the project will ever have
  None,           \* no deployment
  Slots,          \* concurrent jobs of the worker (max_jobs)
  Threshold,      \* docker_transient_failure_threshold
  MaxTries,       \* job_max_tries
  MaxCrashes,     \* bound: hard crashes of the job worker
  MaxFails,       \* bound: fail jobs of one deployment waiting in the queue
  UserCancels,    \* may users cancel?
  DockerFaults,   \* may Docker calls fail?
  Shutdowns       \* may the worker be stopped gracefully, or time a job out?

ASSUME NoneAssumption == None \notin Deployments
ASSUME SlotsAssumption == IsFiniteSet(Slots)
ASSUME ThresholdAssumption == Threshold \in Nat \ {0}
ASSUME MaxFailsAssumption == MaxFails \in Nat \ {0}
\* arq drops a job only on its MaxTries-th redelivery, which these crashes never reach.
ASSUME CrashAssumption == MaxCrashes \in Nat /\ MaxTries \in Nat /\ MaxCrashes < MaxTries
ASSUME FeatureAssumption ==
  UserCancels \in BOOLEAN /\ DockerFaults \in BOOLEAN /\ Shutdowns \in BOOLEAN

VARIABLES
  row,      \* the deployment table
  web,      \* progress of the request that creates each deployment
  cont,     \* Docker: the container named runner-<id> of each deployment
  queue,    \* Redis: waiting jobs per deployment and kind
  cleanups, \* Redis: waiting cleanup_inactive_containers jobs of the project
  slot,     \* the worker's running jobs
  aborting, \* Redis: deployments whose start job was asked to abort
  cancel,   \* the request that cancels each deployment
  mon,      \* the monitor: progress and cached object of each deployment
  outage,   \* docker_outage_counts
  expired,  \* deployments older than deployment_timeout_seconds
  answered, \* history: deployments whose app answered a probe
  crashes   \* hard crashes so far

rowVars == <<row, web>>
jobVars == <<queue, cleanups, slot, aborting>>
monVars == <<mon, outage, expired>>
vars == <<row, web, cont, queue, cleanups, slot, aborting, cancel, mon, outage,
          expired, answered, crashes>>

Statuses == {"prepare", "deploy", "finalize", "fail", "completed"}
Conclusions == {"none", "succeeded", "failed", "canceled"}
ContainerStatuses == {"none", "running", "stopped", "removed"}
Row == [status : Statuses, conclusion : Conclusions,
        cstat : ContainerStatuses, cid : Nat]
NewRow == [status |-> "prepare", conclusion |-> "none", cstat |-> "none", cid |-> 0]

Container == [gen : Nat, state : {"none", "created", "running", "exited"}]

Kinds == {"start", "finalize", "fail", "delete"}
StartSteps == {"s_loaded", "s_prepared", "s_created", "s_started", "s_saved", "s_aborted"}
FinalizeSteps == {"z_loaded", "z_concluded"}
FailSteps == {"f_loaded", "f_marked", "f_stopped", "f_gone", "f_clean"}
DeleteSteps == {"d_loaded", "d_deleted"}
CleanupSteps == {"c_scanning"}
Steps(k) == CASE k = "start"    -> StartSteps
              [] k = "finalize" -> FinalizeSteps
              [] k = "fail"     -> FailSteps
              [] k = "delete"   -> DeleteSteps

Marks == {"keep", "none", "stopped", "removed"}  \* what a cleanup did to a container
JobSteps == StartSteps \cup FinalizeSteps \cup FailSteps \cup DeleteSteps
SlotSteps == {"idle"} \cup JobSteps \cup CleanupSteps
Slot == [pc : SlotSteps, dep : Deployments \cup {None}, snap : Row, gen : Nat,
         todo : SUBSET (Deployments \X Nat), marks : [Deployments -> Marks]]
IdleSlot == [pc |-> "idle", dep |-> None, snap |-> NewRow, gen |-> 0,
             todo |-> {}, marks |-> [d \in Deployments |-> "keep"]]
IdleCancel == [pc |-> "idle", snap |-> NewRow, linked |-> FALSE]
CancelDone == [IdleCancel EXCEPT !.pc = "done"]
NotHeld == [pc |-> "idle", cid |-> 0, status |-> "deploy"]

-----------------------------------------------------------------------------
(* A commit writes the columns in which `new' differs from the loaded `old'. *)
Merge(db, old, new) ==
  [status     |-> IF new.status # old.status THEN new.status ELSE db.status,
   conclusion |-> IF new.conclusion # old.conclusion
                    THEN new.conclusion ELSE db.conclusion,
   cstat      |-> IF new.cstat # old.cstat THEN new.cstat ELSE db.cstat,
   cid        |-> IF new.cid # old.cid THEN new.cid ELSE db.cid]

Created(d) == web[d] # "idle"
Present(d, cid) == cont[d].state # "none" /\ cont[d].gen = cid
HasLiveContainer(r) == r.cid # 0 /\ r.cstat \notin {"removed", "stopped"}

Running(d, k) == {w \in Slots : slot[w].dep = d /\ slot[w].pc \in Steps(k)}
Alive(d, k) == queue[d][k] > 0 \/ Running(d, k) # {}

Enqueue(d, k) == queue' = [queue EXCEPT ![d][k] = @ + 1]

\* A free slot takes a waiting job and its session loads the row.
Take(w, d, k, pc) ==
  /\ slot[w].pc = "idle"
  /\ queue[d][k] > 0
  /\ queue' = [queue EXCEPT ![d][k] = @ - 1]
  /\ slot' = [slot EXCEPT ![w] = [IdleSlot EXCEPT !.pc = pc, !.dep = d, !.snap = row[d]]]

\* A free slot takes a waiting job that ends at once.
Discard(w, d, k) ==
  /\ slot[w].pc = "idle"
  /\ queue[d][k] > 0
  /\ queue' = [queue EXCEPT ![d][k] = @ - 1]
  /\ UNCHANGED slot

At(w, pc) == slot[w].pc = pc
Goto(w, pc) == slot' = [slot EXCEPT ![w].pc = pc]
Finish(w) == slot' = [slot EXCEPT ![w] = IdleSlot]

\* The job in slot w commits its object as `new' and goes to pc.
Commit(w, new, pc) ==
  LET d == slot[w].dep IN
  /\ row' = [row EXCEPT ![d] = Merge(@, slot[w].snap, new)]
  /\ slot' = [slot EXCEPT ![w].snap = new, ![w].pc = pc]

\* container.stop() of the container with id cid; its failure is ignored.
StopContainer(d, cid) ==
  \/ cont' = [cont EXCEPT ![d].state = IF @ = "running" /\ Present(d, cid) THEN "exited" ELSE @]
  \/ DockerFaults /\ UNCHANGED cont

Init ==
  /\ row = [d \in Deployments |-> NewRow]
  /\ web = [d \in Deployments |-> "idle"]
  /\ cont = [d \in Deployments |-> [gen |-> 0, state |-> "none"]]
  /\ queue = [d \in Deployments |-> [k \in Kinds |-> 0]]
  /\ cleanups = 0
  /\ slot = [w \in Slots |-> IdleSlot]
  /\ aborting = {}
  /\ cancel = [d \in Deployments |-> IdleCancel]
  /\ mon = [d \in Deployments |-> NotHeld]
  /\ outage = [d \in Deployments |-> 0]
  /\ expired = {}
  /\ answered = {}
  /\ crashes = 0

-----------------------------------------------------------------------------
(* The request that deploys commits the row, then enqueues the job. It       *)
(* records the job's id in a transaction of its own, which a cancel may      *)
(* precede and which a web process that dies never makes: see CancelLoad.    *)

Create(d) ==
  /\ web[d] = "idle"
  /\ web' = [web EXCEPT ![d] = "created"]
  /\ UNCHANGED <<row, cont, jobVars, cancel, monVars, answered, crashes>>

EnqueueStart(d) ==
  /\ web[d] = "created"
  /\ web' = [web EXCEPT ![d] = "enqueued"]
  /\ Enqueue(d, "start")
  /\ UNCHANGED <<row, cont, cleanups, slot, aborting, cancel, monVars, answered, crashes>>

-----------------------------------------------------------------------------
(* The request that cancels: a check of the loaded row, the commit, the      *)
(* abort of the start job (which waits for the job to end) and the stop of   *)
(* the container the loaded row names.                                       *)

Cancelable(r) == r.status \notin {"finalize", "fail", "completed"} /\ r.conclusion = "none"

CancelLoad(d) ==
  /\ UserCancels
  /\ Created(d) /\ cancel[d].pc = "idle"
  /\ Cancelable(row[d])
  /\ \E linked \in IF web[d] = "enqueued" THEN BOOLEAN ELSE {FALSE} :
       cancel' = [cancel EXCEPT ![d] = [pc |-> "loaded", snap |-> row[d], linked |-> linked]]
  /\ UNCHANGED <<rowVars, cont, jobVars, monVars, answered, crashes>>

CancelCommit(d) ==
  LET new == [cancel[d].snap EXCEPT !.status = "completed", !.conclusion = "canceled"] IN
  /\ cancel[d].pc = "loaded"
  /\ row' = [row EXCEPT ![d] = Merge(@, cancel[d].snap, new)]
  /\ cancel' = [cancel EXCEPT ![d].snap = new, ![d].pc = "committed"]
  /\ UNCHANGED <<web, cont, jobVars, monVars, answered, crashes>>

\* Of a job that has not ended Job.info() gives the definition, and the code asks
\* for its "success": the abort is sent if arq's definition has that attribute,
\* otherwise the request fails here, after its commit and before the stop.
CancelAbort(d) ==
  /\ cancel[d].pc = "committed"
  /\ \/ /\ cancel[d].linked /\ Alive(d, "start")
        /\ aborting' = aborting \cup {d}
        /\ cancel' = [cancel EXCEPT ![d].pc = "aborting"]
     \/ /\ cancel[d].linked /\ Alive(d, "start")
        /\ cancel' = [cancel EXCEPT ![d] = CancelDone]
        /\ UNCHANGED aborting
     \/ /\ ~(cancel[d].linked /\ Alive(d, "start"))
        /\ cancel' = [cancel EXCEPT ![d].pc = "stopping"]
        /\ UNCHANGED aborting
  /\ UNCHANGED <<rowVars, cont, queue, cleanups, slot, monVars, answered, crashes>>

CancelAborted(d) ==
  /\ cancel[d].pc = "aborting"
  /\ ~Alive(d, "start")
  /\ cancel' = [cancel EXCEPT ![d].pc = "stopping"]
  /\ UNCHANGED <<rowVars, cont, jobVars, monVars, answered, crashes>>

CancelStop(d) ==
  LET cid == cancel[d].snap.cid IN
  /\ cancel[d].pc = "stopping"
  /\ \/ /\ ~HasLiveContainer(cancel[d].snap)
        /\ cancel' = [cancel EXCEPT ![d] = CancelDone]
        /\ UNCHANGED <<cont, queue>>
     \/ /\ HasLiveContainer(cancel[d].snap) /\ Present(d, cid)
        /\ StopContainer(d, cid)
        /\ Enqueue(d, "delete")
        /\ cancel' = [cancel EXCEPT ![d].pc = "stopped"]
     \/ /\ HasLiveContainer(cancel[d].snap) /\ ~Present(d, cid)
        /\ cancel' = [cancel EXCEPT ![d].pc = "gone"]
        /\ UNCHANGED <<cont, queue>>
     \/ /\ HasLiveContainer(cancel[d].snap) /\ DockerFaults
        /\ cancel' = [cancel EXCEPT ![d] = CancelDone]
        /\ UNCHANGED <<cont, queue>>
  /\ UNCHANGED <<rowVars, cleanups, slot, aborting, monVars, answered, crashes>>

CancelStopped(d) ==
  LET cstat == IF cancel[d].pc = "stopped" THEN "stopped" ELSE "removed"
      new == [cancel[d].snap EXCEPT !.cstat = cstat] IN
  /\ cancel[d].pc \in {"stopped", "gone"}
  /\ row' = [row EXCEPT ![d] = Merge(@, cancel[d].snap, new)]
  /\ cancel' = [cancel EXCEPT ![d] = CancelDone]
  /\ UNCHANGED <<web, cont, jobVars, monVars, answered, crashes>>

CancelNext(d) ==
  \/ CancelCommit(d) \/ CancelAbort(d) \/ CancelAborted(d) \/ CancelStop(d) \/ CancelStopped(d)

-----------------------------------------------------------------------------
(* start_deployment. It never looks at what the loaded row says.             *)

StartLoad(w, d) ==
  /\ d \notin aborting
  /\ Take(w, d, "start", "s_loaded")
  /\ UNCHANGED <<rowVars, cont, cleanups, aborting, cancel, monVars, answered, crashes>>

\* arq drops a job that was aborted while it waited.
StartDropped(w, d) ==
  /\ d \in aborting
  /\ Discard(w, d, "start")
  /\ aborting' = aborting \ {d}
  /\ UNCHANGED <<rowVars, cont, cleanups, cancel, monVars, answered, crashes>>

StartPrepare(w) ==
  /\ At(w, "s_loaded")
  /\ Commit(w, [slot[w].snap EXCEPT !.status = "prepare"], "s_prepared")
  /\ UNCHANGED <<web, cont, queue, cleanups, aborting, cancel, monVars, answered, crashes>>

\* create_or_replace: the container with this deployment's name gets a new id.
NewContainer(d) ==
  cont' = [cont EXCEPT ![d] = [gen |-> @.gen + 1, state |-> "created"]]

StartCreate(w) ==
  LET d == slot[w].dep IN
  /\ At(w, "s_prepared")
  /\ NewContainer(d)
  /\ slot' = [slot EXCEPT ![w].pc = "s_created", ![w].gen = cont[d].gen + 1]
  /\ UNCHANGED <<rowVars, queue, cleanups, aborting, cancel, monVars, answered, crashes>>

StartContainer(w) ==
  /\ At(w, "s_created")
  /\ cont' = [cont EXCEPT ![slot[w].dep].state = "running"]
  /\ Goto(w, "s_started")
  /\ UNCHANGED <<rowVars, queue, cleanups, aborting, cancel, monVars, answered, crashes>>

\* Mutant: container_id is not recorded.
StartSaveWithoutId(w) ==
  /\ At(w, "s_started")
  /\ Commit(w, [slot[w].snap EXCEPT !.status = "deploy", !.cstat = "running"], "s_saved")
  /\ UNCHANGED <<web, cont, queue, cleanups, aborting, cancel, monVars, answered, crashes>>

StartSave(w) ==
  /\ At(w, "s_started")
  /\ Commit(w, [slot[w].snap EXCEPT !.status = "deploy", !.cstat = "running",
                                    !.cid = slot[w].gen], "s_saved")
  /\ UNCHANGED <<web, cont, queue, cleanups, aborting, cancel, monVars, answered, crashes>>

StartDone(w) ==
  /\ At(w, "s_saved")
  /\ Finish(w)
  /\ UNCHANGED <<rowVars, cont, queue, cleanups, aborting, cancel, monVars, answered,
                 crashes>>

\* Mutant: the handler forgets to enqueue fail_deployment.
StartFailsSilently(w) ==
  /\ At(w, "s_prepared") \/ (At(w, "s_created") /\ DockerFaults)
  /\ Finish(w)
  /\ UNCHANGED <<rowVars, cont, queue, cleanups, aborting, cancel, monVars, answered, crashes>>

\* Token, image or create fail before there is a container, container.start after.
StartFails(w) ==
  /\ At(w, "s_prepared") \/ (At(w, "s_created") /\ DockerFaults)
  /\ Enqueue(slot[w].dep, "fail")
  /\ Finish(w)
  /\ UNCHANGED <<rowVars, cont, cleanups, aborting, cancel, monVars, answered, crashes>>

\* Why a running start job gets a CancelledError: an abort, or a worker that stops.
Interrupted(d) ==
  \/ /\ d \in aborting
     /\ aborting' = aborting \ {d}
     /\ UNCHANGED crashes
  \/ /\ Shutdowns /\ crashes < MaxCrashes
     /\ crashes' = crashes + 1
     /\ UNCHANGED aborting

\* Without a container the handler swallows the error and the job is over. The
\* create call it interrupts may have reached Docker all the same.
StartInterrupted(w) ==
  LET d == slot[w].dep IN
  /\ slot[w].pc \in {"s_loaded", "s_prepared"}
  /\ Interrupted(d)
  /\ Finish(w)
  /\ \/ UNCHANGED cont
     \/ At(w, "s_prepared") /\ NewContainer(d)
  /\ UNCHANGED <<rowVars, queue, cleanups, cancel, monVars, answered>>

\* With a container it stops it, enqueues its deletion and concludes as canceled.
StartStops(w) ==
  LET d == slot[w].dep IN
  /\ slot[w].pc \in {"s_created", "s_started", "s_saved"}
  /\ Interrupted(d)
  /\ StopContainer(d, slot[w].gen)
  /\ Enqueue(d, "delete")
  /\ Goto(w, "s_aborted")
  /\ UNCHANGED <<rowVars, cleanups, cancel, monVars, answered>>

\* In a session of its own, so without a stale snapshot.
StartAborted(w) ==
  LET d == slot[w].dep IN
  /\ At(w, "s_aborted")
  /\ row' = [row EXCEPT ![d].status = "completed", ![d].conclusion = "canceled",
                        ![d].cstat = "stopped"]
  /\ Finish(w)
  /\ UNCHANGED <<web, cont, queue, cleanups, aborting, cancel, monVars, answered, crashes>>

StartNext(w) ==
  \/ StartPrepare(w) \/ StartCreate(w) \/ StartContainer(w) \/ StartSave(w)
  \/ StartDone(w) \/ StartFails(w) \/ StartInterrupted(w) \/ StartStops(w)
  \/ StartAborted(w)

-----------------------------------------------------------------------------
(* finalize_deployment. Its aliases and its Traefik file are the state of    *)
(* the module Routing; here they are a transaction that may fail.            *)

\* Mutant: finalize does not skip a canceled deployment.
FinalizeLoadAnyway(w, d) ==
  /\ Take(w, d, "finalize", "z_loaded")
  /\ UNCHANGED <<rowVars, cont, cleanups, aborting, cancel, monVars, answered, crashes>>

FinalizeLoad(w, d) ==
  /\ IF row[d].conclusion = "canceled"
       THEN Discard(w, d, "finalize")
       ELSE Take(w, d, "finalize", "z_loaded")
  /\ UNCHANGED <<rowVars, cont, cleanups, aborting, cancel, monVars, answered, crashes>>

FinalizeFails(w) ==
  /\ At(w, "z_loaded")
  /\ Enqueue(slot[w].dep, "fail")
  /\ Finish(w)
  /\ UNCHANGED <<rowVars, cont, cleanups, aborting, cancel, monVars, answered, crashes>>

FinalizeConclude(w) ==
  /\ At(w, "z_loaded")
  /\ Commit(w, [slot[w].snap EXCEPT !.status = "completed", !.conclusion = "succeeded"],
            "z_concluded")
  /\ UNCHANGED <<web, cont, queue, cleanups, aborting, cancel, monVars, answered, crashes>>

FinalizeDone(w) ==
  /\ At(w, "z_concluded")
  /\ cleanups' = cleanups + 1
  /\ Finish(w)
  /\ UNCHANGED <<rowVars, cont, queue, aborting, cancel, monVars, answered, crashes>>

FinalizeNext(w) == FinalizeFails(w) \/ FinalizeConclude(w) \/ FinalizeDone(w)

-----------------------------------------------------------------------------
(* fail_deployment: skip a concluded row, mark it, stop and schedule the     *)
(* deletion of the container the loaded row names, conclude as failed.       *)

FailLoad(w, d) ==
  /\ IF row[d].conclusion # "none"
       THEN Discard(w, d, "fail")
       ELSE Take(w, d, "fail", "f_loaded")
  /\ UNCHANGED <<rowVars, cont, cleanups, aborting, cancel, monVars, answered, crashes>>

FailMark(w) ==
  /\ At(w, "f_loaded")
  /\ Commit(w, [slot[w].snap EXCEPT !.status = "fail"], "f_marked")
  /\ UNCHANGED <<web, cont, queue, cleanups, aborting, cancel, monVars, answered, crashes>>

FailStop(w) ==
  LET d == slot[w].dep
      live == HasLiveContainer(slot[w].snap)
      present == Present(d, slot[w].snap.cid) IN
  /\ At(w, "f_marked")
  /\ \/ /\ live /\ present
        /\ StopContainer(d, slot[w].snap.cid)
        /\ Enqueue(d, "delete")
        /\ Goto(w, "f_stopped")
     \/ /\ live /\ ~present
        /\ Goto(w, "f_gone")
        /\ UNCHANGED <<cont, queue>>
     \/ /\ ~live \/ DockerFaults
        /\ Goto(w, "f_clean")
        /\ UNCHANGED <<cont, queue>>
  /\ UNCHANGED <<rowVars, cleanups, aborting, cancel, monVars, answered, crashes>>

FailStopped(w) ==
  /\ slot[w].pc \in {"f_stopped", "f_gone"}
  /\ Commit(w, [slot[w].snap EXCEPT
                  !.cstat = IF At(w, "f_stopped") THEN "stopped" ELSE "removed"], "f_clean")
  /\ UNCHANGED <<web, cont, queue, cleanups, aborting, cancel, monVars, answered, crashes>>

FailConclude(w) ==
  LET d == slot[w].dep IN
  /\ At(w, "f_clean")
  /\ row' = [row EXCEPT ![d] = Merge(@, slot[w].snap,
               [slot[w].snap EXCEPT !.status = "completed", !.conclusion = "failed"])]
  /\ Finish(w)
  /\ UNCHANGED <<web, cont, queue, cleanups, aborting, cancel, monVars, answered, crashes>>

FailNext(w) == FailMark(w) \/ FailStop(w) \/ FailStopped(w) \/ FailConclude(w)

-----------------------------------------------------------------------------
(* delete_container: the deferred removal of what the row names.             *)

DeleteLoad(w, d) ==
  /\ IF row[d].cid = 0
       THEN Discard(w, d, "delete")
       ELSE Take(w, d, "delete", "d_loaded")
  /\ UNCHANGED <<rowVars, cont, cleanups, aborting, cancel, monVars, answered, crashes>>

DeleteRemove(w) ==
  LET d == slot[w].dep IN
  /\ At(w, "d_loaded")
  /\ \/ /\ cont' = [cont EXCEPT ![d].state =
                      IF Present(d, slot[w].snap.cid) THEN "none" ELSE @]
        /\ Goto(w, "d_deleted")
     \/ /\ DockerFaults
        /\ StopContainer(d, slot[w].snap.cid)
        /\ Finish(w)
  /\ UNCHANGED <<rowVars, queue, cleanups, aborting, cancel, monVars, answered, crashes>>

DeleteCommit(w) ==
  LET d == slot[w].dep IN
  /\ At(w, "d_deleted")
  /\ row' = [row EXCEPT ![d] = Merge(@, slot[w].snap,
                                     [slot[w].snap EXCEPT !.cstat = "removed"])]
  /\ Finish(w)
  /\ UNCHANGED <<web, cont, queue, cleanups, aborting, cancel, monVars, answered, crashes>>

DeleteNext(w) == DeleteRemove(w) \/ DeleteCommit(w)

-----------------------------------------------------------------------------
(* cleanup_inactive_containers: one query for what no alias refers to, then  *)
(* Docker calls for each, then one commit if any container was stopped. What *)
(* the aliases refer to is Routing's state: here it is any set.              *)

Inactive(referenced) == {d \in Deployments \ referenced : /\ row[d].cid # 0
                                                         /\ row[d].cstat = "running"
                                                         /\ row[d].status = "completed"}

CleanupLoad(w) ==
  /\ At(w, "idle")
  /\ cleanups > 0
  /\ cleanups' = cleanups - 1
  /\ \E referenced \in SUBSET Deployments :
       slot' = [slot EXCEPT ![w] = [IdleSlot EXCEPT
                  !.pc = "c_scanning", !.todo = {<<d, row[d].cid>> : d \in Inactive(referenced)}]]
  /\ UNCHANGED <<rowVars, cont, queue, aborting, cancel, monVars, answered, crashes>>

CleanupOne(w, d, cid) ==
  LET Mark(m) == slot' = [slot EXCEPT ![w].todo = @ \ {<<d, cid>>}, ![w].marks[d] = m] IN
  /\ At(w, "c_scanning")
  /\ <<d, cid>> \in slot[w].todo
  /\ \/ /\ Present(d, cid)
        /\ cont' = [cont EXCEPT ![d].state = "none"]
        /\ Mark("removed")
     \/ /\ Present(d, cid) /\ DockerFaults     \* stopped, but not deleted
        /\ cont' = [cont EXCEPT ![d].state = "exited"]
        /\ Mark("stopped")
     \/ /\ ~Present(d, cid)
        /\ Mark("none")
        /\ UNCHANGED cont
     \/ /\ DockerFaults
        /\ Mark("keep")
        /\ UNCHANGED cont
  /\ UNCHANGED <<rowVars, queue, cleanups, aborting, cancel, monVars, answered, crashes>>

CleanupCommit(w) ==
  LET marks == slot[w].marks
      counted == \E d \in Deployments : marks[d] \in {"stopped", "removed"} IN
  /\ At(w, "c_scanning")
  /\ slot[w].todo = {}
  /\ row' = [d \in Deployments |-> IF counted /\ marks[d] # "keep"
                                     THEN [row[d] EXCEPT !.cstat = marks[d]] ELSE row[d]]
  /\ Finish(w)
  /\ UNCHANGED <<web, cont, queue, cleanups, aborting, cancel, monVars, answered, crashes>>

CleanupNext(w) ==
  \/ CleanupLoad(w) \/ CleanupCommit(w)
  \/ \E item \in slot[w].todo : CleanupOne(w, item[1], item[2])

-----------------------------------------------------------------------------
(* The worker dies, or is told to stop: its jobs go back to the queue. A job *)
(* that exceeds arq's timeout is over.                                       *)

Requeued(busy) ==
  /\ queue' = [d \in Deployments |-> [k \in Kinds |->
                 queue[d][k] + Cardinality(Running(d, k) \cap busy)]]
  /\ cleanups' = cleanups + Cardinality({w \in busy : slot[w].pc = "c_scanning"})
  /\ slot' = [w \in Slots |-> IF w \in busy THEN IdleSlot ELSE slot[w]]

WorkerCrash ==
  /\ crashes < MaxCrashes
  /\ \E w \in Slots : slot[w].pc # "idle"
  /\ Requeued(Slots)
  /\ crashes' = crashes + 1
  /\ UNCHANGED <<rowVars, cont, aborting, cancel, monVars, answered>>

\* Only start_deployment catches the CancelledError of a graceful stop.
WorkerStop(w) ==
  /\ Shutdowns /\ crashes < MaxCrashes
  /\ slot[w].pc \notin StartSteps \cup {"idle"}
  /\ Requeued({w})
  /\ crashes' = crashes + 1
  /\ UNCHANGED <<rowVars, cont, aborting, cancel, monVars, answered>>

\* start_deployment's handler makes of a timeout what it makes of an abort.
JobTimeout(w) ==
  /\ Shutdowns /\ crashes < MaxCrashes
  /\ slot[w].pc \notin StartSteps \cup {"idle"}
  /\ Finish(w)
  /\ crashes' = crashes + 1
  /\ UNCHANGED <<rowVars, cont, queue, cleanups, aborting, cancel, monVars, answered>>

-----------------------------------------------------------------------------
(* The monitor polls the deployments that are in deploy with a running       *)
(* container, all of them at once, and polls again when every check is done. *)
(* An object it held in the last poll is not refreshed by the next query.    *)

MonitorSelect ==
  LET selected == {d \in Deployments : /\ row[d].status = "deploy"
                                       /\ row[d].cstat = "running"}
      Held(d) == mon[d].cid # 0 IN
  /\ \A d \in Deployments : mon[d].pc = "idle"
  /\ selected # {} \/ \E d \in Deployments : Held(d)
  /\ mon' = [d \in Deployments |->
               IF d \notin selected THEN NotHeld
               ELSE IF Held(d) THEN [mon[d] EXCEPT !.pc = "check"]
               ELSE [pc |-> "check", cid |-> row[d].cid, status |-> row[d].status]]
  /\ UNCHANGED <<rowVars, cont, jobVars, cancel, outage, expired, answered, crashes>>

MonitorRest(d) == mon' = [mon EXCEPT ![d].pc = "idle"]

\* Enqueue a fail job and forget the outage count.
MonitorFail(d) ==
  /\ queue[d]["fail"] < MaxFails
  /\ Enqueue(d, "fail")
  /\ outage' = [outage EXCEPT ![d] = 0]
  /\ MonitorRest(d)

\* Mutant: a timeout is noticed but no job is enqueued.
MonitorTimeoutSilent(d) ==
  /\ mon[d].pc = "check" /\ d \in expired
  /\ outage' = [outage EXCEPT ![d] = 0]
  /\ MonitorRest(d)
  /\ UNCHANGED <<rowVars, cont, jobVars, cancel, expired, answered, crashes>>

MonitorTimeout(d) ==
  /\ mon[d].pc = "check" /\ d \in expired
  /\ MonitorFail(d)
  /\ UNCHANGED <<rowVars, cont, cleanups, slot, aborting, cancel, expired, answered,
                 crashes>>

\* Mutant: gives up one error too late.
MonitorTransientLate(d) ==
  /\ DockerFaults
  /\ mon[d].pc = "check" /\ d \notin expired
  /\ IF outage[d] + 1 > Threshold
       THEN MonitorFail(d)
       ELSE /\ outage' = [outage EXCEPT ![d] = @ + 1]
            /\ MonitorRest(d)
            /\ UNCHANGED queue
  /\ UNCHANGED <<rowVars, cont, cleanups, slot, aborting, cancel, expired, answered,
                 crashes>>

\* Docker cannot be reached: count, and give up at the threshold.
MonitorTransient(d) ==
  /\ DockerFaults
  /\ mon[d].pc = "check" /\ d \notin expired
  /\ IF outage[d] + 1 >= Threshold
       THEN MonitorFail(d)
       ELSE /\ outage' = [outage EXCEPT ![d] = @ + 1]
            /\ MonitorRest(d)
            /\ UNCHANGED queue
  /\ UNCHANGED <<rowVars, cont, cleanups, slot, aborting, cancel, expired, answered,
                 crashes>>

\* The container is not there, or Docker answers with another error.
MonitorLost(d) ==
  /\ mon[d].pc = "check" /\ d \notin expired
  /\ ~Present(d, mon[d].cid) \/ DockerFaults
  /\ MonitorFail(d)
  /\ UNCHANGED <<rowVars, cont, cleanups, slot, aborting, cancel, expired, answered,
                 crashes>>

MonitorExited(d) ==
  /\ mon[d].pc = "check" /\ d \notin expired
  /\ Present(d, mon[d].cid) /\ cont[d].state = "exited"
  /\ MonitorFail(d)
  /\ UNCHANGED <<rowVars, cont, cleanups, slot, aborting, cancel, expired, answered,
                 crashes>>

\* Mutant: the branch for the timeout does not return.
MonitorProbeExpired(d) ==
  /\ mon[d].pc = "check"
  /\ Present(d, mon[d].cid) /\ cont[d].state = "running"
  /\ outage' = [outage EXCEPT ![d] = 0]
  /\ mon' = [mon EXCEPT ![d].pc = "probe"]
  /\ UNCHANGED <<rowVars, cont, jobVars, cancel, expired, answered, crashes>>

MonitorProbe(d) ==
  /\ mon[d].pc = "check" /\ d \notin expired
  /\ Present(d, mon[d].cid) /\ cont[d].state = "running"
  /\ outage' = [outage EXCEPT ![d] = 0]
  /\ mon' = [mon EXCEPT ![d].pc = "probe"]
  /\ UNCHANGED <<rowVars, cont, jobVars, cancel, expired, answered, crashes>>

\* Mutant: the result of the probe is ignored.
MonitorNotReadyIgnored(d) ==
  /\ mon[d].pc = "probe"
  /\ mon' = [mon EXCEPT ![d].pc = "ready"]
  /\ UNCHANGED <<rowVars, cont, jobVars, cancel, outage, expired, answered, crashes>>

MonitorNotReady(d) ==
  /\ mon[d].pc = "probe"
  /\ MonitorRest(d)
  /\ UNCHANGED <<rowVars, cont, jobVars, cancel, outage, expired, answered, crashes>>

\* The app answered on port 8000: commit the status, with the held object's snapshot.
MonitorReady(d) ==
  /\ mon[d].pc = "probe"
  /\ Present(d, mon[d].cid) /\ cont[d].state = "running"
  /\ answered' = answered \cup {d}
  /\ row' = [row EXCEPT ![d].status = IF mon[d].status # "finalize" THEN "finalize" ELSE @]
  /\ mon' = [mon EXCEPT ![d].pc = "ready", ![d].status = "finalize"]
  /\ UNCHANGED <<web, cont, jobVars, cancel, outage, expired, crashes>>

MonitorHandOff(d) ==
  /\ mon[d].pc = "ready"
  /\ Enqueue(d, "finalize")
  /\ outage' = [outage EXCEPT ![d] = 0]
  /\ MonitorRest(d)
  /\ UNCHANGED <<rowVars, cont, cleanups, slot, aborting, cancel, expired, answered,
                 crashes>>

MonitorNext(d) ==
  \/ MonitorTimeout(d) \/ MonitorTransient(d) \/ MonitorLost(d) \/ MonitorExited(d)
  \/ MonitorProbe(d) \/ MonitorNotReady(d) \/ MonitorReady(d) \/ MonitorHandOff(d)

-----------------------------------------------------------------------------
(* The environment: time passes, and the user's app ends by itself. Only a   *)
(* monitor's check reads the age, so it may as well pass right before one.   *)

Expire(d) ==
  /\ mon[d].pc = "check" /\ d \notin expired
  /\ expired' = expired \cup {d}
  /\ UNCHANGED <<rowVars, cont, jobVars, cancel, mon, outage, answered, crashes>>

AppExit(d) ==
  /\ cont[d].state = "running"
  /\ cont' = [cont EXCEPT ![d].state = "exited"]
  /\ UNCHANGED <<rowVars, jobVars, cancel, monVars, answered, crashes>>

TakeJob(w, d) ==
  \/ StartLoad(w, d) \/ StartDropped(w, d) \/ FinalizeLoad(w, d)
  \/ FailLoad(w, d) \/ DeleteLoad(w, d)

WorkerNext(w) ==
  \/ \E d \in Deployments : TakeJob(w, d)
  \/ StartNext(w) \/ FinalizeNext(w) \/ FailNext(w) \/ DeleteNext(w) \/ CleanupNext(w)

Next ==
  \/ \E d \in Deployments :
       \/ Create(d) \/ EnqueueStart(d)
       \/ CancelLoad(d) \/ CancelNext(d)
       \/ MonitorNext(d) \/ Expire(d) \/ AppExit(d)
  \/ \E w \in Slots : WorkerNext(w) \/ WorkerStop(w) \/ JobTimeout(w)
  \/ MonitorSelect
  \/ WorkerCrash

Spec == Init /\ [][Next]_vars

-----------------------------------------------------------------------------
(* Every field has its type; the job of a slot is about some deployment.     *)
TypeOK ==
  /\ row \in [Deployments -> Row]
  /\ web \in [Deployments -> {"idle", "created", "enqueued"}]
  /\ cont \in [Deployments -> Container]
  /\ queue \in [Deployments -> [Kinds -> Nat]]
  /\ cleanups \in Nat
  /\ slot \in [Slots -> Slot]
  /\ \A w \in Slots : slot[w].pc \in JobSteps => slot[w].dep \in Deployments
  /\ aborting \subseteq Deployments
  /\ cancel \in [Deployments -> [pc : {"idle", "loaded", "committed", "aborting", "stopping",
                                       "stopped", "gone", "done"},
                                 snap : Row, linked : BOOLEAN]]
  /\ mon \in [Deployments -> [pc : {"idle", "check", "probe", "ready"}, cid : Nat,
                              status : Statuses]]
  /\ outage \in [Deployments -> 0 .. Threshold - 1]
  /\ expired \subseteq Deployments
  /\ answered \subseteq Deployments
  /\ crashes \in 0 .. MaxCrashes

(* The baton is never dropped: a deployment without a conclusion always has  *)
(* some process that will still act on it, a job waiting or running, the     *)
(* request that is about to enqueue one, or a monitor that will poll it.     *)
Concluded(d) == row[d].conclusion # "none"
Settled(d) == Concluded(d) \/ Alive(d, "fail")
Deployed(d) == \/ row[d].status = "deploy" /\ row[d].cstat = "running"
               \/ mon[d].pc = "ready"
               \/ Alive(d, "finalize")

SomeoneResponsible ==
  \A d \in Deployments :
    Created(d) => web[d] = "created" \/ Alive(d, "start") \/ Deployed(d) \/ Settled(d)

(* No traffic to an app that never answered: finalize jobs, which point the  *)
(* aliases and Traefik at a deployment, and the conclusion "succeeded" exist *)
(* only for deployments whose app answered the monitor's probe.              *)
AnsweredFirst ==
  \A d \in Deployments :
    Alive(d, "finalize") \/ row[d].conclusion = "succeeded" => d \in answered

(* A cancel is only ever overwritten by a job that loaded the row before the *)
(* cancel was committed: whoever loads a canceled row leaves it canceled.    *)
CanceledLostOnlyToStaleReader ==
  [][\A d \in Deployments :
       row[d].conclusion = "canceled" /\ row'[d].conclusion # "canceled" =>
         \E w \in Slots : slot[w].dep = d /\ slot[w].snap.conclusion # "canceled"]_vars

(* As long as Docker does what it is told: whichever of several fail jobs    *)
(* concludes a deployment, the container that was started last has stopped.  *)
FailedIsStopped ==
  \A d \in Deployments :
    row[d].conclusion = "failed" => cont[d].state \in {"none", "exited"}

-----------------------------------------------------------------------------
(* Inductive invariants behind AnsweredFirst and SomeoneResponsible.         *)

\* Who may lead a deployment to success knows that its app answered.
AnsweredInv ==
  \A d \in Deployments :
    mon[d].pc = "ready" \/ Alive(d, "finalize") \/ row[d].conclusion = "succeeded"
      => d \in answered

\* Everything that presumes a conclusion finds one in the table.
ConclusionInv ==
  /\ \A d \in Deployments :
       \/ row[d].status = "completed"
       \/ d \in aborting
       \/ cancel[d].pc \notin {"idle", "loaded"}
       => Concluded(d)
  /\ \A d \in Deployments : cancel[d].pc = "loaded" => cancel[d].snap.conclusion = "none"
  /\ \A w \in Slots :
       /\ /\ slot[w].pc \in JobSteps
          /\ slot[w].snap.conclusion # "none" \/ slot[w].pc \in {"s_aborted", "z_concluded"}
          => Concluded(slot[w].dep)
       /\ \A item \in slot[w].todo : Concluded(item[1])
       /\ \A d \in Deployments : slot[w].marks[d] # "keep" => Concluded(d)

\* A deletion is owed only to a deployment that failed or concluded.
DeletionInv == \A d \in Deployments : Alive(d, "delete") => Settled(d)

\* A start job that believes its container is running is right, or it is too late.
StartInv ==
  \A w \in Slots :
    /\ slot[w].pc \in {"s_prepared", "s_created", "s_started"} => slot[w].snap.status = "prepare"
    /\ /\ slot[w].pc \in {"s_loaded", "s_prepared", "s_created", "s_started"}
       /\ slot[w].snap.cstat = "running"
       => row[slot[w].dep].cstat = "running" \/ Settled(slot[w].dep)

\* A start job that has saved its container carries the baton no longer.
Starting(d) ==
  \/ web[d] = "created"
  \/ queue[d]["start"] > 0
  \/ \E w \in Slots : slot[w].dep = d /\ slot[w].pc \in StartSteps \ {"s_saved"}

BatonInv == \A d \in Deployments : Created(d) => Starting(d) \/ Deployed(d) \/ Settled(d)

-----------------------------------------------------------------------------
\* The documented lifecycle: DeploymentLifecycle with the statuses of the rows.
Lifecycle == INSTANCE DeploymentLifecycle WITH
  phase <- [d \in Deployments |-> IF Created(d) THEN row[d].status ELSE "absent"],
  conclusion <- [d \in Deployments |-> row[d].conclusion]

(* The rows move through the documented statuses and keep their conclusion.  *)
LifecycleOrder == Lifecycle!Spec

-----------------------------------------------------------------------------
(* The processes keep running and time passes; users, faults and the app     *)
(* owe nothing.                                                              *)
Fairness ==
  /\ \A d \in Deployments : /\ WF_vars(EnqueueStart(d))
                            /\ WF_vars(CancelNext(d))
                            /\ WF_vars(MonitorNext(d))
                            /\ SF_vars(Expire(d))
  /\ WF_vars(MonitorSelect)
  /\ WF_vars(\E w \in Slots : WorkerNext(w))

FairSpec == Spec /\ Fairness

(* The runner of a canceled deployment is eventually removed.                *)
CanceledIsRemoved ==
  \A d \in Deployments : row[d].conclusion = "canceled" ~> cont[d].state = "none"

(* Every deployment that was created reaches a conclusion.                   *)
EventuallyConcludes ==
  \A d \in Deployments : Created(d) ~> row[d].conclusion # "none"
==============================================================================
