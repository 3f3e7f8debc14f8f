----------------------------- MODULE FailureProofs -----------------------------
(***************************************************************************)
(* Theorems about runs in which Docker obeys and no worker dies: the       *)
(* container of a deployment concluded as failed does not run, and, unless *)
(* users cancel, the rows follow the lifecycle of DeploymentLifecycle.     *)
(***************************************************************************)
EXTENDS DeploymentProofs

(* A container is only ever started by the first steps of the start job, of  *)
(* which there is one. Calm(d): they are behind d, its container only stops. *)
Launching == {"s_loaded", "s_prepared", "s_created", "s_started"}
Launches(w, d) == slot[w].dep = d /\ slot[w].pc \in Launching
Calm(d) == /\ web[d] = "enqueued" /\ queue[d]["start"] = 0
           /\ \A w \in Slots : ~Launches(w, d)
Names(d, cid) == Calm(d) /\ cid = cont[d].gen /\ cont[d].state # "created"
Stopped(d) == Calm(d) /\ cont[d].state # "running"
Deleted(d) == Calm(d) /\ cont[d].state = "none"
Launched(d) == /\ Calm(d) /\ cont[d].state # "created"
               /\ row[d].cid # 0 \/ cont[d].state = "none"

\* There is one start job, and before it creates the container there is none.
OneStart(d) ==
  /\ queue[d]["start"] \in {0, 1}
  /\ web[d] # "enqueued" => queue[d]["start"] = 0
  /\ web[d] # "enqueued" \/ queue[d]["start"] = 1 =>
       cont[d].state = "none" /\ \A w \in Slots : ~Launches(w, d)
  /\ \A w, v \in Slots : Launches(w, d) /\ Launches(v, d) => w = v

\* Who may lead a deployment to failure finds the start job over.
Failing(d) ==
  \/ Alive(d, "fail") \/ Alive(d, "finalize") \/ mon[d].pc # "idle"
  \/ row[d].status \in {"deploy", "finalize", "fail"}
FailingLate(d) == Failing(d) => Launched(d)

\* What the columns of a row, or the snapshot of one, say of the container.
CidTrue(d) == row[d].cid # 0 => Names(d, row[d].cid)
StatusTrue(d) == row[d].cstat \in {"stopped", "removed"} => Stopped(d)
FailedTrue(d) == row[d].conclusion = "failed" => Stopped(d) /\ cont[d].state # "created"

\* What the job in slot w knows of its container, or of those it tidies up.
JobKnows(w) ==
  LET d == slot[w].dep
      s == slot[w].snap IN
  /\ slot[w].pc \in Launching => s.cid = 0
  /\ slot[w].pc \in {"s_loaded", "s_prepared"} => cont[d].state = "none"
  /\ slot[w].pc \in {"s_created", "s_started", "s_saved"} =>
       slot[w].gen = cont[d].gen /\ slot[w].gen # 0
  /\ slot[w].pc = "s_started" => cont[d].state \in {"running", "exited"}
  /\ slot[w].pc = "s_saved" => Calm(d)
  /\ slot[w].pc = "s_aborted" => Stopped(d)
  /\ slot[w].pc \in FailSteps => /\ s.cid = row[d].cid
                                 /\ s.cstat \in {"stopped", "removed"} => Stopped(d)
  /\ slot[w].pc \in {"f_stopped", "f_gone", "f_clean"} =>
       Stopped(d) /\ cont[d].state # "created"
  /\ slot[w].pc \in DeleteSteps => Names(d, s.cid)
  /\ slot[w].pc = "d_deleted" => Deleted(d)
Tidy(w) == /\ \A item \in slot[w].todo : Names(item[1], item[2])
           /\ \A e \in Deployments : slot[w].marks[e] # "keep" => Deleted(e)
SlotKnows(w) == JobKnows(w) /\ Tidy(w)

CancelKnows(d) ==
  /\ cancel[d].snap.cid # 0 => Names(d, cancel[d].snap.cid)
  /\ cancel[d].pc = "stopped" => Stopped(d)
  /\ cancel[d].pc = "gone" => Deleted(d)

StoppedInv ==
  /\ \A d \in Deployments : /\ OneStart(d) /\ FailingLate(d) /\ CidTrue(d) /\ StatusTrue(d)
                            /\ FailedTrue(d) /\ CancelKnows(d)
  /\ \A w \in Slots : SlotKnows(w)

-----------------------------------------------------------------------------
(* Who enqueues a start job, runs its first steps, records a container or    *)
(* touches one.                                                              *)
Obedient == ~DockerFaults /\ MaxCrashes = 0

LEMMA NoAccident ==
  ASSUME TypeOK, Obedient
  PROVE  ~WorkerCrash /\ \A w \in Slots : ~WorkerStop(w) /\ ~JobTimeout(w)
BY DEF TypeOK, Obedient, WorkerCrash, WorkerStop, JobTimeout

(* How the queues change: start and finalize jobs have one source each. *)
StartQueueChange(d) == \/ queue'[d]["start"] = queue[d]["start"]
                       \/ EnqueueStart(d)
                       \/ \E w \in Slots : StartLoad(w, d) \/ StartDropped(w, d)
FinalizeQueueChange(d) == \/ queue'[d]["finalize"] = queue[d]["finalize"]
                          \/ MonitorHandOff(d)
                          \/ \E w \in Slots : FinalizeLoad(w, d)
QueueChange(d) == StartQueueChange(d) /\ FinalizeQueueChange(d)

LEMMA StepQueue ==
  ASSUME TypeOK, Obedient, [Next]_vars, NEW d \in Deployments
  PROVE  QueueChange(d)
<1>1. CASE queue' = queue
  BY <1>1 DEF QueueChange, StartQueueChange, FinalizeQueueChange
<1>2. ASSUME NEW e \in Deployments, NEW k \in Kinds, Enqueue(e, k),
             k = "start" => EnqueueStart(e), k = "finalize" => MonitorHandOff(e)
      PROVE  QueueChange(d)
  <2>1. Queued(e, k, 1)
    BY <1>2, EnqueueEffect
  <2>. QED BY <1>2, <2>1 DEF Queued, QueueChange, StartQueueChange, FinalizeQueueChange, Kinds
<1>3. ASSUME NEW e \in Deployments, NEW w \in Slots, TakeJob(w, e)
      PROVE  QueueChange(d)
  <2>1. ASSUME NEW k \in Kinds, Queued(e, k, -1),
               k = "start" => StartLoad(w, e) \/ StartDropped(w, e),
               k = "finalize" => FinalizeLoad(w, e)
        PROVE  QueueChange(d)
    BY <2>1 DEF Queued, QueueChange, StartQueueChange, FinalizeQueueChange, Kinds
  <2>2. CASE StartLoad(w, e) \/ StartDropped(w, e)
    BY <2>1, <2>2, TakeEffect, DiscardEffect DEF StartLoad, StartDropped, Kinds
  <2>3. CASE FinalizeLoad(w, e)
    BY <2>1, <2>3, TakeEffect, DiscardEffect DEF FinalizeLoad, Kinds
  <2>4. CASE FailLoad(w, e)
    BY <2>1, <2>4, TakeEffect, DiscardEffect DEF FailLoad, Kinds
  <2>5. CASE DeleteLoad(w, e)
    BY <2>1, <2>5, TakeEffect, DiscardEffect DEF DeleteLoad, Kinds
  <2>. QED BY <1>3, <2>2, <2>3, <2>4, <2>5 DEF TakeJob
<1>4. ASSUME NEW w \in Slots, StartNext(w) \/ FinalizeNext(w) \/ FailNext(w) \/ DeleteNext(w)
      PROVE  QueueChange(d)
  <2>1. slot[w].dep \in Deployments
    BY <1>4, RunningDep
  <2>2. queue' = queue \/ \E k \in {"fail", "delete"} : Enqueue(slot[w].dep, k)
    BY <1>4 DEF StartNext, StartPrepare, StartCreate, StartContainer, StartSave, StartDone,
       StartFails, StartInterrupted, StartStops, StartAborted, FinalizeNext, FinalizeFails,
       FinalizeConclude, FinalizeDone, FailNext, FailMark, FailStop, FailStopped, FailConclude,
       DeleteNext, DeleteRemove, DeleteCommit
  <2>. QED BY <1>1, <1>2, <2>1, <2>2 DEF Kinds
<1>5. ASSUME NEW w \in Slots, CleanupNext(w) PROVE queue' = queue
  BY <1>5 DEF CleanupNext, CleanupLoad, CleanupOne, CleanupCommit
<1>6. ASSUME NEW e \in Deployments, EnqueueStart(e) \/ MonitorHandOff(e) PROVE QueueChange(d)
  BY <1>2, <1>6 DEF EnqueueStart, MonitorHandOff, Kinds
<1>7. ASSUME NEW e \in Deployments,
             \/ Create(e) \/ CancelLoad(e) \/ CancelNext(e) \/ MonitorNext(e)
             \/ Expire(e) \/ AppExit(e),
             ~MonitorHandOff(e)
      PROVE  QueueChange(d)
  <2>1. queue' = queue \/ \E k \in {"fail", "delete"} : Enqueue(e, k)
    BY <1>7 DEF Create, CancelLoad, CancelNext, CancelCommit, CancelAbort, CancelAborted,
       CancelStop, CancelStopped, Expire, AppExit, jobVars,
       MonitorNext, MonitorTimeout, MonitorTransient, MonitorLost, MonitorExited,
       MonitorProbe, MonitorNotReady, MonitorReady, MonitorFail
  <2>. QED BY <1>1, <1>2, <2>1 DEF Kinds
<1>8. ASSUME MonitorSelect \/ UNCHANGED vars PROVE queue' = queue
  BY <1>8 DEF MonitorSelect, vars, jobVars
<1>. QED BY <1>1, <1>3, <1>4, <1>5, <1>6, <1>7, <1>8, NoAccident DEF Next, WorkerNext

(* A slot is only brought into the first steps of a start job by taking it. *)
LEMMA StepLaunch ==
  ASSUME TypeOK, [Next]_vars, NEW w \in Slots, NEW d \in Deployments, Launches(w, d)'
  PROVE  Launches(w, d) \/ StartLoad(w, d)
<1>1. CASE slot'[w] = slot[w]
  BY <1>1 DEF Launches
<1>2. CASE slot'[w].pc \notin Launching
  BY <1>2 DEF Launches
<1>3. ASSUME NEW e \in Deployments, TakeJob(w, e) PROVE Launches(w, d) \/ StartLoad(w, d)
  <2>1. CASE StartLoad(w, e)
    <3>1. slot'[w].dep = e
      BY <2>1, TakeEffect DEF StartLoad, Kinds
    <3>. QED BY <2>1, <3>1 DEF Launches
  <2>2. CASE slot' = slot
    BY <1>1, <2>2
  <2>3. ASSUME NEW k \in Kinds, NEW pc \in {"z_loaded", "f_loaded", "d_loaded"}, Take(w, e, k, pc)
        PROVE  slot'[w].pc \notin Launching
    BY <2>3, TakeEffect DEF Launching
  <2>. QED BY <1>2, <1>3, <2>1, <2>2, <2>3
           DEF TakeJob, StartDropped, FinalizeLoad, FailLoad, DeleteLoad, Discard, Kinds
<1>4. CASE StartNext(w) \/ FinalizeNext(w) \/ FailNext(w) \/ DeleteNext(w)
  <2>1. CASE StartPrepare(w) \/ StartCreate(w) \/ StartContainer(w)
    <3>1. slot'[w].dep = slot[w].dep \/ Emptied(w)
      BY <1>4, JobEffect DEF Keeps
    <3>. QED BY <1>2, <2>1, <3>1 DEF Launches, Launching, StartPrepare, StartCreate,
                                     StartContainer, At, Emptied
  <2>2. CASE ~(StartPrepare(w) \/ StartCreate(w) \/ StartContainer(w))
    <3>1. \/ Finish(w)
          \/ \E pc \in {"s_aborted", "f_stopped", "f_gone", "f_clean", "d_deleted"} : Goto(w, pc)
          \/ \E pc \in {"s_saved", "z_concluded", "f_marked", "f_clean"} : \E new : Commit(w, new, pc)
      BY <1>4, <2>2 DEF StartNext, StartSave, StartDone, StartFails, StartInterrupted, StartStops,
         StartAborted, FinalizeNext, FinalizeFails, FinalizeConclude, FinalizeDone, FailNext,
         FailMark, FailStop, FailStopped, FailConclude, DeleteNext, DeleteRemove, DeleteCommit
    <3>. QED BY <1>2, <3>1, FinishEffect, GotoEffect, CommitSlot DEF Launching
  <2>. QED BY <2>1, <2>2
<1>5. CASE CleanupNext(w)
  BY <1>2, <1>5, CleanupStays DEF Launching
<1>. QED BY <1>1, <1>2, <1>3, <1>4, <1>5, StepSlot DEF SlotChange, WorkerNext, Emptied, Launching

(* Only StartSave records a container. *)
LEMMA MergeCid ==
  ASSUME TypeOK, NEW d \in Deployments, NEW old, NEW new, Wrote(d, old, new), new.cid = old.cid
  PROVE  row'[d].cid = row[d].cid
BY DEF TypeOK, Wrote, Merge

LEMMA StepCid ==
  ASSUME TypeOK, [Next]_vars, NEW d \in Deployments
  PROVE  \/ row'[d].cid = row[d].cid
         \/ \E w \in Slots : slot[w].dep = d /\ StartSave(w)
<1>0. row[d] \in Row /\ cancel[d].snap \in Row /\ \A w \in Slots : slot[w].snap \in Row
  BY DEF TypeOK, Slot
<1>1. CASE RowSame(d)
  BY <1>1 DEF RowSame
<1>2. CASE CancelCommit(d)
  <2>. DEFINE new == [cancel[d].snap EXCEPT !.status = "completed", !.conclusion = "canceled"]
  <2>1. Wrote(d, cancel[d].snap, new) /\ new.cid = cancel[d].snap.cid
    BY <1>0, <1>2 DEF CancelCommit, Wrote, Row
  <2>. QED BY <2>1, MergeCid
<1>3. CASE CancelStopped(d)
  <2>. DEFINE new == [cancel[d].snap EXCEPT
                        !.cstat = IF cancel[d].pc = "stopped" THEN "stopped" ELSE "removed"]
  <2>1. Wrote(d, cancel[d].snap, new) /\ new.cid = cancel[d].snap.cid
    BY <1>0, <1>3 DEF CancelStopped, Wrote, Row
  <2>. QED BY <2>1, MergeCid
<1>4. CASE MonitorReady(d)
  BY <1>0, <1>4 DEF MonitorReady, TypeOK, Row
<1>5. ASSUME NEW w \in Slots, CleanupCommit(w) PROVE row'[d].cid = row[d].cid
  BY <1>0, <1>5 DEF CleanupCommit, Row
<1>6. ASSUME NEW w \in Slots, Writes(w, d), ~StartSave(w) PROVE row'[d].cid = row[d].cid
  <2>0. slot[w].dep = d
    BY <1>6 DEF Writes
  <2>1. CASE StartAborted(w)
    BY <1>0, <2>0, <2>1 DEF StartAborted, TypeOK, Row
  <2>2. \/ StartAborted(w)
        \/ \E new : Wrote(d, slot[w].snap, new) /\ new.cid = slot[w].snap.cid
    <3>1. CASE StartPrepare(w)
      <4>. DEFINE new == [slot[w].snap EXCEPT !.status = "prepare"]
      <4>1. Wrote(d, slot[w].snap, new) /\ new.cid = slot[w].snap.cid
        BY <1>0, <2>0, <3>1 DEF StartPrepare, Commit, Wrote, Row
      <4>. QED BY <4>1
    <3>2. CASE FinalizeConclude(w)
      <4>. DEFINE new == [slot[w].snap EXCEPT !.status = "completed", !.conclusion = "succeeded"]
      <4>1. Wrote(d, slot[w].snap, new) /\ new.cid = slot[w].snap.cid
        BY <1>0, <2>0, <3>2 DEF FinalizeConclude, Commit, Wrote, Row
      <4>. QED BY <4>1
    <3>3. CASE FailMark(w)
      <4>. DEFINE new == [slot[w].snap EXCEPT !.status = "fail"]
      <4>1. Wrote(d, slot[w].snap, new) /\ new.cid = slot[w].snap.cid
        BY <1>0, <2>0, <3>3 DEF FailMark, Commit, Wrote, Row
      <4>. QED BY <4>1
    <3>4. CASE FailStopped(w)
      <4>. DEFINE new == [slot[w].snap EXCEPT
                            !.cstat = IF At(w, "f_stopped") THEN "stopped" ELSE "removed"]
      <4>1. Wrote(d, slot[w].snap, new) /\ new.cid = slot[w].snap.cid
        BY <1>0, <2>0, <3>4 DEF FailStopped, Commit, Wrote, Row
      <4>. QED BY <4>1
    <3>5. CASE FailConclude(w)
      <4>. DEFINE new == [slot[w].snap EXCEPT !.status = "completed", !.conclusion = "failed"]
      <4>1. Wrote(d, slot[w].snap, new) /\ new.cid = slot[w].snap.cid
        BY <1>0, <2>0, <3>5 DEF FailConclude, Wrote, Row
      <4>. QED BY <4>1
    <3>6. CASE DeleteCommit(w)
      <4>. DEFINE new == [slot[w].snap EXCEPT !.cstat = "removed"]
      <4>1. Wrote(d, slot[w].snap, new) /\ new.cid = slot[w].snap.cid
        BY <1>0, <2>0, <3>6 DEF DeleteCommit, Wrote, Row
      <4>. QED BY <4>1
    <3>. QED BY <1>6, <3>1, <3>2, <3>3, <3>4, <3>5, <3>6 DEF Writes
  <2>. QED BY <2>1, <2>2, MergeCid
<1>. QED BY <1>1, <1>2, <1>3, <1>4, <1>5, <1>6, StepRow DEF RowChange, Writes

(* What may happen to a container: the start job makes it and starts it; *)
(* everybody else, and its app, only end it.                             *)
Removes(d) == \E w \in Slots : \/ slot[w].dep = d /\ At(w, "d_loaded")
                              \/ \E item \in slot[w].todo : item[1] = d
ContEnds(d) ==
  /\ cont'[d].gen = cont[d].gen
  /\ \/ cont'[d].state = "none" /\ Removes(d)
     \/ cont[d].state = "running" /\ cont'[d].state = "exited"
     \/ cont'[d].state = cont[d].state
Opens(w, d) ==
  /\ slot[w].dep = d
  /\ StartCreate(w) \/ StartContainer(w) \/ (StartInterrupted(w) /\ At(w, "s_prepared"))

LEMMA StopEffect ==
  ASSUME TypeOK, Obedient, NEW d \in Deployments, NEW cid, StopContainer(d, cid)
  PROVE  /\ \A e \in Deployments : ContEnds(e)
         /\ cont'[d].state # "none" \/ cont[d].state = "none"
         /\ cid = cont[d].gen => cont'[d].state # "running"
<1>0. cont \in [Deployments -> Container] /\ \A e \in Deployments : cont[e] \in Container
  BY DEF TypeOK
<1>1. cont' = [cont EXCEPT ![d] = [cont[d] EXCEPT
                 !.state = IF cont[d].state = "running" /\ Present(d, cid) THEN "exited"
                           ELSE cont[d].state]]
  BY DEF Obedient, StopContainer
<1>2. /\ \A e \in Deployments : cont'[e].gen = cont[e].gen /\ (e # d => cont'[e] = cont[e])
      /\ cont'[d].state = IF cont[d].state = "running" /\ Present(d, cid) THEN "exited"
                          ELSE cont[d].state
  BY <1>0, <1>1 DEF Container
<1>. QED BY <1>0, <1>2 DEF Present, ContEnds

LEMMA StepCont ==
  ASSUME TypeOK, Obedient, [Next]_vars, NEW d \in Deployments
  PROVE  ContEnds(d) \/ \E w \in Slots : Opens(w, d)
<1>0. cont[d] \in Container /\ cont \in [Deployments -> Container]
  BY DEF TypeOK
<1>1. ASSUME cont' = cont PROVE ContEnds(d)
  BY <1>1 DEF ContEnds
<1>2. ASSUME NEW e \in Deployments, NEW cid, StopContainer(e, cid) PROVE ContEnds(d)
  BY <1>2, StopEffect
<1>3. ASSUME NEW e \in Deployments, NEW s \in {"none", "exited"},
             IF s = "none" THEN Removes(e) ELSE cont[e].state = "running",
             cont' = [cont EXCEPT ![e].state = s]
      PROVE  ContEnds(d)
  BY <1>0, <1>3 DEF ContEnds, Container
<1>4. ASSUME NEW w \in Slots, StartNext(w) PROVE ContEnds(d) \/ Opens(w, d)
  <2>0. slot[w].dep \in Deployments
    BY <1>4, RunningDep
  <2>1. CASE StartCreate(w) \/ StartContainer(w) \/ (StartInterrupted(w) /\ At(w, "s_prepared"))
    <3>1. slot[w].dep # d => cont'[d] = cont[d]
      BY <1>0, <2>0, <2>1 DEF StartCreate, StartContainer, StartInterrupted, NewContainer
    <3>. QED BY <2>1, <3>1 DEF Opens, ContEnds
  <2>2. CASE StartStops(w)
    BY <1>2, <2>0, <2>2 DEF StartStops
  <2>. QED BY <1>1, <1>4, <2>1, <2>2 DEF StartNext, StartPrepare, StartSave, StartDone,
              StartFails, StartInterrupted, StartAborted
<1>5. ASSUME NEW w \in Slots, FinalizeNext(w) \/ FailNext(w) PROVE ContEnds(d)
  <2>1. slot[w].dep \in Deployments
    BY <1>5, RunningDep
  <2>2. cont' = cont \/ StopContainer(slot[w].dep, slot[w].snap.cid)
    BY <1>5 DEF FinalizeNext, FinalizeFails, FinalizeConclude, FinalizeDone, FailNext, FailMark,
                FailStop, FailStopped, FailConclude
  <2>. QED BY <1>1, <1>2, <2>1, <2>2
<1>6. ASSUME NEW w \in Slots, DeleteNext(w) PROVE ContEnds(d)
  <2>1. slot[w].dep \in Deployments
    BY <1>6, RunningDep
  <2>2. CASE cont' = [cont EXCEPT ![slot[w].dep].state =
                        IF Present(slot[w].dep, slot[w].snap.cid) THEN "none" ELSE @]
    <3>1. At(w, "d_loaded") \/ cont' = cont
      BY <1>6 DEF DeleteNext, DeleteRemove, DeleteCommit
    <3>. QED BY <1>0, <1>1, <2>1, <2>2, <3>1 DEF ContEnds, Container, Removes
  <2>. QED BY <1>1, <1>2, <1>6, <2>1, <2>2 DEF DeleteNext, DeleteRemove, DeleteCommit
<1>7. ASSUME NEW w \in Slots, CleanupNext(w) PROVE ContEnds(d)
  <2>1. ASSUME NEW item \in slot[w].todo, CleanupOne(w, item[1], item[2]) PROVE ContEnds(d)
    <3>1. item[1] \in Deployments
      BY DEF TypeOK, Slot
    <3>2. cont' = cont \/ cont' = [cont EXCEPT ![item[1]].state = "none"]
      BY <2>1 DEF CleanupOne, Obedient
    <3>3. Removes(item[1])
      BY <2>1 DEF Removes
    <3>. QED BY <1>1, <1>3, <3>1, <3>2, <3>3
  <2>. QED BY <1>1, <1>7, <2>1 DEF CleanupNext, CleanupLoad, CleanupCommit
<1>8. ASSUME NEW e \in Deployments, CancelLoad(e) \/ CancelNext(e) PROVE ContEnds(d)
  BY <1>1, <1>2, <1>8 DEF CancelLoad, CancelNext, CancelCommit, CancelAbort, CancelAborted,
     CancelStop, CancelStopped
<1>9. ASSUME NEW e \in Deployments, AppExit(e) PROVE ContEnds(d)
  BY <1>3, <1>9 DEF AppExit
<1>10. ASSUME NEW e \in Deployments,
              Create(e) \/ EnqueueStart(e) \/ MonitorNext(e) \/ Expire(e)
       PROVE  ContEnds(d)
  <2>1. CASE MonitorReady(e)
    BY <1>1, <2>1 DEF MonitorReady
  <2>. QED BY <1>1, <1>10, <2>1 DEF Create, EnqueueStart, Expire, MonitorNext, MonitorTimeout,
     MonitorTransient, MonitorLost, MonitorExited, MonitorProbe, MonitorNotReady, MonitorHandOff
<1>11. ASSUME NEW w \in Slots, NEW e \in Deployments, TakeJob(w, e) PROVE cont' = cont
  BY <1>11 DEF TakeJob, StartLoad, StartDropped, FinalizeLoad, FailLoad, DeleteLoad
<1>12. ASSUME MonitorSelect \/ UNCHANGED vars PROVE cont' = cont
  BY <1>12 DEF MonitorSelect, vars
<1>. QED BY <1>1, <1>4, <1>5, <1>6, <1>7, <1>8, <1>9, <1>10, <1>11, <1>12, NoAccident
         DEF Next, WorkerNext

(* Once calm, always calm; and what is known of the container stays true. *)
LEMMA CalmStep ==
  ASSUME TypeOK, Obedient, [Next]_vars, NEW d \in Deployments, Calm(d)
  PROVE  Calm(d)' /\ ContEnds(d) /\ row'[d].cid = row[d].cid
<1>1. web'[d] = "enqueued"
  BY StepRequest DEF RequestChange, Calm, Create, EnqueueStart
<1>2. \A w \in Slots : ~StartLoad(w, d) /\ ~StartDropped(w, d)
  BY DEF Calm, StartLoad, StartDropped, Take, Discard
<1>n. queue'[d]["start"] = 0
  BY <1>2, StepQueue DEF QueueChange, StartQueueChange, Calm, EnqueueStart
<1>3. \A w \in Slots : ~Launches(w, d)'
  BY <1>2, StepLaunch DEF Calm
<1>4. \A w \in Slots : ~Opens(w, d)
  BY DEF Calm, Launches, Launching, Opens, StartCreate, StartContainer, At
<1>5. \A w \in Slots : slot[w].dep = d => ~StartSave(w)
  BY DEF Calm, Launches, Launching, StartSave, At
<1>. QED BY <1>1, <1>n, <1>3, <1>4, <1>5, StepCont, StepCid DEF Calm

LEMMA KnownStep ==
  ASSUME TypeOK, Obedient, [Next]_vars, NEW d \in Deployments
  PROVE  /\ \A cid : Names(d, cid) => Names(d, cid)'
         /\ Stopped(d) => Stopped(d)'
         /\ Deleted(d) => Deleted(d)'
         /\ Launched(d) => Launched(d)'
         /\ Stopped(d) /\ cont[d].state # "created" => cont'[d].state # "created"
BY CalmStep DEF Names, Stopped, Deleted, Launched, ContEnds

-----------------------------------------------------------------------------
(* The first steps of the start job end once, and then there is calm. *)
LEMMA NotCalm ==
  ASSUME StoppedInv, NEW w \in Slots, NEW d \in Deployments, Launches(w, d)
  PROVE  /\ web[d] = "enqueued" /\ queue[d]["start"] = 0
         /\ \A v \in Slots : ~StartLoad(v, d) /\ ~StartDropped(v, d)
         /\ ~Calm(d) /\ ~Removes(d) /\ ~Failing(d) /\ row[d].cid = 0
<1>1. web[d] = "enqueued" /\ queue[d]["start"] = 0 /\ ~Calm(d)
  BY DEF StoppedInv, OneStart, Calm
<1>2. \A v \in Slots : ~StartLoad(v, d) /\ ~StartDropped(v, d)
  BY <1>1 DEF StartLoad, StartDropped, Take, Discard
<1>3. ~Removes(d)
  BY <1>1 DEF Removes, StoppedInv, SlotKnows, JobKnows, Tidy, Names, At, DeleteSteps
<1>4. ~Failing(d) /\ row[d].cid = 0
  BY <1>1 DEF StoppedInv, FailingLate, Launched, CidTrue, Names
<1>. QED BY <1>1, <1>2, <1>3, <1>4

LEMMA LaunchEnds ==
  ASSUME TypeOK, StoppedInv, Obedient, [Next]_vars, NEW w \in Slots, NEW d \in Deployments,
         Launches(w, d), ~Launches(w, d)'
  PROVE  Calm(d)'
<1>1. web'[d] = "enqueued"
  BY NotCalm, StepRequest DEF RequestChange, Create, EnqueueStart
<1>2. queue'[d]["start"] = 0
  BY NotCalm, StepQueue DEF QueueChange, StartQueueChange, EnqueueStart
<1>3. ASSUME NEW v \in Slots, Launches(v, d)' PROVE FALSE
  <2>1. Launches(v, d)
    BY <1>3, NotCalm, StepLaunch
  <2>. QED BY <1>3, <2>1 DEF StoppedInv, OneStart
<1>. QED BY <1>1, <1>2, <1>3 DEF Calm

(* While the start job is at its first steps, only it touches the container. *)
LEMMA LaunchingCont ==
  ASSUME TypeOK, StoppedInv, Obedient, [Next]_vars, NEW w \in Slots, NEW d \in Deployments,
         Launches(w, d)
  PROVE  \/ Opens(w, d)
         \/ /\ cont'[d].gen = cont[d].gen
            /\ \/ cont'[d].state = cont[d].state
               \/ cont[d].state = "running" /\ cont'[d].state = "exited"
<1>1. ASSUME NEW v \in Slots, Opens(v, d) PROVE v = w
  BY <1>1 DEF Opens, Launches, Launching, StartCreate, StartContainer, At, StoppedInv, OneStart
<1>. QED BY <1>1, StepCont, NotCalm DEF ContEnds

LEMMA OneStartStep ==
  ASSUME TypeOK, StoppedInv, Obedient, [Next]_vars, NEW d \in Deployments
  PROVE  OneStart(d)'
<1>0. OneStart(d) /\ queue[d]["start"] \in Nat
  BY DEF StoppedInv, TypeOK, Kinds
<1>1. web[d] = "enqueued" => web'[d] = "enqueued"
  BY StepRequest DEF RequestChange, Create, EnqueueStart
<1>2. EnqueueStart(d) => /\ web[d] # "enqueued" /\ web'[d] = "enqueued"
                         /\ queue'[d]["start"] = queue[d]["start"] + 1
  BY EnqueueEffect DEF EnqueueStart, TypeOK, Queued, Kinds
<1>3. ASSUME NEW w \in Slots, StartLoad(w, d) \/ StartDropped(w, d)
      PROVE  queue[d]["start"] = 1 /\ queue'[d]["start"] = 0
  BY <1>0, <1>3, TakeEffect, DiscardEffect DEF StartLoad, StartDropped, OneStart, Queued, Kinds
<1>4. queue'[d]["start"] \in {0, 1}
  BY <1>0, <1>2, <1>3, StepQueue DEF QueueChange, StartQueueChange, OneStart
<1>5. web'[d] # "enqueued" => queue'[d]["start"] = 0
  BY <1>0, <1>1, <1>2, <1>3, StepQueue DEF QueueChange, StartQueueChange, OneStart
<1>6. ASSUME web'[d] # "enqueued" \/ queue'[d]["start"] = 1
      PROVE  cont'[d].state = "none" /\ \A w \in Slots : ~Launches(w, d)'
  <2>1. web[d] # "enqueued" \/ queue[d]["start"] = 1
    BY <1>0, <1>1, <1>2, <1>3, <1>6, StepQueue DEF QueueChange, StartQueueChange, OneStart
  <2>2. cont[d].state = "none" /\ \A w \in Slots : ~Launches(w, d)
    BY <1>0, <2>1 DEF OneStart
  <2>3. \A w \in Slots : ~StartLoad(w, d)
    BY <1>0, <1>1, <1>3, <1>6 DEF OneStart
  <2>4. \A w \in Slots : ~Opens(w, d)
    BY <2>2 DEF Opens, Launches, Launching, StartCreate, StartContainer, At
  <2>. QED BY <2>2, <2>3, <2>4, StepCont, StepLaunch DEF ContEnds
<1>7. ASSUME NEW w \in Slots, NEW v \in Slots, Launches(w, d)', Launches(v, d)' PROVE w = v
  <2>1. CASE Launches(w, d) \/ Launches(v, d)
    BY <1>0, <1>7, <2>1, NotCalm, StepLaunch DEF OneStart
  <2>2. CASE StartLoad(w, d) /\ StartLoad(v, d)
    <3>1. /\ slot'[w].pc = "s_loaded" /\ slot[w].pc = "idle" /\ Others(v)
      BY <2>2, TakeEffect DEF StartLoad, Kinds
    <3>. QED BY <3>1 DEF Others
  <2>. QED BY <1>7, <2>1, <2>2, StepLaunch
<1>. QED BY <1>4, <1>5, <1>6, <1>7 DEF OneStart

-----------------------------------------------------------------------------
(* What leads to a failure, and what the columns of a row say. *)
LEMMA MonitorBusy ==
  ASSUME NEW d, MonitorNext(d)
  PROVE  mon[d].pc # "idle"
BY DEF MonitorNext, MonitorTimeout, MonitorTransient, MonitorLost, MonitorExited, MonitorProbe,
       MonitorNotReady, MonitorReady, MonitorHandOff

LEMMA FailBorn ==
  ASSUME TypeOK, Obedient, [Next]_vars, NEW d \in Deployments, Alive(d, "fail")'
  PROVE  \/ Alive(d, "fail")
         \/ MonitorTimeout(d) \/ MonitorLost(d) \/ MonitorExited(d)
         \/ \E w \in Slots : slot[w].dep = d /\ (StartFails(w) \/ FinalizeFails(w))
<1>k. "fail" \in Kinds
  BY DEF Kinds
<1>1. ASSUME NEW e, NEW ks, AliveBut(e, ks), e # d \/ "fail" \notin ks
      PROVE  Alive(d, "fail")
  BY <1>1, <1>k DEF AliveBut
<1>2. ASSUME NEW w \in Slots, NEW k \in Kinds, slot[w].dep = d, slot[w].pc \in Steps(k)
      PROVE  Alive(d, k)
  BY <1>2, AliveMeans DEF Busy
<1>3. ASSUME NEW e \in Deployments, NEW w \in Slots, TakeJob(w, e) PROVE Alive(d, "fail")
  <2>1. CASE ~FailLoad(w, e)
    BY <1>1, <1>3, <2>1, TakeJobAlive DEF TakeJob
  <2>2. CASE FailLoad(w, e)
    <3>1. queue[e]["fail"] > 0
      BY <2>2 DEF FailLoad, Take, Discard
    <3>2. AliveBut(e, {}) \/ AliveBut(e, {"fail"})
      BY <2>2, TakeJobAlive
    <3>. QED BY <1>1, <3>1, <3>2, AliveMeans
  <2>. QED BY <2>1, <2>2
<1>4. ASSUME NEW w \in Slots, StartNext(w), ~(slot[w].dep = d /\ StartFails(w))
      PROVE  Alive(d, "fail")
  <2>1. \E ks : AliveBut(slot[w].dep, ks) /\ (slot[w].dep # d \/ "fail" \notin ks)
    BY <1>4, StartAlive DEF StartNext
  <2>. QED BY <1>1, <2>1
<1>5. ASSUME NEW w \in Slots, FinalizeNext(w), ~(slot[w].dep = d /\ FinalizeFails(w))
      PROVE  Alive(d, "fail")
  <2>1. \E ks : AliveBut(slot[w].dep, ks) /\ (slot[w].dep # d \/ "fail" \notin ks)
    BY <1>5, FinalizeAlive DEF FinalizeNext
  <2>. QED BY <1>1, <2>1
<1>6. ASSUME NEW w \in Slots, FailNext(w) PROVE Alive(d, "fail")
  <2>1. slot[w].pc \in Steps("fail")
    BY <1>6, StepsOf DEF FailNext, FailMark, FailStop, FailStopped, FailConclude, At, FailSteps
  <2>2. \E ks : AliveBut(slot[w].dep, ks)
    BY <1>6, FailAlive DEF FailNext
  <2>. QED BY <1>1, <1>2, <1>k, <2>1, <2>2
<1>7. ASSUME NEW w \in Slots, DeleteNext(w) \/ CleanupNext(w) PROVE Alive(d, "fail")
  BY <1>1, <1>7, DeleteAlive, CleanupAlive
<1>8. ASSUME NEW e \in Deployments, CancelLoad(e) \/ CancelNext(e) PROVE Alive(d, "fail")
  BY <1>1, <1>8, CancelAlive
<1>9. ASSUME NEW e \in Deployments, MonitorNext(e)
      PROVE  \/ Alive(d, "fail")
             \/ MonitorTimeout(d) \/ MonitorLost(d) \/ MonitorExited(d)
  <2>1. CASE e # d
    BY <1>1, <1>9, <2>1, MonitorAlive
  <2>2. CASE MonitorProbe(d) \/ MonitorNotReady(d) \/ MonitorReady(d)
    <3>1. queue' = queue /\ slot' = slot
      BY <2>2 DEF MonitorProbe, MonitorNotReady, MonitorReady, jobVars
    <3>. QED BY <1>1, <3>1, OutsideSame
  <2>3. CASE MonitorHandOff(d)
    <3>1. Enqueue(d, "finalize") /\ slot' = slot
      BY <2>3 DEF MonitorHandOff
    <3>. QED BY <1>1, <3>1, OutsideEnqueue DEF Kinds
  <2>4. ~MonitorTransient(d)
    BY DEF MonitorTransient, Obedient
  <2>. QED BY <1>9, <2>1, <2>2, <2>3, <2>4 DEF MonitorNext
<1>10. ASSUME NEW e \in Deployments, EnqueueStart(e) PROVE Alive(d, "fail")
  BY <1>1, <1>10, OutsideEnqueue DEF EnqueueStart, Kinds
<1>11. ASSUME queue' = queue, slot' = slot PROVE Alive(d, "fail")
  BY <1>1, <1>11, OutsideSame
<1>12. ASSUME NEW e \in Deployments, Create(e) \/ Expire(e) \/ AppExit(e)
       PROVE  queue' = queue /\ slot' = slot
  BY <1>12 DEF Create, Expire, AppExit, jobVars
<1>13. ASSUME MonitorSelect \/ UNCHANGED vars PROVE queue' = queue /\ slot' = slot
  BY <1>13 DEF MonitorSelect, vars, jobVars
<1>. QED BY <1>3, <1>4, <1>5, <1>6, <1>7, <1>8, <1>9, <1>10, <1>11, <1>12, <1>13, NoAccident
         DEF Next, WorkerNext

LEMMA StepMon ==
  ASSUME TypeOK, Obedient, [Next]_vars, NEW d \in Deployments
  PROVE  /\ mon'[d] = mon[d] \/ MonitorNext(d) \/ MonitorSelect
         /\ d \in expired => d \in expired'
         /\ d \in expired' => d \in expired \/ Expire(d)
<1>1. CASE mon' = mon /\ expired' = expired
  BY <1>1
<1>2. ASSUME NEW e \in Deployments, MonitorNext(e)
      PROVE  (e = d \/ mon'[d] = mon[d]) /\ expired' = expired
  BY <1>2 DEF MonitorNext, MonitorTimeout, MonitorTransient, MonitorLost, MonitorExited,
     MonitorProbe, MonitorNotReady, MonitorReady, MonitorHandOff, MonitorFail, MonitorRest, TypeOK
<1>3. ASSUME NEW e \in Deployments, Expire(e)
      PROVE  mon' = mon /\ expired' = expired \cup {e}
  BY <1>3 DEF Expire
<1>4. ASSUME NEW e \in Deployments,
             \/ Create(e) \/ EnqueueStart(e) \/ CancelLoad(e) \/ CancelNext(e) \/ AppExit(e)
      PROVE  mon' = mon /\ expired' = expired
  BY <1>4 DEF Create, EnqueueStart, CancelLoad, CancelNext, CancelCommit, CancelAbort,
     CancelAborted, CancelStop, CancelStopped, AppExit, monVars
<1>5. ASSUME NEW w \in Slots, WorkerNext(w) PROVE mon' = mon /\ expired' = expired
  <2>1. ASSUME NEW e \in Deployments, TakeJob(w, e) PROVE mon' = mon /\ expired' = expired
    BY <2>1 DEF TakeJob, StartLoad, StartDropped, FinalizeLoad, FailLoad, DeleteLoad, monVars
  <2>2. CASE StartNext(w)
    BY <2>2 DEF monVars, StartNext, StartPrepare, StartCreate, StartContainer, StartSave,
       StartDone, StartFails, StartInterrupted, StartStops, StartAborted
  <2>3. CASE FinalizeNext(w) \/ FailNext(w)
    BY <2>3 DEF monVars, FinalizeNext, FinalizeFails, FinalizeConclude, FinalizeDone, FailNext,
       FailMark, FailStop, FailStopped, FailConclude
  <2>4. CASE DeleteNext(w) \/ CleanupNext(w)
    BY <2>4 DEF monVars, DeleteNext, DeleteRemove, DeleteCommit, CleanupNext, CleanupLoad,
       CleanupOne, CleanupCommit
  <2>. QED BY <1>5, <2>1, <2>2, <2>3, <2>4 DEF WorkerNext
<1>6. ASSUME MonitorSelect \/ UNCHANGED vars PROVE expired' = expired /\ (MonitorSelect \/ mon' = mon)
  BY <1>6 DEF MonitorSelect, vars
<1>. QED BY <1>1, <1>2, <1>3, <1>4, <1>5, <1>6, NoAccident DEF Next

LEMMA MonBorn ==
  ASSUME TypeOK, Obedient, [Next]_vars, NEW d \in Deployments, mon'[d].pc # "idle"
  PROVE  mon[d].pc # "idle" \/ row[d].status = "deploy"
<1>1. CASE MonitorSelect
  BY <1>1 DEF MonitorSelect, NotHeld, TypeOK
<1>. QED BY <1>1, StepMon, MonitorBusy

LEMMA SaveEffect ==
  ASSUME TypeOK, StoppedInv, Obedient, [Next]_vars, NEW w \in Slots, NEW d \in Deployments,
         slot[w].dep = d, StartSave(w)
  PROVE  /\ Launches(w, d) /\ Calm(d)' /\ row'[d].cid # 0 /\ row'[d].cid = cont'[d].gen
         /\ cont'[d].state # "created"
<1>. DEFINE new == [slot[w].snap EXCEPT !.status = "deploy", !.cstat = "running",
                                        !.cid = slot[w].gen]
<1>0. slot[w].pc = "s_started" /\ cont' = cont /\ Commit(w, new, "s_saved")
  BY DEF StartSave, At
<1>1. Launches(w, d)
  BY <1>0 DEF Launches, Launching
<1>2. /\ slot[w].snap.cid = 0 /\ slot[w].gen = cont[d].gen /\ slot[w].gen # 0
      /\ cont[d].state \in {"running", "exited"}
  BY <1>0 DEF StoppedInv, SlotKnows, JobKnows, Launching
<1>3. Calm(d)'
  <2>. HIDE DEF new
  <2>1. slot'[w].pc = "s_saved"
    BY <1>0, CommitSlot
  <2>. QED BY <1>1, <2>1, LaunchEnds DEF Launches, Launching
<1>4. row'[d].cid = slot[w].gen
  BY <1>0, <1>2 DEF TypeOK, Slot, Row, Commit, Merge
<1>. QED BY <1>0, <1>1, <1>2, <1>3, <1>4

LEMMA FailsEffect ==
  ASSUME TypeOK, StoppedInv, Obedient, [Next]_vars, NEW w \in Slots, NEW d \in Deployments,
         slot[w].dep = d, StartFails(w)
  PROVE  Launched(d)' /\ Stopped(d)'
<1>1. slot[w].pc = "s_prepared" /\ cont' = cont /\ slot'[w].pc = "idle"
  BY FinishEffect DEF StartFails, At, Obedient
<1>2. Launches(w, d) /\ ~Launches(w, d)'
  BY <1>1 DEF Launches, Launching
<1>3. cont[d].state = "none"
  BY <1>1 DEF StoppedInv, SlotKnows, JobKnows
<1>. QED BY <1>1, <1>2, <1>3, LaunchEnds DEF Launched, Stopped

LEMMA StatusBorn ==
  ASSUME TypeOK, [Next]_vars, NEW d \in Deployments,
         row'[d].status \in {"deploy", "finalize", "fail"}
  PROVE  \/ row'[d].status = row[d].status
         \/ mon[d].pc # "idle"
         \/ \E w \in Slots : slot[w].dep = d /\ (StartSave(w) \/ FailMark(w))
<1>1. CASE row'[d].status = row[d].status
  BY <1>1
<1>2. CASE RowSame(d)
  BY <1>2 DEF RowSame
<1>3. CASE CancelCommit(d) \/ CancelStopped(d)
  BY <1>3, CancelRow DEF Column
<1>4. CASE MonitorReady(d)
  BY <1>4, MonitorBusy DEF MonitorNext
<1>5. ASSUME NEW w \in Slots, CleanupCommit(w) PROVE row'[d].status = row[d].status
  BY <1>5, CleanupRow
<1>6. ASSUME NEW w \in Slots, Writes(w, d)
      PROVE  row'[d].status = row[d].status \/ StartSave(w) \/ FailMark(w)
  <2>0. slot[w].dep = d /\ slot[w].snap \in Row /\ row[d] \in Row
    BY <1>6 DEF Writes, TypeOK, Slot
  <2>1. CASE StartPrepare(w)
    BY <2>0, <2>1, StartRow DEF Column
  <2>2. CASE StartAborted(w)
    BY <2>0, <2>2 DEF StartAborted, TypeOK, Row
  <2>3. CASE FinalizeConclude(w)
    <3>. DEFINE new == [slot[w].snap EXCEPT !.status = "completed", !.conclusion = "succeeded"]
    <3>1. row'[d].status \in {"completed", row[d].status}
      BY <2>0, <2>3 DEF FinalizeConclude, Commit, TypeOK, Row, Merge
    <3>. QED BY <3>1
  <2>4. CASE FailConclude(w)
    <3>1. row'[d].status \in {"completed", row[d].status}
      BY <2>0, <2>4 DEF FailConclude, TypeOK, Row, Merge
    <3>. QED BY <3>1
  <2>5. CASE FailStopped(w) \/ DeleteCommit(w)
    BY <2>0, <2>5, FailRow, DeleteRow
  <2>. QED BY <1>6, <2>1, <2>2, <2>3, <2>4, <2>5 DEF Writes
<1>. QED BY <1>1, <1>2, <1>3, <1>4, <1>5, <1>6, StepRow DEF RowChange, Writes

LEMMA FailingStep ==
  ASSUME TypeOK, StoppedInv, Obedient, [Next]_vars, NEW d \in Deployments
  PROVE  FailingLate(d)'
<1>1. CASE Failing(d)
  <2>1. Launched(d)'
    BY <1>1, KnownStep DEF StoppedInv, FailingLate
  <2>. QED BY <2>1 DEF FailingLate
<1>2. ASSUME NEW w \in Slots, slot[w].dep = d, StartFails(w) \/ StartSave(w)
      PROVE  FailingLate(d)'
  <2>1. Launched(d)'
    BY <1>2, SaveEffect, FailsEffect DEF Launched
  <2>. QED BY <2>1 DEF FailingLate
<1>3. ASSUME NEW w \in Slots, slot[w].dep = d, FailMark(w) PROVE Failing(d)
  BY <1>3, FailAlive DEF Failing
<1>4. ASSUME Failing(d)'
      PROVE  Failing(d) \/ \E w \in Slots : slot[w].dep = d /\ (StartFails(w) \/ StartSave(w))
  <2>1. CASE Alive(d, "fail")'
    <3>1. ASSUME NEW w \in Slots, slot[w].dep = d, FinalizeFails(w) PROVE Alive(d, "finalize")
      BY <3>1, StepsOf, AliveMeans DEF Busy, FinalizeFails, At, FinalizeSteps
    <3>2. MonitorTimeout(d) \/ MonitorLost(d) \/ MonitorExited(d) => mon[d].pc # "idle"
      BY MonitorBusy DEF MonitorNext
    <3>. QED BY <2>1, <3>1, <3>2, FailBorn DEF Failing
  <2>2. CASE Alive(d, "finalize")'
    BY <2>2, FinalizeBorn DEF Failing
  <2>3. CASE mon'[d].pc # "idle"
    BY <2>3, MonBorn DEF Failing
  <2>4. CASE row'[d].status \in {"deploy", "finalize", "fail"}
    BY <1>3, <2>4, StatusBorn DEF Failing
  <2>. QED BY <1>4, <2>1, <2>2, <2>3, <2>4 DEF Failing
<1>. QED BY <1>1, <1>2, <1>4 DEF FailingLate

LEMMA CidStep ==
  ASSUME TypeOK, StoppedInv, Obedient, [Next]_vars, NEW d \in Deployments
  PROVE  CidTrue(d)'
<1>1. CASE row'[d].cid = row[d].cid
  BY <1>1, KnownStep DEF StoppedInv, CidTrue, Names
<1>2. ASSUME NEW w \in Slots, slot[w].dep = d, StartSave(w) PROVE CidTrue(d)'
  BY <1>2, SaveEffect DEF CidTrue, Names
<1>. QED BY <1>1, <1>2, StepCid

LEMMA CstatBorn ==
  ASSUME TypeOK, [Next]_vars, NEW d \in Deployments, row'[d].cstat \in {"stopped", "removed"}
  PROVE  \/ row'[d].cstat = row[d].cstat
         \/ cancel[d].pc \in {"stopped", "gone"}
         \/ \E w \in Slots : /\ slot[w].dep = d
                             /\ slot[w].pc \in {"s_aborted", "f_stopped", "f_gone", "d_deleted"}
         \/ \E w \in Slots : slot[w].marks[d] # "keep"
<1>1. CASE row'[d].cstat = row[d].cstat
  BY <1>1
<1>2. CASE RowSame(d)
  BY <1>2 DEF RowSame
<1>3. CASE CancelCommit(d) \/ CancelStopped(d)
  BY <1>3, CancelRow DEF CancelStopped
<1>4. CASE MonitorReady(d)
  BY <1>4, ReadyRow
<1>5. ASSUME NEW w \in Slots, CleanupCommit(w), slot[w].marks[d] = "keep" PROVE RowSame(d)
  BY <1>5, CleanupRow
<1>6. ASSUME NEW w \in Slots, Writes(w, d)
      PROVE  \/ row'[d].cstat = row[d].cstat
             \/ /\ slot[w].dep = d
                /\ slot[w].pc \in {"s_aborted", "f_stopped", "f_gone", "d_deleted"}
  <2>0. slot[w].dep = d /\ slot[w].snap \in Row /\ row[d] \in Row
    BY <1>6 DEF Writes, TypeOK, Slot
  <2>1. CASE StartPrepare(w) \/ StartSave(w)
    BY <2>0, <2>1, StartRow DEF Column
  <2>2. CASE StartAborted(w) \/ FailStopped(w) \/ DeleteCommit(w)
    BY <2>0, <2>2 DEF StartAborted, FailStopped, DeleteCommit, At
  <2>3. CASE FinalizeConclude(w)
    BY <2>0, <2>3 DEF FinalizeConclude, Commit, TypeOK, Row, Merge
  <2>4. CASE FailConclude(w)
    BY <2>0, <2>4 DEF FailConclude, TypeOK, Row, Merge
  <2>5. CASE FailMark(w)
    BY <2>0, <2>5, FailRow
  <2>. QED BY <1>6, <2>1, <2>2, <2>3, <2>4, <2>5 DEF Writes
<1>. QED BY <1>1, <1>2, <1>3, <1>4, <1>5, <1>6, StepRow DEF RowChange, Writes

LEMMA StatusStep ==
  ASSUME TypeOK, StoppedInv, Obedient, [Next]_vars, NEW d \in Deployments
  PROVE  StatusTrue(d)'
<1>1. ASSUME row'[d].cstat \in {"stopped", "removed"} PROVE Stopped(d)
  BY <1>1, CstatBorn DEF StoppedInv, StatusTrue, CancelKnows, SlotKnows, JobKnows, Tidy, Deleted, Stopped, DeleteSteps
<1>. QED BY <1>1, KnownStep DEF StatusTrue

LEMMA FailedStep ==
  ASSUME TypeOK, StoppedInv, Obedient, [Next]_vars, NEW d \in Deployments
  PROVE  FailedTrue(d)'
<1>1. ASSUME row'[d].conclusion = "failed"
      PROVE  \/ row[d].conclusion = "failed"
             \/ \E w \in Slots : slot[w].dep = d /\ slot[w].pc = "f_clean"
  <2>1. CASE RowSame(d)
    BY <1>1, <2>1 DEF RowSame
  <2>2. CASE CancelCommit(d) \/ CancelStopped(d) \/ MonitorReady(d)
    BY <1>1, <2>2, CancelRow, ReadyRow DEF Column
  <2>3. ASSUME NEW w \in Slots, CleanupCommit(w) PROVE row'[d].conclusion = row[d].conclusion
    BY <2>3, CleanupRow
  <2>4. ASSUME NEW w \in Slots, Writes(w, d), ~FailConclude(w) PROVE row[d].conclusion = "failed"
    BY <1>1, <2>4, StartRow, FinalizeRow, FailRow, DeleteRow DEF Writes, Column
  <2>. QED BY <1>1, <2>1, <2>2, <2>3, <2>4, StepRow DEF RowChange, Writes, FailConclude, At
<1>2. ASSUME row'[d].conclusion = "failed" PROVE Stopped(d) /\ cont[d].state # "created"
  BY <1>1, <1>2 DEF StoppedInv, FailedTrue, SlotKnows, JobKnows
<1>. QED BY <1>2, KnownStep DEF FailedTrue

LEMMA CancelKnowsStep ==
  ASSUME TypeOK, StoppedInv, Obedient, [Next]_vars, NEW d \in Deployments
  PROVE  CancelKnows(d)'
<1>0. CancelKnows(d) /\ CidTrue(d) /\ cancel[d].snap \in Row
  BY DEF StoppedInv, TypeOK
<1>1. CASE /\ cancel'[d].snap.cid = cancel[d].snap.cid
           /\ cancel'[d].pc \in {cancel[d].pc, "committed", "aborting", "stopping"}
  BY <1>0, <1>1, KnownStep DEF CancelKnows
<1>2. CASE CancelLoad(d)
  <2>1. cancel'[d].pc = "loaded" /\ cancel'[d].snap = row[d]
    BY <1>2 DEF CancelLoad, TypeOK
  <2>. QED BY <1>0, <2>1, KnownStep DEF CancelKnows, CidTrue
<1>3. CASE CancelCommit(d)
  <2>1. cancel'[d].pc = "committed" /\ cancel'[d].snap.cid = cancel[d].snap.cid
    BY <1>0, <1>3 DEF CancelCommit, TypeOK, Row
  <2>. QED BY <1>1, <2>1
<1>4. ASSUME cancel' = [cancel EXCEPT ![d] = CancelDone] PROVE CancelKnows(d)'
  <2>1. cancel'[d].pc = "done" /\ cancel'[d].snap.cid = 0
    BY <1>4 DEF TypeOK, CancelDone, IdleCancel, NewRow
  <2>. QED BY <2>1 DEF CancelKnows
<1>5. CASE CancelAbort(d) \/ CancelAborted(d)
  <2>1. CASE cancel' = [cancel EXCEPT ![d] = CancelDone]
    BY <1>4, <2>1
  <2>2. CASE cancel' # [cancel EXCEPT ![d] = CancelDone]
    <3>1. cancel'[d].pc \in {"aborting", "stopping"} /\ cancel'[d].snap = cancel[d].snap
      BY <1>5, <2>2 DEF CancelAbort, CancelAborted, TypeOK
    <3>. QED BY <1>1, <3>1
  <2>. QED BY <2>1, <2>2
<1>6. CASE CancelStop(d)
  <2>1. CASE /\ HasLiveContainer(cancel[d].snap) /\ StopContainer(d, cancel[d].snap.cid)
             /\ cancel' = [cancel EXCEPT ![d].pc = "stopped"]
    <3>1. cancel'[d].pc = "stopped" /\ cancel'[d].snap = cancel[d].snap
      BY <2>1 DEF TypeOK
    <3>2. Names(d, cancel[d].snap.cid) /\ cancel[d].snap.cid # 0
      BY <1>0, <2>1 DEF CancelKnows, HasLiveContainer
    <3>3. cont'[d].state # "running" /\ Calm(d)'
      BY <2>1, <3>2, StopEffect, CalmStep DEF Names
    <3>. QED BY <3>1, <3>2, <3>3, KnownStep DEF CancelKnows, Stopped
  <2>2. CASE /\ HasLiveContainer(cancel[d].snap) /\ ~Present(d, cancel[d].snap.cid)
             /\ cancel' = [cancel EXCEPT ![d].pc = "gone"]
    <3>1. cancel'[d].pc = "gone" /\ cancel'[d].snap = cancel[d].snap
      BY <2>2 DEF TypeOK
    <3>2. Names(d, cancel[d].snap.cid) /\ Deleted(d)
      BY <1>0, <2>2 DEF CancelKnows, HasLiveContainer, Present, Names, Deleted
    <3>. QED BY <3>1, <3>2, KnownStep DEF CancelKnows
  <2>. QED BY <1>4, <1>6, <2>1, <2>2 DEF CancelStop
<1>7. CASE CancelStopped(d)
  BY <1>4, <1>7 DEF CancelStopped
<1>8. CASE cancel'[d] = cancel[d]
  BY <1>1, <1>8
<1>. QED BY <1>2, <1>3, <1>4, <1>5, <1>6, <1>7, <1>8, StepRequest DEF RequestChange, CancelNext

-----------------------------------------------------------------------------
(* What the jobs know, action by action. *)
LEMMA SlotKnowsParts ==
  ASSUME NEW w
  PROVE  /\ SlotKnows(w) <=> JobKnows(w) /\ Tidy(w)
         /\ SlotKnows(w)' <=> JobKnows(w)' /\ Tidy(w)'
BY DEF SlotKnows

LEMMA TidyStep ==
  ASSUME TypeOK, StoppedInv, Obedient, [Next]_vars, NEW w \in Slots,
         Fresh(w) \/ (slot'[w].todo = slot[w].todo /\ slot'[w].marks = slot[w].marks)
  PROVE  Tidy(w)'
<1>1. Tidy(w) /\ \A item \in slot[w].todo : item[1] \in Deployments
  BY SlotKnowsParts DEF StoppedInv, TypeOK, Slot
<1>. QED BY <1>1, KnownStep DEF Fresh, Tidy

(* A step of a job's own that opens the container changes its slot. *)
LEMMA StartMoves ==
  ASSUME TypeOK, NEW w \in Slots, StartNext(w)
  PROVE  slot'[w].pc # slot[w].pc
<1>0. slot[w] \in Slot
  BY DEF TypeOK
<1>1. CASE StartCreate(w)
  BY <1>0, <1>1 DEF StartCreate, At, TypeOK, Slot
<1>2. CASE ~StartCreate(w)
  <2>1. \/ Finish(w) /\ slot[w].pc # "idle"
        \/ Goto(w, "s_started") /\ slot[w].pc = "s_created"
        \/ Goto(w, "s_aborted") /\ slot[w].pc # "s_aborted"
        \/ \E new : Commit(w, new, "s_prepared") /\ slot[w].pc = "s_loaded"
        \/ \E new : Commit(w, new, "s_saved") /\ slot[w].pc = "s_started"
    BY <1>2 DEF StartNext, StartPrepare, StartContainer, StartSave, StartDone, StartFails,
                StartInterrupted, StartStops, StartAborted, At
  <2>. QED BY <2>1, FinishEffect, GotoEffect, CommitSlot
<1>. QED BY <1>1, <1>2

LEMMA FailCalm ==
  ASSUME StoppedInv, NEW w \in Slots, slot[w].dep \in Deployments, slot[w].pc \in FailSteps
  PROVE  Launched(slot[w].dep) /\ Calm(slot[w].dep)
<1>1. Alive(slot[w].dep, "fail")
  BY AliveMeans, StepsOf DEF Busy
<1>. QED BY <1>1 DEF StoppedInv, FailingLate, Failing, Launched

(* A job whose slot does not change still knows what it knew. *)
LEMMA SlotRests ==
  ASSUME TypeOK, StoppedInv, Obedient, [Next]_vars, NEW w \in Slots, slot'[w] = slot[w]
  PROVE  SlotKnows(w)'
<1>. DEFINE d == slot[w].dep
<1>0. /\ JobKnows(w)
      /\ slot'[w].pc = slot[w].pc /\ slot'[w].dep = d /\ slot'[w].snap = slot[w].snap
      /\ slot'[w].gen = slot[w].gen
      /\ slot'[w].todo = slot[w].todo /\ slot'[w].marks = slot[w].marks
  BY SlotKnowsParts DEF StoppedInv
<1>1. Tidy(w)'
  BY <1>0, TidyStep
<1>2. CASE slot[w].pc \notin JobSteps
  BY <1>0, <1>1, <1>2, SlotKnowsParts
     DEF JobKnows, JobSteps, StartSteps, FailSteps, DeleteSteps, Launching
<1>3. CASE slot[w].pc \in JobSteps
  <2>0. d \in Deployments
    BY <1>3 DEF TypeOK
  <2>1. CASE slot[w].pc \in Launching
    <3>1. ~Opens(w, d)
      BY <1>0, StartMoves DEF Opens, StartNext
    <3>2. Launches(w, d)
      BY <2>1 DEF Launches
    <3>3. /\ cont'[d].gen = cont[d].gen
          /\ \/ cont'[d].state = cont[d].state
             \/ cont[d].state = "running" /\ cont'[d].state = "exited"
      BY <2>0, <3>1, <3>2, LaunchingCont
    <3>. QED BY <1>0, <1>1, <2>1, <3>3, SlotKnowsParts, SMTT(30) DEF JobKnows, Launching, FailSteps, DeleteSteps
  <2>2. CASE slot[w].pc \in {"s_saved", "s_aborted"} \cup FinalizeSteps \cup DeleteSteps
    <3>1. slot[w].pc = "s_saved" => Calm(d)' /\ cont'[d].gen = cont[d].gen
      BY <1>0, <2>0, CalmStep DEF JobKnows, ContEnds
    <3>. QED BY <1>0, <1>1, <2>0, <2>2, <3>1, KnownStep, SlotKnowsParts
             DEF JobKnows, Launching, FinalizeSteps, FailSteps, DeleteSteps
  <2>3. CASE slot[w].pc \in FailSteps
    <3>1. row'[d].cid = row[d].cid
      BY <2>0, <2>3, FailCalm, CalmStep
    <3>. QED BY <1>0, <1>1, <2>0, <2>3, <3>1, KnownStep, SlotKnowsParts
             DEF JobKnows, Launching, FailSteps, DeleteSteps
  <2>. QED BY <1>3, <2>1, <2>2, <2>3 DEF JobSteps, StartSteps, Launching
<1>. QED BY <1>2, <1>3

\* A slot about which nothing need be known beyond what it tidies up.
LEMMA KnowsNothing ==
  ASSUME NEW w \in Slots, Tidy(w)',
         slot'[w].pc \in {"idle", "c_scanning", "z_loaded", "z_concluded"}
  PROVE  SlotKnows(w)'
BY SlotKnowsParts DEF JobKnows, Launching, FailSteps, DeleteSteps

LEMMA TakeKnows ==
  ASSUME TypeOK, StoppedInv, Obedient, [Next]_vars, NEW w \in Slots, NEW d \in Deployments,
         TakeJob(w, d)
  PROVE  SlotKnows(w)'
<1>1. CASE slot' = slot
  BY <1>1, SlotRests
<1>2. cont' = cont /\ row' = row
  BY DEF TakeJob, StartLoad, StartDropped, FinalizeLoad, FailLoad, DeleteLoad, rowVars
<1>3. ASSUME NEW k \in Kinds, NEW pc, Take(w, d, k, pc)
      PROVE  slot'[w].pc = pc /\ slot'[w].dep = d /\ slot'[w].snap = row[d] /\ Tidy(w)'
  BY <1>3, TakeEffect, TidyStep
<1>4. CASE StartLoad(w, d)
  <2>1. queue[d]["start"] > 0 /\ Take(w, d, "start", "s_loaded") /\ "start" \in Kinds
    BY <1>4 DEF StartLoad, Take, Kinds
  <2>2. cont[d].state = "none" /\ row[d].cid = 0
    BY <2>1 DEF StoppedInv, OneStart, CidTrue, Names, Calm
  <2>. QED BY <1>2, <1>3, <2>1, <2>2, SlotKnowsParts DEF JobKnows, Launching, FailSteps, DeleteSteps
<1>5. ASSUME Take(w, d, "finalize", "z_loaded") PROVE SlotKnows(w)'
  BY <1>3, <1>5, KnowsNothing DEF Kinds
<1>6. ASSUME Take(w, d, "fail", "f_loaded") PROVE SlotKnows(w)'
  <2>1. row[d].cstat \in {"stopped", "removed"} => Stopped(d)'
    BY KnownStep DEF StoppedInv, StatusTrue
  <2>2. /\ slot'[w].pc = "f_loaded" /\ slot'[w].dep = d /\ slot'[w].snap = row[d] /\ Tidy(w)'
    BY <1>3, <1>6 DEF Kinds
  <2>. QED BY <1>2, <2>1, <2>2, SlotKnowsParts DEF JobKnows, Launching, FailSteps, DeleteSteps
<1>7. ASSUME Take(w, d, "delete", "d_loaded"), row[d].cid # 0 PROVE SlotKnows(w)'
  <2>1. Names(d, row[d].cid)'
    BY <1>2, <1>7, KnownStep DEF StoppedInv, CidTrue, Names
  <2>2. /\ slot'[w].pc = "d_loaded" /\ slot'[w].dep = d /\ slot'[w].snap = row[d] /\ Tidy(w)'
    BY <1>3, <1>7 DEF Kinds
  <2>. QED BY <1>2, <2>1, <2>2, SlotKnowsParts DEF JobKnows, Launching, FailSteps, DeleteSteps, Names
<1>. QED BY <1>1, <1>4, <1>5, <1>6, <1>7
         DEF TakeJob, StartDropped, FinalizeLoad, FailLoad, DeleteLoad, Discard

LEMMA StartKnows ==
  ASSUME TypeOK, StoppedInv, Obedient, [Next]_vars, NEW w \in Slots, StartNext(w)
  PROVE  SlotKnows(w)'
<1>d. PICK d \in Deployments : d = slot[w].dep
  BY RunningDep
<1>0. /\ d = slot[w].dep /\ slot[w] \in Slot /\ slot[w].snap \in Row /\ JobKnows(w)
      /\ cont[d] \in Container
  BY <1>d, SlotKnowsParts DEF TypeOK, StoppedInv, Slot
<1>1. slot[w].pc \in Launching => Launches(w, d)
  BY <1>0 DEF Launches
<1>2. ASSUME Keeps(w) PROVE slot'[w].dep = d /\ Tidy(w)'
  BY <1>0, <1>2, TidyStep DEF Keeps
<1>3. CASE StartPrepare(w)
  <2>. DEFINE new == [slot[w].snap EXCEPT !.status = "prepare"]
  <2>1. Commit(w, new, "s_prepared") /\ new.cid = slot[w].snap.cid /\ slot[w].pc = "s_loaded"
    BY <1>0, <1>3 DEF StartPrepare, At, Row
  <2>. HIDE DEF new
  <2>2. slot'[w].pc = "s_prepared" /\ slot'[w].snap = new /\ Keeps(w) /\ cont' = cont
    BY <1>3, <2>1, CommitSlot DEF StartPrepare
  <2>. QED BY <1>0, <1>2, <2>1, <2>2, SlotKnowsParts DEF JobKnows, Launching, FailSteps, DeleteSteps
<1>4. CASE StartCreate(w)
  <2>1. /\ slot'[w].pc = "s_created" /\ slot'[w].gen = cont[d].gen + 1
        /\ slot'[w].snap = slot[w].snap /\ Keeps(w)
    BY <1>0, <1>4 DEF StartCreate, TypeOK, Slot, Keeps
  <2>2. cont'[d].gen = cont[d].gen + 1 /\ cont[d].gen \in Nat
    BY <1>0, <1>4 DEF StartCreate, NewContainer, TypeOK, Container
  <2>3. slot[w].pc \in Launching
    BY <1>4 DEF StartCreate, At, Launching
  <2>. QED BY <1>0, <1>2, <2>1, <2>2, <2>3, SlotKnowsParts
           DEF JobKnows, Launching, FailSteps, DeleteSteps
<1>5. CASE StartContainer(w)
  <2>1. slot'[w].pc = "s_started" /\ slot'[w].snap = slot[w].snap /\ Keeps(w)
    BY <1>5, GotoEffect DEF StartContainer
  <2>2. slot'[w].gen = slot[w].gen /\ slot[w].pc = "s_created"
    BY <1>0, <1>5 DEF StartContainer, Goto, At, TypeOK, Slot
  <2>3. cont'[d].gen = cont[d].gen /\ cont'[d].state = "running"
    BY <1>0, <1>5 DEF StartContainer, TypeOK, Container
  <2>. QED BY <1>0, <1>2, <2>1, <2>2, <2>3, SlotKnowsParts
           DEF JobKnows, Launching, FailSteps, DeleteSteps
<1>6. CASE StartSave(w)
  <2>. DEFINE new == [slot[w].snap EXCEPT !.status = "deploy", !.cstat = "running",
                                          !.cid = slot[w].gen]
  <2>1. Commit(w, new, "s_saved") /\ slot[w].pc = "s_started" /\ cont' = cont
    BY <1>6 DEF StartSave, At
  <2>. HIDE DEF new
  <2>2. slot'[w].pc = "s_saved" /\ slot'[w].gen = slot[w].gen /\ Keeps(w)
    BY <1>0, <2>1, CommitSlot DEF Commit, TypeOK, Slot
  <2>3. Calm(d)'
    BY <1>0, <1>6, SaveEffect
  <2>. QED BY <1>0, <1>2, <2>1, <2>2, <2>3, SlotKnowsParts
           DEF JobKnows, Launching, FailSteps, DeleteSteps
<1>7. CASE StartStops(w)
  <2>1. /\ slot[w].pc \in {"s_created", "s_started", "s_saved"} /\ StopContainer(d, slot[w].gen)
        /\ slot'[w].pc = "s_aborted" /\ Keeps(w)
    BY <1>0, <1>7, GotoEffect DEF StartStops
  <2>2. cont'[d].state # "running"
    BY <1>0, <2>1, StopEffect DEF JobKnows
  <2>3. Calm(d)'
    <3>1. CASE slot[w].pc = "s_saved"
      BY <1>0, <3>1, CalmStep DEF JobKnows
    <3>2. CASE slot[w].pc \in Launching
      BY <1>0, <1>1, <2>1, <3>2, LaunchEnds DEF Launches, Launching
    <3>. QED BY <2>1, <3>1, <3>2 DEF Launching
  <2>. QED BY <1>2, <2>1, <2>2, <2>3, SlotKnowsParts
           DEF JobKnows, Launching, FailSteps, DeleteSteps, Stopped
<1>8. ASSUME Finish(w) PROVE SlotKnows(w)'
  BY <1>8, FinishEffect, TidyStep, KnowsNothing
<1>. QED BY <1>3, <1>4, <1>5, <1>6, <1>7, <1>8
         DEF StartNext, StartDone, StartFails, StartInterrupted, StartAborted

LEMMA FailKnows ==
  ASSUME TypeOK, StoppedInv, Obedient, [Next]_vars, NEW w \in Slots, FailNext(w)
  PROVE  SlotKnows(w)'
<1>d. PICK d \in Deployments : d = slot[w].dep
  BY RunningDep
<1>0. /\ d = slot[w].dep /\ slot[w] \in Slot /\ slot[w].snap \in Row /\ JobKnows(w)
      /\ slot[w].pc \in FailSteps
  BY <1>d, SlotKnowsParts DEF TypeOK, StoppedInv, Slot, FailNext, FailMark, FailStop,
     FailStopped, FailConclude, At, FailSteps
<1>1. Launched(d) /\ CidTrue(d) /\ Calm(d)' /\ row'[d].cid = row[d].cid
  BY <1>0, FailCalm, CalmStep DEF StoppedInv
<1>2. ASSUME Keeps(w) PROVE slot'[w].dep = d /\ Tidy(w)'
  BY <1>0, <1>2, TidyStep DEF Keeps
<1>3. ASSUME Keeps(w), slot'[w].pc \in {"f_marked", "f_clean", "f_stopped", "f_gone"},
             slot'[w].snap.cid = slot[w].snap.cid,
             \/ slot'[w].snap.cstat = slot[w].snap.cstat
             \/ slot[w].pc \in {"f_stopped", "f_gone"},
             \/ slot'[w].pc = "f_marked"
             \/ slot[w].pc \in {"f_stopped", "f_gone"}
             \/ Stopped(d)' /\ cont'[d].state # "created"
      PROVE  SlotKnows(w)'
  <2>1. slot'[w].snap.cid = row'[d].cid
    BY <1>0, <1>1, <1>3 DEF JobKnows
  <2>2. slot[w].pc \in {"f_stopped", "f_gone"} => Stopped(d)' /\ cont'[d].state # "created"
    BY <1>0, KnownStep DEF JobKnows
  <2>3. slot[w].snap.cstat \in {"stopped", "removed"} => Stopped(d)'
    BY <1>0, KnownStep DEF JobKnows
  <2>. QED BY <1>2, <1>3, <2>1, <2>2, <2>3, SlotKnowsParts
           DEF JobKnows, Launching, FailSteps, DeleteSteps
<1>4. CASE FailMark(w)
  <2>. DEFINE new == [slot[w].snap EXCEPT !.status = "fail"]
  <2>1. /\ Commit(w, new, "f_marked") /\ new.cid = slot[w].snap.cid
        /\ new.cstat = slot[w].snap.cstat
    BY <1>0, <1>4 DEF FailMark, Row
  <2>. HIDE DEF new
  <2>. QED BY <1>3, <2>1, CommitSlot
<1>5. CASE FailStopped(w)
  <2>. DEFINE new == [slot[w].snap EXCEPT
                        !.cstat = IF At(w, "f_stopped") THEN "stopped" ELSE "removed"]
  <2>1. /\ Commit(w, new, "f_clean") /\ new.cid = slot[w].snap.cid
        /\ slot[w].pc \in {"f_stopped", "f_gone"}
    BY <1>0, <1>5 DEF FailStopped, Row
  <2>. HIDE DEF new
  <2>. QED BY <1>3, <2>1, CommitSlot
<1>6. CASE FailStop(w)
  <2>1. \E pc \in {"f_stopped", "f_gone", "f_clean"} : Goto(w, pc)
    BY <1>6 DEF FailStop
  <2>2. Keeps(w) /\ slot'[w].snap = slot[w].snap /\ slot'[w].pc \in {"f_clean", "f_stopped", "f_gone"}
    BY <2>1, GotoEffect
  <2>3. slot[w].snap.cid # 0 => Names(d, slot[w].snap.cid)
    BY <1>0, <1>1 DEF JobKnows, CidTrue
  <2>4. cont'[d].state \notin {"running", "created"}
    <3>1. CASE HasLiveContainer(slot[w].snap) /\ Present(d, slot[w].snap.cid)
      <4>1. StopContainer(d, slot[w].snap.cid)
        BY <1>0, <1>6, <3>1 DEF FailStop, Obedient
      <4>. QED BY <1>0, <1>1, <2>3, <3>1, <4>1, StopEffect
               DEF HasLiveContainer, Names, Launched, ContEnds
    <3>2. CASE HasLiveContainer(slot[w].snap) /\ ~Present(d, slot[w].snap.cid)
      BY <1>0, <2>3, <3>2, KnownStep DEF HasLiveContainer, Names, Present, Deleted
    <3>3. CASE ~HasLiveContainer(slot[w].snap)
      <4>1. Stopped(d) /\ cont[d].state # "created"
        BY <1>0, <1>1, <3>3 DEF HasLiveContainer, JobKnows, Launched, Stopped
      <4>. QED BY <1>0, <4>1, KnownStep DEF Stopped
    <3>. QED BY <3>1, <3>2, <3>3
  <2>. QED BY <1>1, <1>3, <2>2, <2>4 DEF Stopped
<1>7. CASE FailConclude(w)
  BY <1>7, FinishEffect, TidyStep, KnowsNothing DEF FailConclude
<1>. QED BY <1>4, <1>5, <1>6, <1>7 DEF FailNext

LEMMA DeleteKnows ==
  ASSUME TypeOK, StoppedInv, Obedient, [Next]_vars, NEW w \in Slots, DeleteNext(w)
  PROVE  SlotKnows(w)'
<1>d. PICK d \in Deployments : d = slot[w].dep
  BY RunningDep
<1>0. cont[d] \in Container /\ cont \in [Deployments -> Container] /\ JobKnows(w)
  BY SlotKnowsParts DEF TypeOK, StoppedInv
<1>1. CASE Goto(w, "d_deleted")
  <2>1. /\ slot[w].pc = "d_loaded"
        /\ cont' = [cont EXCEPT ![d].state = IF Present(d, slot[w].snap.cid) THEN "none" ELSE @]
    <3>1. slot'[w].pc = "d_deleted"
      BY <1>1, GotoEffect
    <3>2. ~Finish(w)
      BY <3>1, FinishEffect
    <3>. QED BY <1>d, <3>2 DEF DeleteNext, DeleteRemove, DeleteCommit, At
  <2>c. PICK cid : cid = slot[w].snap.cid
    OBVIOUS
  <2>2. Names(d, cid)
    BY <1>d, <1>0, <2>1, <2>c DEF JobKnows, DeleteSteps
  <2>3. Calm(d)' /\ Names(d, cid)'
    BY <2>2, CalmStep, KnownStep DEF Names
  <2>4. cont'[d].state = "none"
    BY <1>0, <2>1, <2>2, <2>c DEF Names, Present, Container
  <2>5. slot'[w].pc = "d_deleted" /\ slot'[w].snap = slot[w].snap /\ slot'[w].dep = d /\ Tidy(w)'
    BY <1>d, <1>1, GotoEffect, TidyStep DEF Keeps
  <2>. QED BY <2>c, <2>3, <2>4, <2>5, SlotKnowsParts
           DEF JobKnows, Launching, FailSteps, DeleteSteps, Deleted, Names
<1>2. CASE Finish(w)
  BY <1>2, FinishEffect, TidyStep, KnowsNothing
<1>. QED BY <1>1, <1>2 DEF DeleteNext, DeleteRemove, DeleteCommit

LEMMA CleanupKnows ==
  ASSUME TypeOK, StoppedInv, Obedient, [Next]_vars, NEW w \in Slots, CleanupNext(w)
  PROVE  SlotKnows(w)'
<1>0. slot[w] \in Slot /\ Tidy(w) /\ cont \in [Deployments -> Container]
  BY SlotKnowsParts DEF TypeOK, StoppedInv
<1>1. ASSUME Tidy(w)' PROVE SlotKnows(w)'
  BY <1>1, CleanupStays, KnowsNothing
<1>2. CASE CleanupLoad(w)
  <2>1. PICK referenced \in SUBSET Deployments :
          slot' = [slot EXCEPT ![w] = [IdleSlot EXCEPT
            !.pc = "c_scanning", !.todo = {<<d, row[d].cid>> : d \in Inactive(referenced)}]]
    BY <1>2, ZenonT(30) DEF CleanupLoad
  <2>2. /\ slot'[w].todo = {<<d, row[d].cid>> : d \in Inactive(referenced)}
        /\ \A d \in Deployments : slot'[w].marks[d] = "keep"
    BY <2>1 DEF TypeOK, IdleSlot
  <2>3. ASSUME NEW d \in Inactive(referenced) PROVE Names(d, row[d].cid)'
    <3>1. d \in Deployments /\ Names(d, row[d].cid)
      BY DEF Inactive, StoppedInv, CidTrue
    <3>2. row'[d].cid = row[d].cid
      BY <3>1, CalmStep DEF Names
    <3>. QED BY <3>1, <3>2, KnownStep DEF Names
  <2>4. ASSUME NEW item \in slot'[w].todo PROVE Names(item[1], item[2])'
    <3>1. PICK d \in Inactive(referenced) : item = <<d, row[d].cid>>
      BY <2>2
    <3>2. Names(d, row[d].cid) /\ d \in Deployments
      BY DEF Inactive, StoppedInv, CidTrue
    <3>. QED BY <3>1, <3>2, KnownStep DEF Names
  <2>. QED BY <1>1, <2>2, <2>4 DEF Tidy
<1>3. CASE CleanupCommit(w)
  BY <1>1, <1>3, FinishEffect, TidyStep DEF CleanupCommit
<1>4. ASSUME NEW item \in slot[w].todo, CleanupOne(w, item[1], item[2])
      PROVE  SlotKnows(w)'
  <2>. DEFINE d == item[1]
              cid == item[2]
  <2>0. d \in Deployments /\ Names(d, cid) /\ item = <<d, cid>>
    BY <1>0 DEF Slot, Tidy
  <2>1. PICK m \in Marks : /\ slot' = [slot EXCEPT ![w].todo = @ \ {<<d, cid>>}, ![w].marks[d] = m]
                           /\ m # "keep" => \/ cont' = [cont EXCEPT ![d].state = "none"]
                                            \/ ~Present(d, cid) /\ cont' = cont
    BY <1>4 DEF CleanupOne, Marks, Obedient
  <2>2. m # "keep" => Deleted(d)'
    <3>1. m # "keep" => cont'[d].state = "none"
      BY <1>0, <2>0, <2>1 DEF Names, Present, Container
    <3>. QED BY <2>0, <3>1, CalmStep DEF Names, Deleted
  <2>3. /\ slot'[w].todo \subseteq slot[w].todo
        /\ slot'[w].marks[d] = m
        /\ \A e \in Deployments : e # d => slot'[w].marks[e] = slot[w].marks[e]
    BY <1>0, <2>0, <2>1 DEF TypeOK, Slot
  <2>4. \A i \in slot[w].todo : Names(i[1], i[2])'
    BY <1>0, KnownStep DEF Slot, Tidy
  <2>5. \A e \in Deployments : slot[w].marks[e] # "keep" => Deleted(e)'
    BY <1>0, KnownStep DEF Tidy
  <2>. QED BY <1>1, <2>2, <2>3, <2>4, <2>5 DEF Tidy
<1>. QED BY <1>2, <1>3, <1>4 DEF CleanupNext

LEMMA StoppedStep ==
  ASSUME TypeOK, StoppedInv, Obedient, [Next]_vars
  PROVE  StoppedInv'
<1>1. ASSUME NEW w \in Slots PROVE SlotKnows(w)'
  <2>1. CASE Emptied(w)
    BY <2>1, TidyStep, KnowsNothing DEF Emptied
  <2>2. CASE FinalizeNext(w)
    <3>1. Tidy(w)' /\ slot'[w].pc \in {"idle", "z_concluded"}
      <4>1. Finish(w) \/ \E new : Commit(w, new, "z_concluded")
        BY <2>2 DEF FinalizeNext, FinalizeFails, FinalizeConclude, FinalizeDone
      <4>. QED BY <4>1, FinishEffect, CommitSlot, TidyStep DEF Keeps
    <3>. QED BY <3>1, KnowsNothing
  <2>. QED BY <2>1, <2>2, StepSlot, SlotRests, TakeKnows, StartKnows, FailKnows, DeleteKnows,
              CleanupKnows DEF SlotChange, WorkerNext
<1>. QED BY <1>1, OneStartStep, FailingStep, CidStep, StatusStep, FailedStep, CancelKnowsStep
         DEF StoppedInv

LEMMA InitStopped == Init => StoppedInv
<1>. SUFFICES ASSUME Init PROVE StoppedInv
  OBVIOUS
<1>1. ASSUME NEW w \in Slots PROVE slot[w] = IdleSlot
  BY DEF Init
<1>2. ASSUME NEW w \in Slots PROVE SlotKnows(w)
  BY <1>1 DEF SlotKnows, JobKnows, Tidy, IdleSlot, Launching, FailSteps, DeleteSteps
<1>3. ASSUME NEW d \in Deployments
      PROVE  OneStart(d) /\ FailingLate(d) /\ CidTrue(d) /\ StatusTrue(d)
  <2>1. \A k \in Kinds : ~Alive(d, k)
    BY InitAlive
  <2>2. \A w \in Slots : ~Launches(w, d)
    BY <1>1 DEF Launches, Launching, IdleSlot
  <2>. QED BY <2>1, <2>2 DEF Init, OneStart, FailingLate, Failing, CidTrue, StatusTrue, NewRow,
                             NotHeld, Kinds
<1>4. ASSUME NEW d \in Deployments PROVE FailedTrue(d) /\ CancelKnows(d)
  BY DEF Init, FailedTrue, CancelKnows, NewRow, IdleCancel
<1>. QED BY <1>2, <1>3, <1>4 DEF StoppedInv

(* Whatever the deployments, slots and cancels: as long as Docker obeys and   *)
(* the worker does not die, a deployment that concludes as failed leaves no   *)
(* container running, whichever of several fail jobs concluded it.            *)
THEOREM FailedStops == ~DockerFaults /\ MaxCrashes = 0 => (Spec => []FailedIsStopped)
<1>1. Init => StoppedInv
  BY InitStopped
<1>2. ASSUME ~DockerFaults, MaxCrashes = 0 PROVE TypeOK /\ StoppedInv /\ [Next]_vars => StoppedInv'
  BY <1>2, StoppedStep DEF Obedient
<1>3. TypeOK /\ StoppedInv => FailedIsStopped
  <2>. SUFFICES ASSUME TypeOK, StoppedInv, NEW d \in Deployments, row[d].conclusion = "failed"
                PROVE  cont[d].state \in {"none", "exited"}
    BY DEF FailedIsStopped
  <2>1. cont[d].state \in {"none", "created", "running", "exited"}
    BY DEF TypeOK, Container
  <2>. QED BY <2>1 DEF StoppedInv, FailedTrue, Stopped
<1>4. ASSUME ~DockerFaults, MaxCrashes = 0 PROVE Spec => []FailedIsStopped
  <2>1. TypeOK /\ StoppedInv /\ [Next]_vars => StoppedInv'
    BY <1>2, <1>4
  <2>. QED BY <1>1, <1>3, <2>1, TypeCorrect, PTL DEF Spec
<1>. QED BY <1>4

-----------------------------------------------------------------------------
(* The documented lifecycle. Without a cancel, a fault or a crash a row is   *)
(* written by one process after the other: the start job, the monitor, and   *)
(* then either the one finalize job or the fail jobs.                        *)
Undisturbed == Obedient /\ ~UserCancels

\* The monitor will not find d's app answering, now or later.
Polled(d) == mon[d].pc \in {"check", "probe"}
Early(d) == row[d].status \in {"prepare", "deploy"}
Beyond(d) == d \in expired \/ Stopped(d) \/ (~Early(d) /\ ~Polled(d))

\* What MonitorReady began is in one hand at a time.
Finalizes(w, d) == slot[w].dep = d /\ slot[w].pc = "z_loaded"
Handed(d) == mon[d].pc = "ready" \/ queue[d]["finalize"] > 0 \/ \E w \in Slots : Finalizes(w, d)
OneHand(d) ==
  /\ queue[d]["finalize"] \in {0, 1}
  /\ mon[d].pc = "ready" => queue[d]["finalize"] = 0
  /\ mon[d].pc = "ready" \/ queue[d]["finalize"] = 1 => \A w \in Slots : ~Finalizes(w, d)
  /\ \A w, v \in Slots : Finalizes(w, d) /\ Finalizes(v, d) => w = v

\* How the row, the monitor and the jobs of d fit together.
Uncanceled(d) == cancel[d].pc = "idle" /\ d \notin aborting
ConclusionFits(d) ==
  /\ row[d].status \in {"prepare", "deploy", "finalize"} => row[d].conclusion = "none"
  /\ row[d].status = "fail" => row[d].conclusion \in {"none", "failed"}
  /\ row[d].status = "completed" => row[d].conclusion \in {"succeeded", "failed"}
HeldTrue(d) ==
  /\ mon[d].cid # 0 => Names(d, mon[d].cid)
  /\ mon[d].pc # "idle" /\ mon[d].cid = 0 => Stopped(d)
MonitorFits(d) ==
  /\ mon[d].pc = "probe" => d \notin expired
  /\ row[d].status = "prepare" => mon[d].pc = "idle"
  /\ Early(d) => mon[d].status = "deploy"
  /\ row[d].status = "finalize" \/ row[d].conclusion = "succeeded" => ~Polled(d)
HandFits(d) ==
  /\ Handed(d) => row[d].status = "finalize"
  /\ Handed(d) \/ row[d].conclusion = "succeeded" => ~Alive(d, "fail")
StartFits(d) == ~Calm(d) => row[d].status = "prepare"
FailFits(d) == Alive(d, "fail") \/ ~Early(d) => Beyond(d)

Course(d) ==
  /\ Uncanceled(d) /\ ConclusionFits(d) /\ HeldTrue(d) /\ MonitorFits(d)
  /\ HandFits(d) /\ OneHand(d) /\ StartFits(d) /\ FailFits(d)

\* What the snapshot of the job in slot w may still say.
SnapFits(w) ==
  LET s == slot[w].snap IN
  /\ slot[w].pc # "s_aborted"
  /\ slot[w].pc \in Launching => s.status = "prepare"
  /\ slot[w].pc = "z_loaded" => s.status = "finalize" /\ s.conclusion = "none"
  /\ slot[w].pc \in FailSteps => s.conclusion = "none"
  /\ slot[w].pc \in FailSteps \ {"f_loaded"} => s.status = "fail"
  /\ slot[w].pc \in FailSteps /\ s.status = "fail" => row[slot[w].dep].status \in {"fail", "completed"}

CourseInv == (\A d \in Deployments : Course(d)) /\ \A w \in Slots : SnapFits(w)

\* How a step may change the columns that the lifecycle is about.
Same(d) == row'[d].status = row[d].status /\ row'[d].conclusion = row[d].conclusion
Becomes(d, s, c) == row'[d].status = s /\ row'[d].conclusion = c
Deploys(d) == /\ row[d].status = "prepare" /\ row[d].conclusion = "none"
              /\ Becomes(d, "deploy", "none")
              /\ \E w \in Slots : Launches(w, d) /\ StartSave(w)
Readied(d) == /\ row[d].status = "deploy" /\ row[d].conclusion = "none"
              /\ Becomes(d, "finalize", "none") /\ MonitorReady(d)
Succeeds(d) == /\ row[d].status = "finalize" /\ row[d].conclusion = "none"
               /\ Becomes(d, "completed", "succeeded")
               /\ \E w \in Slots : Finalizes(w, d) /\ FinalizeConclude(w)
Fails(d) == /\ Alive(d, "fail") /\ row[d].conclusion \in {"none", "failed"}
            /\ row[d].status # "fail" /\ Becomes(d, "fail", row[d].conclusion)
            /\ \E w \in Slots : slot[w].dep = d /\ FailMark(w)
Concludes(d) == /\ Alive(d, "fail") /\ row[d].conclusion \in {"none", "failed"}
                /\ row[d].status \in {"fail", "completed"} /\ Becomes(d, "completed", "failed")
                /\ \E w \in Slots : slot[w].dep = d /\ FailConclude(w)
Advance(d) == Same(d) \/ Deploys(d) \/ Readied(d) \/ Succeeds(d) \/ Fails(d) \/ Concludes(d)

LEMMA NoCancel ==
  ASSUME TypeOK, CourseInv, Undisturbed, [Next]_vars, NEW d \in Deployments
  PROVE  /\ ~CancelLoad(d) /\ ~CancelNext(d)
         /\ ~CancelCommit(d) /\ ~CancelStopped(d)
         /\ Uncanceled(d)'
<1>1. cancel[d].pc = "idle" /\ d \notin aborting
  BY DEF CourseInv, Course, Uncanceled
<1>2. ~CancelLoad(d) /\ ~CancelNext(d) /\ ~CancelCommit(d) /\ ~CancelStopped(d) /\ ~CancelAbort(d)
  BY <1>1 DEF Undisturbed, CancelLoad, CancelNext, CancelCommit, CancelAbort, CancelAborted,
     CancelStop, CancelStopped
<1>. QED BY <1>1, <1>2, StepRequest DEF RequestChange, Uncanceled

(* What the holder of d at z_loaded does: it was handed over, and is not any more. *)
LEMMA HolderOf ==
  ASSUME TypeOK, NEW w \in Slots, NEW d \in Deployments, Finalizes(w, d)
  PROVE  Handed(d) /\ Alive(d, "finalize")
BY StepsOf, AliveMeans DEF Finalizes, Handed, Busy, FinalizeSteps

LEMMA StepFinalizes ==
  ASSUME TypeOK, [Next]_vars, NEW w \in Slots, NEW d \in Deployments, Finalizes(w, d)'
  PROVE  Finalizes(w, d) \/ FinalizeLoad(w, d)
<1>1. CASE slot'[w] = slot[w]
  BY <1>1 DEF Finalizes
<1>2. CASE slot'[w].pc # "z_loaded"
  BY <1>2 DEF Finalizes
<1>3. ASSUME NEW e \in Deployments, TakeJob(w, e) PROVE Finalizes(w, d) \/ FinalizeLoad(w, d)
  <2>1. ASSUME Take(w, e, "finalize", "z_loaded") PROVE e = d
    BY <2>1, TakeEffect DEF Finalizes, Kinds
  <2>2. CASE slot' = slot
    BY <1>1, <2>2
  <2>3. ASSUME NEW k \in Kinds, NEW pc \in {"s_loaded", "f_loaded", "d_loaded"}, Take(w, e, k, pc)
        PROVE  slot'[w].pc # "z_loaded"
    BY <2>3, TakeEffect
  <2>. QED BY <1>2, <1>3, <2>1, <2>2, <2>3
           DEF TakeJob, StartLoad, StartDropped, FinalizeLoad, FailLoad, DeleteLoad, Discard, Kinds
<1>4. CASE StartNext(w) \/ FinalizeNext(w) \/ FailNext(w) \/ DeleteNext(w)
  <2>1. \/ Finish(w) \/ StartCreate(w)
        \/ \E pc \in SlotSteps \ {"z_loaded"} : Goto(w, pc) \/ \E new : Commit(w, new, pc)
    BY <1>4 DEF StartNext, StartPrepare, StartContainer, StartSave, StartDone, StartFails,
       StartInterrupted, StartStops, StartAborted, FinalizeNext, FinalizeFails, FinalizeConclude,
       FinalizeDone, FailNext, FailMark, FailStop, FailStopped, FailConclude, DeleteNext,
       DeleteRemove, DeleteCommit, SlotSteps, JobSteps, StartSteps, FinalizeSteps, FailSteps,
       DeleteSteps
  <2>2. StartCreate(w) => slot'[w].pc = "s_created"
    BY DEF StartCreate, TypeOK, Slot
  <2>. QED BY <1>2, <2>1, <2>2, FinishEffect, GotoEffect, CommitSlot
<1>5. CASE CleanupNext(w)
  BY <1>2, <1>5, CleanupStays
<1>. QED BY <1>1, <1>2, <1>3, <1>4, <1>5, StepSlot DEF SlotChange, WorkerNext, Emptied

LEMMA ReadyBorn ==
  ASSUME TypeOK, Obedient, [Next]_vars, NEW d \in Deployments
  PROVE  /\ mon'[d].pc = "ready" => mon[d].pc = "ready" \/ MonitorReady(d)
         /\ Polled(d)' => Polled(d) \/ (row[d].status = "deploy" /\ MonitorSelect)
         /\ MonitorHandOff(d) => mon[d].pc = "ready" /\ mon'[d].pc = "idle"
<1>1. CASE mon'[d] = mon[d]
  BY <1>1 DEF Polled, MonitorHandOff, MonitorRest, TypeOK
<1>2. CASE MonitorNext(d)
  BY <1>2 DEF TypeOK, Polled, MonitorNext, MonitorTimeout, MonitorTransient, MonitorLost, MonitorExited,
     MonitorProbe, MonitorNotReady, MonitorReady, MonitorHandOff, MonitorFail, MonitorRest
<1>3. CASE MonitorSelect
  BY <1>3 DEF TypeOK, Polled, MonitorSelect, NotHeld, MonitorHandOff
<1>. QED BY <1>1, <1>2, <1>3, StepMon

LEMMA HandedBorn ==
  ASSUME TypeOK, Obedient, [Next]_vars, NEW d \in Deployments, Handed(d)'
  PROVE  Handed(d) \/ MonitorReady(d)
<1>1. CASE mon'[d].pc = "ready"
  BY <1>1, ReadyBorn DEF Handed
<1>2. \A w \in Slots : FinalizeLoad(w, d) => Handed(d)
  BY DEF FinalizeLoad, Take, Discard, Handed
<1>3. CASE queue'[d]["finalize"] > 0
  BY <1>2, <1>3, StepQueue, ReadyBorn DEF QueueChange, FinalizeQueueChange, Handed
<1>4. ASSUME NEW w \in Slots, Finalizes(w, d)' PROVE Handed(d)
  BY <1>2, <1>4, StepFinalizes DEF Handed
<1>. QED BY <1>1, <1>3, <1>4 DEF Handed

LEMMA HandEnds ==
  ASSUME TypeOK, CourseInv, Obedient, [Next]_vars, NEW w \in Slots, NEW d \in Deployments,
         slot[w].dep = d, FinalizeConclude(w) \/ FinalizeFails(w)
  PROVE  Finalizes(w, d) /\ ~Handed(d)'
<1>1. Finalizes(w, d) /\ mon' = mon
  BY DEF Finalizes, FinalizeConclude, FinalizeFails, At, monVars
<1>2. OneHand(d) /\ queue[d]["finalize"] = 0 /\ mon[d].pc # "ready"
  BY <1>1 DEF CourseInv, Course, OneHand
<1>3. \A v \in Slots : ~FinalizeLoad(v, d)
  BY <1>2 DEF FinalizeLoad, Take, Discard
<1>4. queue'[d]["finalize"] = 0
  BY <1>2, <1>3, StepQueue, ReadyBorn DEF QueueChange, FinalizeQueueChange
<1>5. slot'[w].pc # "z_loaded"
  BY FinishEffect, CommitSlot DEF FinalizeConclude, FinalizeFails
<1>6. \A v \in Slots : ~Finalizes(v, d)'
  BY <1>1, <1>2, <1>3, <1>5, StepFinalizes DEF OneHand, Finalizes
<1>. QED BY <1>1, <1>2, <1>4, <1>6 DEF Handed

LEMMA ReadyFits ==
  ASSUME TypeOK, StoppedInv, CourseInv, NEW d \in Deployments, MonitorReady(d)
  PROVE  /\ row[d].status = "deploy" /\ row[d].conclusion = "none" /\ mon[d].status = "deploy"
         /\ ~Handed(d) /\ ~Alive(d, "fail") /\ mon[d].pc = "probe"
         /\ row'[d].status = "finalize" /\ row'[d].conclusion = "none"
<1>0. Course(d) /\ mon[d].pc = "probe" /\ row[d] \in Row
  BY DEF CourseInv, MonitorReady, TypeOK
<1>1. d \notin expired /\ ~Stopped(d) /\ Polled(d)
  BY <1>0 DEF Course, MonitorFits, MonitorReady, Stopped, Polled
<1>2. Early(d) /\ ~Alive(d, "fail")
  BY <1>0, <1>1 DEF Course, FailFits, Beyond
<1>3. row[d].status = "deploy" /\ mon[d].status = "deploy"
  BY <1>0, <1>2 DEF Course, MonitorFits, Early
<1>4. row' = [row EXCEPT ![d].status = "finalize"]
  BY <1>3 DEF MonitorReady
<1>5. row'[d].status = "finalize"
  BY <1>0, <1>4 DEF TypeOK, Row
<1>. QED BY <1>0, <1>2, <1>3, <1>5, ReadyRow DEF Course, HandFits, ConclusionFits

LEMMA LaunchFits ==
  ASSUME TypeOK, StoppedInv, CourseInv, NEW w \in Slots, NEW d \in Deployments, Launches(w, d)
  PROVE  row[d].status = "prepare" /\ row[d].conclusion = "none" /\ slot[w].snap.status = "prepare"
<1>1. ~Calm(d) /\ slot[w].pc \in Launching /\ slot[w].dep = d
  BY NotCalm DEF Launches
<1>. QED BY <1>1 DEF CourseInv, Course, StartFits, ConclusionFits, SnapFits

LEMMA FailingRow ==
  ASSUME TypeOK, CourseInv, NEW d \in Deployments, Alive(d, "fail")
  PROVE  ~Handed(d) /\ row[d].conclusion \in {"none", "failed"}
BY DEF CourseInv, Course, HandFits, ConclusionFits, TypeOK, Row, Statuses, Conclusions

LEMMA FailBusy ==
  ASSUME TypeOK, NEW w \in Slots, NEW d \in Deployments, slot[w].dep = d, slot[w].pc \in FailSteps
  PROVE  Alive(d, "fail")
BY StepsOf, AliveMeans DEF Busy

(* Every step leaves d's columns alone, or moves them on. *)
LEMMA StepAdvance ==
  ASSUME TypeOK, StoppedInv, CourseInv, Undisturbed, [Next]_vars, NEW d \in Deployments
  PROVE  Advance(d)
<1>1. CASE Same(d)
  BY <1>1 DEF Advance
<1>2. CASE RowSame(d)
  BY <1>1, <1>2 DEF RowSame, Same
<1>3. CASE MonitorReady(d)
  BY <1>3, ReadyFits DEF Advance, Readied, Becomes
<1>4. ASSUME NEW w \in Slots, CleanupCommit(w) PROVE Same(d)
  BY <1>4, CleanupRow DEF Same
<1>5. ASSUME NEW w \in Slots, Writes(w, d) PROVE Advance(d)
  <2>0. slot[w].dep = d
    BY <1>5 DEF Writes
  <2>1. CASE StartPrepare(w)
    <3>1. Launches(w, d)
      BY <2>0, <2>1 DEF StartPrepare, At, Launches, Launching
    <3>. QED BY <1>1, <2>0, <2>1, <3>1, LaunchFits, StartRow DEF Column, Same
  <2>2. CASE StartSave(w)
    <3>1. Launches(w, d)
      BY <2>0, <2>2 DEF StartSave, At, Launches, Launching
    <3>2. row'[d].status = "deploy" /\ row'[d].conclusion = "none"
      BY <2>0, <2>2, <3>1, LaunchFits, StartRow DEF Column
    <3>. QED BY <2>2, <3>1, <3>2, LaunchFits DEF Advance, Deploys, Becomes
  <2>3. ~StartAborted(w)
    BY DEF CourseInv, SnapFits, StartAborted, At
  <2>4. CASE FinalizeConclude(w)
    <3>1. Finalizes(w, d)
      BY <2>0, <2>4 DEF FinalizeConclude, At, Finalizes
    <3>2. row[d].status = "finalize" /\ row[d].conclusion = "none"
      BY <3>1, HolderOf DEF CourseInv, Course, HandFits, ConclusionFits
    <3>3. slot[w].snap.status = "finalize" /\ slot[w].snap.conclusion = "none"
      BY <3>1 DEF CourseInv, SnapFits, Finalizes
    <3>4. row'[d].status = "completed" /\ row'[d].conclusion = "succeeded"
      BY <2>0, <2>4, <3>3, FinalizeRow DEF Column
    <3>. QED BY <2>4, <3>1, <3>2, <3>4 DEF Advance, Succeeds, Becomes
  <2>5. CASE FailMark(w)
    <3>1. Alive(d, "fail")
      BY <2>0, <2>5, FailBusy DEF FailMark, At, FailSteps
    <3>2. row'[d].conclusion = row[d].conclusion /\ row'[d].status \in {"fail", row[d].status}
      BY <2>0, <2>5, FailRow DEF Column
    <3>. QED BY <1>1, <2>0, <2>5, <3>1, <3>2, FailingRow DEF Advance, Fails, Becomes, Same
  <2>6. CASE FailStopped(w)
    BY <1>1, <2>0, <2>6, FailRow DEF Same
  <2>7. CASE FailConclude(w)
    <3>1. Alive(d, "fail") /\ slot[w].pc = "f_clean"
      BY <2>0, <2>7, FailBusy DEF FailConclude, At, FailSteps
    <3>2. /\ slot[w].snap.status = "fail" /\ slot[w].snap.conclusion = "none"
          /\ row[d].status \in {"fail", "completed"}
      BY <2>0, <3>1 DEF CourseInv, SnapFits, FailSteps
    <3>3. row'[d].status = "completed" /\ row'[d].conclusion = "failed"
      BY <2>0, <2>7, <3>2, FailRow DEF Column
    <3>. QED BY <2>0, <2>7, <3>1, <3>2, <3>3, FailingRow DEF Advance, Concludes, Becomes
  <2>8. CASE DeleteCommit(w)
    BY <1>1, <2>0, <2>8, DeleteRow DEF Same
  <2>. QED BY <1>5, <2>1, <2>2, <2>3, <2>4, <2>5, <2>6, <2>7, <2>8 DEF Writes
<1>. QED BY <1>1, <1>2, <1>3, <1>4, <1>5, StepRow, NoCancel DEF RowChange

-----------------------------------------------------------------------------
(* The course is kept, part by part. *)
LEMMA ConclusionFitsStep ==
  ASSUME TypeOK, StoppedInv, CourseInv, Undisturbed, [Next]_vars, NEW d \in Deployments
  PROVE  ConclusionFits(d)'
<1>1. ConclusionFits(d)
  BY DEF CourseInv, Course
<1>. QED BY <1>1, StepAdvance DEF ConclusionFits, Advance, Same, Becomes, Deploys, Readied,
                                  Succeeds, Fails, Concludes

LEMMA HeldStep ==
  ASSUME TypeOK, StoppedInv, CourseInv, Obedient, [Next]_vars, NEW d \in Deployments
  PROVE  HeldTrue(d)'
<1>0. HeldTrue(d)
  BY DEF CourseInv, Course
<1>1. CASE mon'[d].cid = mon[d].cid /\ (mon'[d].pc # "idle" => mon[d].pc # "idle")
  BY <1>0, <1>1, KnownStep DEF HeldTrue
<1>2. CASE MonitorNext(d)
  <2>1. mon'[d].cid = mon[d].cid
    BY <1>2 DEF TypeOK, MonitorNext, MonitorTimeout, MonitorTransient, MonitorLost,
       MonitorExited, MonitorProbe, MonitorNotReady, MonitorReady, MonitorHandOff, MonitorFail,
       MonitorRest
  <2>. QED BY <1>1, <1>2, <2>1, MonitorBusy
<1>3. CASE MonitorSelect
  <2>1. \/ mon'[d].cid = 0 /\ mon'[d].pc = "idle"
        \/ mon'[d].cid = mon[d].cid /\ mon[d].cid # 0
        \/ mon'[d].cid = row[d].cid /\ row[d].status = "deploy"
    BY <1>3 DEF TypeOK, MonitorSelect, NotHeld
  <2>2. row[d].cid # 0 => Names(d, row[d].cid)
    BY DEF StoppedInv, CidTrue
  <2>3. row[d].status = "deploy" /\ row[d].cid = 0 => Stopped(d)
    BY DEF StoppedInv, FailingLate, Failing, Launched, Stopped
  <2>. QED BY <1>0, <2>1, <2>2, <2>3, KnownStep DEF HeldTrue
<1>. QED BY <1>1, <1>2, <1>3, StepMon

LEMMA MonitorFitsStep ==
  ASSUME TypeOK, StoppedInv, CourseInv, Undisturbed, [Next]_vars, NEW d \in Deployments
  PROVE  MonitorFits(d)'
<1>0. Course(d) /\ MonitorFits(d) /\ ConclusionFits(d) /\ Advance(d) /\ Obedient
  BY StepAdvance DEF CourseInv, Course, Undisturbed
<1>1. mon'[d].pc = "probe" => d \notin expired'
  <2>1. CASE mon'[d] = mon[d]
    BY <1>0, <2>1, StepMon DEF MonitorFits, Expire
  <2>2. CASE MonitorNext(d)
    BY <2>2 DEF TypeOK, MonitorNext, MonitorTimeout, MonitorTransient, MonitorLost, MonitorExited,
     MonitorProbe, MonitorNotReady, MonitorReady, MonitorHandOff, MonitorFail, MonitorRest
  <2>3. CASE MonitorSelect
    BY <2>3 DEF TypeOK, MonitorSelect, NotHeld
  <2>. QED BY <1>0, <2>1, <2>2, <2>3, StepMon
<1>2. ASSUME row'[d].status = "prepare" PROVE mon'[d].pc = "idle"
  <2>1. row[d].status = "prepare"
    BY <1>0, <1>2 DEF Advance, Same, Becomes, Deploys, Readied, Succeeds, Fails, Concludes
  <2>. QED BY <1>0, <2>1, MonBorn DEF MonitorFits
<1>3. ASSUME Early(d)' PROVE mon'[d].status = "deploy"
  <2>1. Early(d) /\ mon[d].status = "deploy" /\ row'[d].status # "finalize"
    BY <1>0, <1>3 DEF MonitorFits, Early, Advance, Same, Becomes, Deploys, Readied, Succeeds,
                      Fails, Concludes
  <2>2. ~MonitorReady(d)
    BY <2>1, ReadyFits
  <2>3. MonitorNext(d) => mon'[d].status = mon[d].status
    BY <2>2 DEF TypeOK, MonitorNext, MonitorTimeout, MonitorTransient, MonitorLost, MonitorExited,
     MonitorProbe, MonitorNotReady, MonitorHandOff, MonitorFail, MonitorRest
  <2>4. MonitorSelect => mon'[d].status \in {"deploy", mon[d].status}
    BY DEF TypeOK, MonitorSelect, NotHeld
  <2>. QED BY <1>0, <2>1, <2>3, <2>4, StepMon
<1>4. ASSUME row'[d].status = "finalize" \/ row'[d].conclusion = "succeeded" PROVE ~Polled(d)'
  <2>1. CASE MonitorReady(d)
    BY <2>1 DEF MonitorReady, Polled, TypeOK
  <2>2. CASE Succeeds(d) \/ (Same(d) /\ (row[d].status = "finalize" \/ row[d].conclusion = "succeeded"))
    BY <1>0, <2>2, ReadyBorn DEF MonitorFits, ConclusionFits, Succeeds
  <2>. QED BY <1>0, <1>4, <2>1, <2>2 DEF Advance, Same, Becomes, Deploys, Readied, Fails, Concludes
<1>. QED BY <1>1, <1>2, <1>3, <1>4 DEF MonitorFits

LEMMA HandFitsStep ==
  ASSUME TypeOK, StoppedInv, CourseInv, Undisturbed, [Next]_vars, NEW d \in Deployments
  PROVE  HandFits(d)'
<1>0. /\ HandFits(d) /\ MonitorFits(d) /\ StartFits(d) /\ ConclusionFits(d)
      /\ Advance(d) /\ Obedient
  BY StepAdvance DEF CourseInv, Course, Undisturbed
<1>1. ASSUME Handed(d)' PROVE row'[d].status = "finalize"
  <2>1. CASE MonitorReady(d)
    BY <2>1, ReadyFits
  <2>2. CASE Handed(d)
    <3>1. row[d].status = "finalize" /\ ~Alive(d, "fail")
      BY <1>0, <2>2 DEF HandFits
    <3>2. ~Succeeds(d)
      BY <1>0, <1>1, HandEnds DEF Succeeds, Finalizes
    <3>. QED BY <1>0, <3>1, <3>2 DEF Advance, Same, Deploys, Readied, Fails, Concludes
  <2>. QED BY <1>0, <1>1, <2>1, <2>2, HandedBorn
<1>2. ASSUME Handed(d)' \/ row'[d].conclusion = "succeeded", Alive(d, "fail")' PROVE FALSE
  <2>1. Handed(d) \/ MonitorReady(d) \/ row[d].conclusion = "succeeded"
    <3>1. Succeeds(d) => Handed(d)
      BY HolderOf DEF Succeeds
    <3>. QED BY <1>0, <1>2, <3>1, HandedBorn
             DEF Advance, Same, Becomes, Deploys, Readied, Fails, Concludes
  <2>2. /\ \/ MonitorReady(d) /\ row[d].status = "deploy" /\ mon[d].pc = "probe"
           \/ row[d].status = "finalize" \/ row[d].conclusion = "succeeded"
        /\ ~Alive(d, "fail")
    BY <1>0, <2>1, ReadyFits DEF HandFits
  <2>3. ~(MonitorTimeout(d) \/ MonitorLost(d) \/ MonitorExited(d))
    BY <1>0, <2>2 DEF MonitorTimeout, MonitorLost, MonitorExited, MonitorFits, Polled
  <2>4. ASSUME NEW w \in Slots, slot[w].dep = d, StartFails(w) PROVE FALSE
    <3>1. slot[w].pc \in Launching
      BY <2>4 DEF StartFails, At, Launching
    <3>2. Launches(w, d)
      BY <2>4, <3>1 DEF Launches
    <3>. QED BY <2>2, <3>2, LaunchFits
  <2>5. ASSUME NEW w \in Slots, slot[w].dep = d, FinalizeFails(w) PROVE FALSE
    <3>1. ~Handed(d)' /\ Handed(d)
      BY <1>0, <2>5, HandEnds, HolderOf
    <3>2. row[d].conclusion = "none"
      BY <1>0, <3>1 DEF HandFits, ConclusionFits
    <3>. QED BY <1>2, <2>5, <3>1, <3>2 DEF FinalizeFails, rowVars
  <2>. QED BY <1>0, <1>2, <2>2, <2>3, <2>4, <2>5, FailBorn
<1>. QED BY <1>1, <1>2 DEF HandFits

LEMMA LoadHand ==
  ASSUME TypeOK, CourseInv, NEW w \in Slots, NEW d \in Deployments, FinalizeLoad(w, d)
  PROVE  /\ queue[d]["finalize"] = 1 /\ queue'[d]["finalize"] = 0
         /\ mon' = mon /\ mon[d].pc # "ready"
         /\ \A v \in Slots : ~Finalizes(v, d)
         /\ \A v \in Slots \ {w} : ~Finalizes(v, d)'
<1>1. queue[d]["finalize"] > 0 /\ queue'[d]["finalize"] = queue[d]["finalize"] - 1
  <2>1. queue[d]["finalize"] > 0 /\ Queued(d, "finalize", -1)
    BY TakeEffect, DiscardEffect DEF FinalizeLoad, Kinds
  <2>. QED BY <2>1 DEF Queued, TypeOK, Kinds
<1>2. OneHand(d)
  BY DEF CourseInv, Course
<1>3. queue[d]["finalize"] = 1 /\ mon[d].pc # "ready" /\ \A v \in Slots : ~Finalizes(v, d)
  BY <1>1, <1>2 DEF OneHand
<1>4. \A v \in Slots \ {w} : slot'[v] = slot[v]
  BY TakeEffect DEF FinalizeLoad, Kinds, Others, Discard
<1>. QED BY <1>1, <1>3, <1>4 DEF FinalizeLoad, monVars, Finalizes

LEMMA OneHandStep ==
  ASSUME TypeOK, StoppedInv, CourseInv, Obedient, [Next]_vars, NEW d \in Deployments
  PROVE  OneHand(d)'
<1>0. OneHand(d)
  BY DEF CourseInv, Course
<1>1. CASE \E w \in Slots : FinalizeLoad(w, d)
  BY <1>1, LoadHand DEF OneHand
<1>2. CASE \A w \in Slots : ~FinalizeLoad(w, d)
  <2>1. \A w \in Slots : Finalizes(w, d)' => Finalizes(w, d)
    BY <1>2, StepFinalizes
  <2>2. \/ queue'[d]["finalize"] = queue[d]["finalize"]
        \/ /\ queue'[d]["finalize"] = queue[d]["finalize"] + 1
           /\ mon[d].pc = "ready" /\ mon'[d].pc = "idle"
    <3>1. MonitorHandOff(d) => Queued(d, "finalize", 1)
      BY EnqueueEffect DEF MonitorHandOff, Kinds
    <3>. QED BY <1>2, <3>1, StepQueue, ReadyBorn DEF QueueChange, FinalizeQueueChange, Queued
  <2>3. mon'[d].pc = "ready" => mon[d].pc = "ready" \/ ~Handed(d)
    BY ReadyBorn, ReadyFits
  <2>. QED BY <1>0, <2>1, <2>2, <2>3 DEF OneHand, Handed
<1>. QED BY <1>1, <1>2

LEMMA StartFitsStep ==
  ASSUME TypeOK, StoppedInv, CourseInv, Undisturbed, [Next]_vars, NEW d \in Deployments
  PROVE  StartFits(d)'
<1>. SUFFICES ASSUME ~Calm(d)' PROVE row'[d].status = "prepare"
  BY DEF StartFits
<1>0. Advance(d) /\ Obedient
  BY StepAdvance DEF Undisturbed
<1>1. ~Calm(d) /\ row[d].status = "prepare"
  BY <1>0, CalmStep DEF CourseInv, Course, StartFits
<1>2. ~Alive(d, "fail")
  BY <1>1 DEF StoppedInv, FailingLate, Failing, Launched
<1>3. ~Deploys(d)
  BY <1>0, SaveEffect DEF Deploys, Launches
<1>. QED BY <1>0, <1>1, <1>2, <1>3 DEF Advance, Same, Readied, Succeeds, Fails, Concludes

LEMMA BeyondStep ==
  ASSUME TypeOK, StoppedInv, CourseInv, Undisturbed, [Next]_vars, NEW d \in Deployments, Beyond(d)
  PROVE  Beyond(d)'
<1>0. Advance(d) /\ Obedient
  BY StepAdvance DEF Undisturbed
<1>1. CASE d \in expired \/ Stopped(d)
  BY <1>0, <1>1, StepMon, KnownStep DEF Beyond
<1>2. CASE ~Early(d) /\ ~Polled(d)
  <2>1. ~Early(d)'
    BY <1>0, <1>2 DEF Early, Advance, Same, Becomes, Deploys, Readied, Succeeds, Fails, Concludes
  <2>2. ~Polled(d)'
    BY <1>0, <1>2, ReadyBorn DEF Early
  <2>. QED BY <2>1, <2>2 DEF Beyond
<1>. QED BY <1>1, <1>2 DEF Beyond

LEMMA FailFitsStep ==
  ASSUME TypeOK, StoppedInv, CourseInv, Undisturbed, [Next]_vars, NEW d \in Deployments
  PROVE  FailFits(d)'
<1>0. Advance(d) /\ Obedient /\ HeldTrue(d) /\ FailFits(d) /\ HandFits(d)
  BY StepAdvance DEF Undisturbed, CourseInv, Course
<1>1. CASE Beyond(d)
  BY <1>1, BeyondStep DEF FailFits
<1>2. CASE ~Beyond(d)
  <2>1. Early(d) /\ ~Alive(d, "fail") /\ ~Stopped(d) /\ d \notin expired
    BY <1>0, <1>2 DEF FailFits, Beyond
  <2>2. ASSUME Alive(d, "fail")' PROVE Stopped(d)'
    <3>1. ~MonitorTimeout(d)
      BY <2>1 DEF MonitorTimeout
    <3>2. ~MonitorLost(d) /\ ~MonitorExited(d)
      <4>1. mon[d].pc = "check" => Names(d, mon[d].cid)
        BY <1>0, <2>1 DEF HeldTrue
      <4>. QED BY <1>0, <2>1, <4>1
               DEF MonitorLost, MonitorExited, Names, Present, Stopped, Obedient, Undisturbed
    <3>3. ASSUME NEW w \in Slots, slot[w].dep = d, FinalizeFails(w) PROVE FALSE
      <4>1. Handed(d)
        BY <1>0, <3>3, HandEnds, HolderOf
      <4>. QED BY <1>0, <2>1, <4>1 DEF HandFits, Early
    <3>. QED BY <1>0, <2>1, <2>2, <3>1, <3>2, <3>3, FailBorn, FailsEffect
  <2>3. ASSUME ~Early(d)' PROVE Beyond(d)'
    <3>1. Readied(d)
      BY <1>0, <2>1, <2>3 DEF Early, Advance, Same, Becomes, Deploys, Succeeds, Fails, Concludes
    <3>2. mon'[d].pc = "ready"
      BY <3>1 DEF Readied, MonitorReady, TypeOK
    <3>. QED BY <2>3, <3>2 DEF Beyond, Polled
  <2>. QED BY <2>2, <2>3 DEF FailFits, Beyond
<1>. QED BY <1>1, <1>2

(* The snapshots. *)
LEMMA FailedRowStays ==
  ASSUME TypeOK, StoppedInv, CourseInv, Undisturbed, [Next]_vars, NEW d \in Deployments,
         row[d].status \in {"fail", "completed"}
  PROVE  row'[d].status \in {"fail", "completed"}
BY StepAdvance DEF Advance, Same, Becomes, Deploys, Readied, Succeeds, Fails, Concludes

LEMMA TakeFits ==
  ASSUME TypeOK, StoppedInv, CourseInv, Undisturbed, [Next]_vars,
         NEW w \in Slots, NEW d \in Deployments, TakeJob(w, d)
  PROVE  SnapFits(w)' \/ slot'[w] = slot[w]
<1>1. CASE slot' = slot
  BY <1>1
<1>2. CASE Take(w, d, "start", "s_loaded")
  <2>1. ~Calm(d)
    BY <1>2 DEF Take, Calm
  <2>2. row[d].status = "prepare"
    BY <2>1 DEF CourseInv, Course, StartFits
  <2>. QED BY <1>2, <2>2, TakeEffect DEF SnapFits, Launching, FailSteps, Kinds
<1>3. CASE Take(w, d, "finalize", "z_loaded")
  <2>1. Handed(d)
    BY <1>3 DEF Take, Handed
  <2>2. row[d].status = "finalize" /\ row[d].conclusion = "none"
    BY <2>1 DEF CourseInv, Course, HandFits, ConclusionFits
  <2>. QED BY <1>3, <2>2, TakeEffect DEF SnapFits, Launching, FailSteps, Kinds
<1>4. CASE row[d].conclusion = "none" /\ Take(w, d, "fail", "f_loaded")
  BY <1>4, TakeEffect, FailedRowStays DEF SnapFits, Launching, FailSteps, Kinds
<1>5. CASE Take(w, d, "delete", "d_loaded")
  BY <1>5, TakeEffect DEF SnapFits, Launching, FailSteps, Kinds
<1>. QED BY <1>1, <1>2, <1>3, <1>4, <1>5
         DEF TakeJob, StartLoad, StartDropped, FinalizeLoad, FailLoad, DeleteLoad, Discard

LEMMA StartSnap ==
  ASSUME TypeOK, CourseInv, Undisturbed, NEW w \in Slots, StartNext(w)
  PROVE  SnapFits(w)'
<1>d. PICK d \in Deployments : d = slot[w].dep
  BY RunningDep
<1>0. SnapFits(w) /\ slot[w] \in Slot /\ slot[w].snap \in Row
  BY DEF CourseInv, TypeOK, Slot
<1>1. ASSUME slot'[w].pc \in {"idle", "s_saved"} PROVE SnapFits(w)'
  BY <1>1 DEF SnapFits, Launching, FailSteps
<1>2. ASSUME slot'[w].pc \in Launching, slot'[w].snap.status = "prepare" PROVE SnapFits(w)'
  BY <1>2 DEF SnapFits, Launching, FailSteps
<1>3. CASE StartPrepare(w)
  <2>. DEFINE new == [slot[w].snap EXCEPT !.status = "prepare"]
  <2>1. Commit(w, new, "s_prepared") /\ new.status = "prepare"
    BY <1>0, <1>3 DEF StartPrepare, Row
  <2>. HIDE DEF new
  <2>. QED BY <1>2, <2>1, CommitSlot DEF Launching
<1>4. CASE StartCreate(w) \/ StartContainer(w)
  <2>1. slot'[w].pc \in {"s_created", "s_started"} /\ slot'[w].snap = slot[w].snap
    BY <1>0, <1>4, GotoEffect DEF StartCreate, StartContainer, TypeOK, Slot
  <2>2. slot[w].snap.status = "prepare"
    BY <1>0, <1>4 DEF SnapFits, Launching, StartCreate, StartContainer, At
  <2>. QED BY <1>2, <2>1, <2>2 DEF Launching
<1>5. CASE StartSave(w)
  BY <1>1, <1>5, CommitSlot DEF StartSave
<1>6. ASSUME Finish(w) PROVE SnapFits(w)'
  BY <1>1, <1>6, FinishEffect
<1>7. ~StartStops(w)
  <2>1. d \notin aborting
    BY DEF CourseInv, Course, Uncanceled
  <2>2. ~(crashes < MaxCrashes)
    BY DEF TypeOK, Undisturbed, Obedient
  <2>. QED BY <1>d, <2>1, <2>2 DEF StartStops, Interrupted
<1>. QED BY <1>3, <1>4, <1>5, <1>6, <1>7
         DEF StartNext, StartDone, StartFails, StartInterrupted, StartAborted

LEMMA FailSnap ==
  ASSUME TypeOK, StoppedInv, CourseInv, Undisturbed, [Next]_vars, NEW w \in Slots, FailNext(w)
  PROVE  SnapFits(w)'
<1>d. PICK d \in Deployments : d = slot[w].dep
  BY RunningDep
<1>0. SnapFits(w) /\ slot[w] \in Slot /\ slot[w].snap \in Row /\ slot[w].snap.conclusion = "none"
  BY DEF CourseInv, TypeOK, Slot, SnapFits, FailNext, FailMark, FailStop, FailStopped,
         FailConclude, At, FailSteps
<1>1. ASSUME slot'[w].pc \in FailSteps, slot'[w].dep = d, slot'[w].snap.conclusion = "none",
             slot'[w].snap.status = "fail", row'[d].status \in {"fail", "completed"}
      PROVE  SnapFits(w)'
  BY <1>1 DEF SnapFits, Launching, FailSteps
<1>2. slot[w].snap.status = "fail" => row'[d].status \in {"fail", "completed"}
  <2>1. slot[w].pc \in FailSteps
    BY DEF FailNext, FailMark, FailStop, FailStopped, FailConclude, At, FailSteps
  <2>. QED BY <1>d, <1>0, <2>1, FailedRowStays DEF SnapFits
<1>3. CASE FailMark(w)
  <2>. DEFINE new == [slot[w].snap EXCEPT !.status = "fail"]
  <2>1. Commit(w, new, "f_marked") /\ new.status = "fail" /\ new.conclusion = "none"
    BY <1>0, <1>3 DEF FailMark, Row
  <2>2. row'[d].status \in {"fail", "completed"}
    BY <1>d, <1>2, <1>3, FailRow DEF Column
  <2>. HIDE DEF new
  <2>. QED BY <1>d, <1>1, <2>1, <2>2, CommitSlot DEF Keeps, FailSteps
<1>4. ASSUME slot[w].pc \in FailSteps \ {"f_loaded"}
      PROVE  slot[w].snap.status = "fail" /\ row'[d].status \in {"fail", "completed"}
  BY <1>0, <1>2, <1>4 DEF SnapFits
<1>5. CASE FailStop(w)
  <2>1. \E pc \in {"f_stopped", "f_gone", "f_clean"} : Goto(w, pc)
    BY <1>5 DEF FailStop
  <2>2. slot[w].pc \in FailSteps \ {"f_loaded"}
    BY <1>5 DEF FailStop, At, FailSteps
  <2>. QED BY <1>d, <1>0, <1>1, <1>4, <2>1, <2>2, GotoEffect DEF Keeps, FailSteps
<1>6. CASE FailStopped(w)
  <2>. DEFINE new == [slot[w].snap EXCEPT
                        !.cstat = IF At(w, "f_stopped") THEN "stopped" ELSE "removed"]
  <2>1. /\ Commit(w, new, "f_clean") /\ new.status = slot[w].snap.status
        /\ new.conclusion = "none" /\ slot[w].pc \in FailSteps \ {"f_loaded"}
    BY <1>0, <1>6 DEF FailStopped, Row, FailSteps
  <2>. HIDE DEF new
  <2>. QED BY <1>d, <1>1, <1>4, <2>1, CommitSlot DEF Keeps, FailSteps
<1>7. CASE FailConclude(w)
  <2>1. slot'[w].pc = "idle"
    BY <1>7, FinishEffect DEF FailConclude
  <2>. QED BY <2>1 DEF SnapFits, Launching, FailSteps
<1>. QED BY <1>3, <1>5, <1>6, <1>7 DEF FailNext

LEMMA SnapStep ==
  ASSUME TypeOK, StoppedInv, CourseInv, Undisturbed, [Next]_vars, NEW w \in Slots
  PROVE  SnapFits(w)'
<1>1. CASE slot'[w] = slot[w]
  <2>1. slot[w].pc \in FailSteps => slot[w].dep \in Deployments
    BY DEF TypeOK, JobSteps
  <2>. QED BY <1>1, <2>1, FailedRowStays DEF CourseInv, SnapFits
<1>2. CASE slot'[w].pc \in {"idle", "z_concluded", "d_deleted", "c_scanning"}
  BY <1>2 DEF SnapFits, Launching, FailSteps
<1>3. CASE FinalizeNext(w)
  BY <1>2, <1>3, FinishEffect, CommitSlot
     DEF FinalizeNext, FinalizeFails, FinalizeConclude, FinalizeDone
<1>4. CASE DeleteNext(w)
  BY <1>2, <1>4, FinishEffect, GotoEffect DEF DeleteNext, DeleteRemove, DeleteCommit
<1>5. CASE CleanupNext(w)
  BY <1>2, <1>5, CleanupStays
<1>. QED BY <1>1, <1>2, <1>3, <1>4, <1>5, StepSlot, TakeFits, StartSnap, FailSnap
         DEF SlotChange, WorkerNext, Emptied

LEMMA CourseStep ==
  ASSUME TypeOK, StoppedInv, CourseInv, Undisturbed, [Next]_vars
  PROVE  CourseInv'
<1>1. Obedient
  BY DEF Undisturbed
<1>. QED BY <1>1, NoCancel, ConclusionFitsStep, HeldStep, MonitorFitsStep, HandFitsStep,
            OneHandStep, StartFitsStep, FailFitsStep, SnapStep DEF CourseInv, Course

-----------------------------------------------------------------------------
(* Every step is one of the lifecycle, or none that it sees. *)
LEMMA InitLifecycle == Init => CourseInv /\ Lifecycle!Init
<1>. SUFFICES ASSUME Init PROVE CourseInv /\ Lifecycle!Init
  OBVIOUS
<1>1. ASSUME NEW w \in Slots PROVE slot[w] = IdleSlot /\ SnapFits(w)
  BY DEF Init, SnapFits, IdleSlot, Launching, FailSteps
<1>2. ASSUME NEW d \in Deployments PROVE Course(d)
  <2>1. ~Alive(d, "fail") /\ queue[d]["finalize"] = 0
    BY InitAlive DEF Init, Kinds
  <2>2. \A w \in Slots : ~Finalizes(w, d)
    BY <1>1 DEF Finalizes, IdleSlot
  <2>3. Uncanceled(d) /\ ConclusionFits(d) /\ HeldTrue(d) /\ MonitorFits(d)
    BY DEF Init, Uncanceled, IdleCancel, ConclusionFits, NewRow, HeldTrue, MonitorFits, NotHeld,
           Polled
  <2>4. HandFits(d) /\ OneHand(d)
    BY <2>1, <2>2 DEF Init, HandFits, OneHand, Handed, NotHeld, NewRow
  <2>5. StartFits(d) /\ FailFits(d)
    BY <2>1 DEF Init, StartFits, FailFits, Early, NewRow
  <2>. QED BY <2>3, <2>4, <2>5 DEF Course
<1>3. Lifecycle!Init
  BY DEF Init, Lifecycle!Init, Created, NewRow
<1>. QED BY <1>1, <1>2, <1>3 DEF CourseInv

LEMMA AdvanceAlone ==
  ASSUME TypeOK, StoppedInv, CourseInv, Undisturbed, [Next]_vars, NEW d \in Deployments,
         Advance(d), ~Same(d)
  PROVE  OtherRows(d) /\ web' = web /\ Created(d)
<1>1. Calm(d) => Created(d)
  BY DEF Calm, Created
<1>2. row[d].status # "prepare" \/ Alive(d, "fail") => Created(d)
  BY <1>1 DEF CourseInv, Course, StartFits, StoppedInv, FailingLate, Failing, Launched
<1>3. CASE Deploys(d)
  BY <1>3, NotCalm, StartRow DEF Deploys, Launches, Created, StartSave
<1>4. CASE Readied(d)
  BY <1>2, <1>4, ReadyRow DEF Readied, MonitorReady
<1>5. CASE Succeeds(d)
  BY <1>2, <1>5, FinalizeRow DEF Succeeds, Finalizes, FinalizeConclude
<1>6. CASE Fails(d)
  BY <1>2, <1>6, FailRow DEF Fails, FailMark
<1>7. CASE Concludes(d)
  BY <1>2, <1>7, FailRow DEF Concludes, FailConclude
<1>. QED BY <1>3, <1>4, <1>5, <1>6, <1>7 DEF Advance

LEMMA MoveLifecycle ==
  ASSUME TypeOK, NEW d \in Deployments, Advance(d), ~Same(d), ConclusionFits(d),
         OtherRows(d), web' = web, Created(d)
  PROVE  Lifecycle!Next
<1>1. /\ \A e \in Deployments : Created(e)' <=> Created(e)
      /\ \A e \in Deployments \ {d} : row'[e] = row[e]
  BY DEF Created, OtherRows, RowSame
<1>2. CASE Deploys(d)
  <2>1. Lifecycle!Deploy(d)
    BY <1>1, <1>2 DEF Deploys, Becomes, Lifecycle!Deploy, Lifecycle!Move
  <2>. QED BY <2>1 DEF Lifecycle!Next, Lifecycle!Progress
<1>3. CASE Readied(d)
  <2>1. Lifecycle!Finalize(d)
    BY <1>1, <1>3 DEF Readied, Becomes, Lifecycle!Finalize, Lifecycle!Move
  <2>. QED BY <2>1 DEF Lifecycle!Next, Lifecycle!Progress
<1>4. CASE Succeeds(d)
  <2>1. Lifecycle!Succeed(d)
    BY <1>1, <1>4 DEF Succeeds, Becomes, Lifecycle!Succeed, Lifecycle!End
  <2>. QED BY <2>1 DEF Lifecycle!Next, Lifecycle!Progress
<1>5. CASE Fails(d)
  <2>0. \/ row[d].conclusion = "none" /\ row[d].status \in {"prepare", "deploy", "finalize"}
        \/ row[d].conclusion = "failed" /\ row[d].status = "completed"
    BY <1>5 DEF Fails, ConclusionFits, TypeOK, Row, Statuses
  <2>1. Lifecycle!Fail(d)
    BY <1>1, <1>5, <2>0 DEF Fails, Becomes, Lifecycle!Fail, Lifecycle!Move
  <2>. QED BY <2>1 DEF Lifecycle!Next, Lifecycle!Progress
<1>6. CASE Concludes(d)
  <2>1. Lifecycle!Failed(d)
    BY <1>1, <1>6 DEF Concludes, Becomes, Lifecycle!Failed, Lifecycle!End
  <2>. QED BY <2>1 DEF Lifecycle!Next, Lifecycle!Progress
<1>. QED BY <1>2, <1>3, <1>4, <1>5, <1>6 DEF Advance

LEMMA StepLifecycle ==
  ASSUME TypeOK, StoppedInv, CourseInv, Undisturbed, [Next]_vars
  PROVE  [Lifecycle!Next]_(Lifecycle!vars)
<1>0. \A d \in Deployments : Advance(d) /\ ConclusionFits(d)
  BY StepAdvance DEF CourseInv, Course
<1>1. ASSUME NEW d \in Deployments, ~Same(d) PROVE Lifecycle!Next
  BY <1>0, <1>1, AdvanceAlone, MoveLifecycle
<1>2. ASSUME \A d \in Deployments : Same(d) PROVE [Lifecycle!Next]_(Lifecycle!vars)
  <2>1. CASE \A d \in Deployments : Created(d)' <=> Created(d)
    BY <1>2, <2>1 DEF Same, Lifecycle!vars
  <2>2. ASSUME NEW d \in Deployments, ~(Created(d)' <=> Created(d)) PROVE Create(d)
    BY <2>2, StepRequest DEF RequestChange, Created, EnqueueStart, TypeOK
  <2>3. ASSUME NEW d \in Deployments, Create(d) PROVE Lifecycle!Next
    <3>1. ~Created(d) /\ Created(d)' /\ \A e \in Deployments \ {d} : Created(e)' <=> Created(e)
      BY <2>3 DEF Create, Created, TypeOK
    <3>2. ~Calm(d)
      BY <3>1 DEF Calm, Created
    <3>3. row[d].status = "prepare"
      BY <3>2 DEF CourseInv, Course, StartFits
    <3>4. Lifecycle!Open(d)
      BY <1>2, <3>1, <3>3 DEF Same, Lifecycle!Open, Lifecycle!Move
    <3>. QED BY <3>4 DEF Lifecycle!Next
  <2>. QED BY <2>1, <2>2, <2>3
<1>. QED BY <1>1, <1>2

(* Whatever the deployments and slots: without cancels, Docker faults and    *)
(* crashes every row moves through the documented statuses in their order,   *)
(* one step at a time, and keeps its conclusion, whichever of the start job, *)
(* the monitor, the finalize job and the fail jobs come to write it.         *)
THEOREM LifecycleKept ==
  ~UserCancels /\ ~DockerFaults /\ MaxCrashes = 0 => (Spec => LifecycleOrder)
<1>. SUFFICES ASSUME ~UserCancels, ~DockerFaults, MaxCrashes = 0 PROVE Spec => LifecycleOrder
  OBVIOUS
<1>1. Obedient /\ Undisturbed
  BY DEF Obedient, Undisturbed
<1>2. Init => StoppedInv /\ CourseInv /\ Lifecycle!Init
  BY InitStopped, InitLifecycle
<1>3. TypeOK /\ StoppedInv /\ CourseInv /\ [Next]_vars => StoppedInv' /\ CourseInv'
  BY <1>1, StoppedStep, CourseStep
<1>4. TypeOK /\ StoppedInv /\ CourseInv /\ [Next]_vars => [Lifecycle!Next]_(Lifecycle!vars)
  BY <1>1, StepLifecycle
<1>. QED BY <1>2, <1>3, <1>4, TypeCorrect, PTL DEF Spec, LifecycleOrder, Lifecycle!Spec
=============================================================================
