--------------------------- MODULE DeploymentProofs ---------------------------
(***************************************************************************)
(* Theorems about Deployment for any deployments, slots and bounds.        *)
(***************************************************************************)
EXTENDS Deployment, FiniteSetTheorems, TLAPS

(* What a commit leaves in the table is a row. *)
LEMMA MergeType ==
  ASSUME NEW db \in Row, NEW old \in Row, NEW new \in Row
  PROVE  Merge(db, old, new) \in Row
BY DEF Merge, Row

LEMMA IdleSlotType == IdleSlot \in Slot /\ IdleSlot.pc \notin JobSteps
BY DEF IdleSlot, Slot, SlotSteps, JobSteps, StartSteps, FinalizeSteps, FailSteps, DeleteSteps,
       NewRow, Row, Marks, Statuses, Conclusions, ContainerStatuses

SlotsTyped ==
  /\ slot \in [Slots -> Slot]
  /\ \A w \in Slots : slot[w].pc \in JobSteps => slot[w].dep \in Deployments

(* Redelivering the jobs of some slots leaves counts of jobs. *)
LEMMA RequeuedType ==
  ASSUME TypeOK, NEW busy \in SUBSET Slots, Requeued(busy)
  PROVE  /\ queue' \in [Deployments -> [Kinds -> Nat]]
         /\ cleanups' \in Nat
         /\ SlotsTyped'
<1>1. ASSUME NEW d \in Deployments, NEW k \in Kinds
      PROVE  Cardinality(Running(d, k) \cap busy) \in Nat
  BY FS_Subset, FS_CardinalityType, SlotsAssumption
<1>2. Cardinality({w \in busy : slot[w].pc = "c_scanning"}) \in Nat
  <2>1. {w \in busy : slot[w].pc = "c_scanning"} \subseteq Slots
    OBVIOUS
  <2>. QED BY <2>1, FS_Subset, FS_CardinalityType, SlotsAssumption
<1>3. queue' \in [Deployments -> [Kinds -> Nat]]
  <2>. DEFINE more(d, k) == queue[d][k] + Cardinality(Running(d, k) \cap busy)
  <2>1. ASSUME NEW d \in Deployments, NEW k \in Kinds PROVE more(d, k) \in Nat
    <3>1. queue[d][k] \in Nat
      BY DEF TypeOK
    <3>. QED BY <1>1, <3>1
  <2>2. queue' = [d \in Deployments |-> [k \in Kinds |-> more(d, k)]]
    BY DEF Requeued
  <2>. HIDE DEF more
  <2>. QED BY <2>1, <2>2
<1>4. cleanups' \in Nat
  BY <1>2 DEF TypeOK, Requeued
<1>5. SlotsTyped'
  BY IdleSlotType DEF TypeOK, SlotsTyped, Requeued
<1>. QED BY <1>3, <1>4, <1>5

(* A slot that takes a job carries a copy of its row. *)
LEMMA TakeType ==
  ASSUME TypeOK, NEW w \in Slots, NEW d \in Deployments, NEW k \in Kinds,
         NEW pc \in SlotSteps, Take(w, d, k, pc)
  PROVE  queue' \in [Deployments -> [Kinds -> Nat]] /\ SlotsTyped'
<1>1. queue' \in [Deployments -> [Kinds -> Nat]]
  BY DEF TypeOK, Take
<1>2. [IdleSlot EXCEPT !.pc = pc, !.dep = d, !.snap = row[d]] \in Slot
  BY IdleSlotType DEF TypeOK, Slot
<1>3. [IdleSlot EXCEPT !.pc = pc, !.dep = d, !.snap = row[d]].dep = d
  BY DEF IdleSlot
<1>4. SlotsTyped'
  BY <1>2, <1>3 DEF TypeOK, SlotsTyped, Take
<1>. QED BY <1>1, <1>4

LEMMA DiscardType ==
  ASSUME TypeOK, NEW w \in Slots, NEW d \in Deployments, NEW k \in Kinds, Discard(w, d, k)
  PROVE  queue' \in [Deployments -> [Kinds -> Nat]] /\ SlotsTyped'
BY DEF TypeOK, Discard, SlotsTyped

LEMMA EnqueueType ==
  ASSUME TypeOK, NEW d \in Deployments, NEW k \in Kinds, Enqueue(d, k)
  PROVE  queue' \in [Deployments -> [Kinds -> Nat]]
BY DEF TypeOK, Enqueue

LEMMA FinishType ==
  ASSUME TypeOK, NEW w \in Slots, Finish(w)
  PROVE  SlotsTyped'
BY IdleSlotType DEF TypeOK, Finish, SlotsTyped

LEMMA GotoType ==
  ASSUME TypeOK, NEW w \in Slots, slot[w].pc \in JobSteps, NEW pc \in SlotSteps, Goto(w, pc)
  PROVE  SlotsTyped'
<1>1. slot[w] \in Slot /\ slot[w].dep \in Deployments
  BY DEF TypeOK
<1>2. [slot[w] EXCEPT !.pc = pc] \in Slot /\ [slot[w] EXCEPT !.pc = pc].dep = slot[w].dep
  BY <1>1 DEF Slot
<1>3. slot' = [slot EXCEPT ![w] = [slot[w] EXCEPT !.pc = pc]]
  BY DEF Goto, TypeOK
<1>. QED BY <1>1, <1>2, <1>3 DEF TypeOK, SlotsTyped

LEMMA CommitType ==
  ASSUME TypeOK, NEW w \in Slots, slot[w].pc \in JobSteps, NEW pc \in SlotSteps,
         NEW new \in Row, Commit(w, new, pc)
  PROVE  row' \in [Deployments -> Row] /\ SlotsTyped'
<1>1. slot[w].snap \in Row /\ slot[w].dep \in Deployments
  BY DEF TypeOK, Slot
<1>2. row' \in [Deployments -> Row]
  BY <1>1, MergeType DEF TypeOK, Commit
<1>3. SlotsTyped'
  <2>. DEFINE mine == [slot[w] EXCEPT !.snap = new, !.pc = pc]
  <2>1. mine \in Slot /\ mine.dep = slot[w].dep
    <3>1. slot[w] \in Slot
      BY DEF TypeOK
    <3>. QED BY <3>1 DEF Slot
  <2>2. slot' = [slot EXCEPT ![w] = mine]
    BY DEF Commit, TypeOK
  <2>. QED BY <1>1, <2>1, <2>2 DEF TypeOK, SlotsTyped
<1>. QED BY <1>2, <1>3

(* A container changes its state, or is replaced. *)
LEMMA ContainerType ==
  ASSUME TypeOK, NEW d \in Deployments
  PROVE  /\ \A s \in {"none", "created", "running", "exited"} :
              [cont EXCEPT ![d].state = s] \in [Deployments -> Container]
         /\ [cont EXCEPT ![d] = [gen |-> @.gen + 1, state |-> "created"]]
              \in [Deployments -> Container]
BY DEF TypeOK, Container

LEMMA StopContainerType ==
  ASSUME TypeOK, NEW d \in Deployments, NEW cid, StopContainer(d, cid)
  PROVE  cont' \in [Deployments -> Container]
<1>1. cont[d] \in Container
  BY DEF TypeOK
<1>2. ASSUME NEW s \in {"exited", cont[d].state},
             cont' = [cont EXCEPT ![d] = [cont[d] EXCEPT !.state = s]]
      PROVE  cont' \in [Deployments -> Container]
  BY <1>1, <1>2 DEF TypeOK, Container
<1>3. CASE cont' = [cont EXCEPT ![d].state =
                      IF @ = "running" /\ Present(d, cid) THEN "exited" ELSE @]
  <2>. DEFINE s == IF cont[d].state = "running" /\ Present(d, cid)
                     THEN "exited" ELSE cont[d].state
  <2>1. cont' = [cont EXCEPT ![d] = [cont[d] EXCEPT !.state = s]]
    BY <1>1, <1>3 DEF TypeOK, Container
  <2>. HIDE DEF s
  <2>2. s \in {"exited", cont[d].state}
    BY DEF s
  <2>. QED BY <1>2, <2>1, <2>2
<1>4. CASE UNCHANGED cont
  BY <1>4 DEF TypeOK
<1>. QED BY <1>3, <1>4 DEF StopContainer

LEMMA InitType == Init => TypeOK
<1>. SUFFICES ASSUME Init PROVE TypeOK
  OBVIOUS
<1>1. SlotsTyped
  BY IdleSlotType DEF Init, SlotsTyped
<1>. QED
  BY <1>1, ThresholdAssumption, CrashAssumption
  DEF Init, TypeOK, SlotsTyped, Container, IdleCancel, NotHeld, NewRow, Row, Statuses,
      Conclusions, ContainerStatuses

-----------------------------------------------------------------------------
(* Each process keeps the types. *)

LEMMA WebType ==
  ASSUME TypeOK, NEW d \in Deployments, Create(d) \/ EnqueueStart(d)
  PROVE  TypeOK'
<1>1. CASE Create(d)
  BY <1>1 DEF TypeOK, Create, jobVars, monVars
<1>2. CASE EnqueueStart(d)
  BY <1>2, EnqueueType DEF TypeOK, EnqueueStart, Kinds, monVars
<1>. QED BY <1>1, <1>2

LEMMA CancelType ==
  ASSUME TypeOK, NEW d \in Deployments, CancelLoad(d) \/ CancelNext(d)
  PROVE  TypeOK'
<1>. DEFINE Cancels == [pc : {"idle", "loaded", "committed", "aborting", "stopping",
                              "stopped", "gone", "done"}, snap : Row, linked : BOOLEAN]
<1>0. cancel \in [Deployments -> Cancels] /\ row \in [Deployments -> Row]
  BY DEF TypeOK
<1>c. CancelDone \in Cancels
  BY DEF CancelDone, IdleCancel, NewRow, Row, Statuses, Conclusions, ContainerStatuses
<1>1. CASE CancelLoad(d)
  <2>1. cancel' \in [Deployments -> Cancels]
    <3>1. PICK linked \in BOOLEAN :
            cancel' = [cancel EXCEPT ![d] = [pc |-> "loaded", snap |-> row[d], linked |-> linked]]
      BY <1>1 DEF CancelLoad
    <3>. QED BY <1>0, <3>1
  <2>. QED BY <1>1, <2>1 DEF TypeOK, CancelLoad, rowVars, jobVars, monVars
<1>2. CASE CancelCommit(d)
  <2>. DEFINE new == [cancel[d].snap EXCEPT !.status = "completed", !.conclusion = "canceled"]
  <2>1. new \in Row
    BY <1>0, ZenonT(60) DEF Row, Statuses, Conclusions
  <2>2. row' \in [Deployments -> Row]
    BY <1>0, <1>2, <2>1, MergeType DEF CancelCommit
  <2>3. cancel' \in [Deployments -> Cancels]
    BY <1>0, <1>2, <2>1 DEF CancelCommit
  <2>. QED BY <1>2, <2>2, <2>3 DEF TypeOK, CancelCommit, jobVars, monVars
<1>3. CASE CancelAbort(d)
  <2>1. cancel' \in [Deployments -> Cancels]
    <3>1. \/ cancel' = [cancel EXCEPT ![d] = CancelDone]
          \/ cancel' = [cancel EXCEPT ![d].pc = "aborting"]
          \/ cancel' = [cancel EXCEPT ![d].pc = "stopping"]
      BY <1>3 DEF CancelAbort
    <3>. QED BY <1>0, <1>c, <3>1
  <2>2. aborting' \subseteq Deployments
    BY <1>3 DEF TypeOK, CancelAbort
  <2>. QED BY <1>3, <2>1, <2>2 DEF TypeOK, CancelAbort, rowVars, monVars
<1>4. CASE CancelAborted(d)
  <2>1. cancel' \in [Deployments -> Cancels]
    BY <1>0, <1>4 DEF CancelAborted
  <2>. QED BY <1>4, <2>1 DEF TypeOK, CancelAborted, rowVars, jobVars, monVars
<1>5. CASE CancelStop(d)
  <2>1. cancel' \in [Deployments -> Cancels]
    <3>1. \/ cancel' = [cancel EXCEPT ![d] = CancelDone]
          \/ cancel' = [cancel EXCEPT ![d].pc = "stopped"]
          \/ cancel' = [cancel EXCEPT ![d].pc = "gone"]
      BY <1>5 DEF CancelStop
    <3>. QED BY <1>0, <1>c, <3>1
  <2>2. cont' \in [Deployments -> Container]
    BY <1>5, StopContainerType DEF TypeOK, CancelStop
  <2>3. queue' \in [Deployments -> [Kinds -> Nat]]
    BY <1>5, EnqueueType DEF TypeOK, CancelStop, Kinds
  <2>. QED BY <1>5, <2>1, <2>2, <2>3 DEF TypeOK, CancelStop, rowVars, monVars
<1>6. CASE CancelStopped(d)
  <2>. DEFINE cstat == IF cancel[d].pc = "stopped" THEN "stopped" ELSE "removed"
              new == [cancel[d].snap EXCEPT !.cstat = cstat]
  <2>1. new \in Row
    BY <1>0 DEF Row, ContainerStatuses
  <2>2. row' \in [Deployments -> Row]
    BY <1>0, <1>6, <2>1, MergeType DEF CancelStopped
  <2>3. cancel' \in [Deployments -> Cancels]
    BY <1>0, <1>c, <1>6 DEF CancelStopped
  <2>. QED BY <1>6, <2>2, <2>3 DEF TypeOK, CancelStopped, jobVars, monVars
<1>. QED BY <1>1, <1>2, <1>3, <1>4, <1>5, <1>6 DEF CancelNext

LEMMA StartType ==
  ASSUME TypeOK, NEW w \in Slots, StartNext(w)
  PROVE  TypeOK'
<1>. DEFINE d == slot[w].dep
<1>0. slot[w] \in Slot /\ slot[w].snap \in Row
  BY DEF TypeOK, Slot
<1>a. ASSUME slot[w].pc \in StartSteps PROVE slot[w].pc \in JobSteps /\ d \in Deployments
  BY <1>a DEF TypeOK, JobSteps
<1>b. \A pc \in StartSteps : pc \in SlotSteps
  BY DEF SlotSteps, JobSteps
<1>1. CASE StartPrepare(w)
  <2>1. [slot[w].snap EXCEPT !.status = "prepare"] \in Row
    BY <1>0 DEF Row, Statuses
  <2>2. row' \in [Deployments -> Row] /\ SlotsTyped'
    BY <1>1, <1>a, <1>b, <2>1, CommitType DEF StartPrepare, At, StartSteps
  <2>. QED BY <1>1, <2>2 DEF TypeOK, SlotsTyped, StartPrepare, monVars
<1>2. CASE StartCreate(w)
  <2>1. d \in Deployments
    BY <1>2, <1>a DEF StartCreate, At, StartSteps
  <2>2. cont' \in [Deployments -> Container]
    BY <1>2, <2>1, ContainerType DEF StartCreate, NewContainer
  <2>3. SlotsTyped'
    <3>. DEFINE mine == [slot[w] EXCEPT !.pc = "s_created", !.gen = cont[d].gen + 1]
    <3>1. cont[d].gen + 1 \in Nat
      BY <2>1 DEF TypeOK, Container
    <3>2. mine \in Slot /\ mine.dep = d
      BY <1>0, <1>b, <3>1 DEF Slot, StartSteps
    <3>3. slot' = [slot EXCEPT ![w] = mine]
      BY <1>2 DEF TypeOK, StartCreate
    <3>. QED BY <2>1, <3>2, <3>3 DEF TypeOK, SlotsTyped
  <2>. QED BY <1>2, <2>2, <2>3 DEF TypeOK, SlotsTyped, StartCreate, rowVars, monVars
<1>3. CASE StartContainer(w)
  <2>1. SlotsTyped'
    BY <1>3, <1>a, <1>b, GotoType DEF StartContainer, At, StartSteps
  <2>2. cont' \in [Deployments -> Container]
    <3>1. d \in Deployments
      BY <1>3, <1>a DEF StartContainer, At, StartSteps
    <3>. QED BY <1>3, <3>1, ContainerType DEF StartContainer
  <2>. QED BY <1>3, <2>1, <2>2 DEF TypeOK, SlotsTyped, StartContainer, rowVars, monVars
<1>4. CASE StartSave(w)
  <2>1. [slot[w].snap EXCEPT !.status = "deploy", !.cstat = "running", !.cid = slot[w].gen]
          \in Row
    BY <1>0 DEF Slot, Row, Statuses, ContainerStatuses
  <2>2. row' \in [Deployments -> Row] /\ SlotsTyped'
    BY <1>4, <1>a, <1>b, <2>1, CommitType DEF StartSave, At, StartSteps
  <2>. QED BY <1>4, <2>2 DEF TypeOK, SlotsTyped, StartSave, monVars
<1>5. CASE StartDone(w)
  BY <1>5, FinishType DEF TypeOK, SlotsTyped, StartDone, rowVars, monVars
<1>6. CASE StartFails(w)
  <2>1. d \in Deployments
    BY <1>6, <1>a DEF StartFails, At, StartSteps
  <2>. QED BY <1>6, <2>1, EnqueueType, FinishType
           DEF TypeOK, SlotsTyped, StartFails, Kinds, rowVars, monVars
<1>c. ASSUME Interrupted(d) PROVE aborting' \subseteq Deployments /\ crashes' \in 0 .. MaxCrashes
  BY <1>c, CrashAssumption DEF TypeOK, Interrupted
<1>7. CASE StartInterrupted(w)
  <2>1. d \in Deployments
    BY <1>7, <1>a DEF StartInterrupted, StartSteps
  <2>2. cont' \in [Deployments -> Container]
    <3>1. UNCHANGED cont \/ NewContainer(d)
      BY <1>7 DEF StartInterrupted
    <3>2. CASE UNCHANGED cont
      BY <3>2 DEF TypeOK
    <3>3. CASE NewContainer(d)
      BY <2>1, <3>3, ContainerType DEF NewContainer
    <3>. QED BY <3>1, <3>2, <3>3
  <2>. QED BY <1>7, <1>c, <2>2, FinishType DEF TypeOK, SlotsTyped, StartInterrupted, rowVars, monVars
<1>8. CASE StartStops(w)
  <2>1. slot[w].pc \in JobSteps /\ d \in Deployments
    BY <1>8, <1>a DEF StartStops, StartSteps
  <2>2. SlotsTyped'
    BY <1>8, <2>1, <1>b, GotoType DEF StartStops, StartSteps
  <2>3. cont' \in [Deployments -> Container]
    BY <1>8, <2>1, StopContainerType DEF StartStops
  <2>4. queue' \in [Deployments -> [Kinds -> Nat]]
    BY <1>8, <2>1, EnqueueType DEF StartStops, Kinds
  <2>. QED BY <1>8, <1>c, <2>2, <2>3, <2>4 DEF TypeOK, SlotsTyped, StartStops, rowVars, monVars
<1>9. CASE StartAborted(w)
  <2>1. row' \in [Deployments -> Row]
    <3>1. d \in Deployments
      BY <1>9, <1>a DEF StartAborted, At, StartSteps
    <3>2. [row[d] EXCEPT !.status = "completed", !.conclusion = "canceled", !.cstat = "stopped"]
            \in Row
      <4>1. row[d] \in Row
        BY <3>1 DEF TypeOK
      <4>. QED BY <4>1 DEF Row, Statuses, Conclusions, ContainerStatuses
    <3>3. row' = [row EXCEPT ![d] = [row[d] EXCEPT !.status = "completed",
                                       !.conclusion = "canceled", !.cstat = "stopped"]]
      BY <1>9, <3>1 DEF TypeOK, StartAborted, Row
    <3>. QED BY <3>1, <3>2, <3>3 DEF TypeOK
  <2>. QED BY <1>9, <2>1, FinishType DEF TypeOK, SlotsTyped, StartAborted, monVars
<1>. QED BY <1>1, <1>2, <1>3, <1>4, <1>5, <1>6, <1>7, <1>8, <1>9 DEF StartNext

LEMMA TakeJobType ==
  ASSUME TypeOK, NEW w \in Slots, NEW d \in Deployments, TakeJob(w, d)
  PROVE  TypeOK'
<1>. \A pc \in {"s_loaded", "z_loaded", "f_loaded", "d_loaded"} : pc \in SlotSteps
  BY DEF SlotSteps, JobSteps, StartSteps, FinalizeSteps, FailSteps, DeleteSteps
<1>1. CASE StartLoad(w, d)
  BY <1>1, TakeType DEF TypeOK, SlotsTyped, StartLoad, Kinds, rowVars, monVars
<1>2. CASE StartDropped(w, d)
  <2>1. aborting' \subseteq Deployments
    BY <1>2 DEF TypeOK, StartDropped
  <2>. QED BY <1>2, <2>1, DiscardType
           DEF TypeOK, SlotsTyped, StartDropped, Kinds, rowVars, monVars
<1>3. CASE FinalizeLoad(w, d)
  BY <1>3, TakeType, DiscardType DEF TypeOK, SlotsTyped, FinalizeLoad, Kinds, rowVars, monVars
<1>4. CASE FailLoad(w, d)
  BY <1>4, TakeType, DiscardType DEF TypeOK, SlotsTyped, FailLoad, Kinds, rowVars, monVars
<1>5. CASE DeleteLoad(w, d)
  BY <1>5, TakeType, DiscardType DEF TypeOK, SlotsTyped, DeleteLoad, Kinds, rowVars, monVars
<1>. QED BY <1>1, <1>2, <1>3, <1>4, <1>5 DEF TakeJob

LEMMA FinalizeType ==
  ASSUME TypeOK, NEW w \in Slots, FinalizeNext(w)
  PROVE  TypeOK'
<1>0. slot[w] \in Slot /\ slot[w].snap \in Row
  BY DEF TypeOK, Slot
<1>a. ASSUME slot[w].pc \in FinalizeSteps PROVE slot[w].pc \in JobSteps /\ slot[w].dep \in Deployments
  BY <1>a DEF TypeOK, JobSteps
<1>1. CASE FinalizeFails(w)
  <2>1. slot[w].dep \in Deployments
    BY <1>1, <1>a DEF FinalizeFails, At, FinalizeSteps
  <2>. QED BY <1>1, <2>1, EnqueueType, FinishType
           DEF TypeOK, SlotsTyped, FinalizeFails, Kinds, rowVars, monVars
<1>2. CASE FinalizeConclude(w)
  <2>1. [slot[w].snap EXCEPT !.status = "completed", !.conclusion = "succeeded"] \in Row
    BY <1>0 DEF Row, Statuses, Conclusions
  <2>2. row' \in [Deployments -> Row] /\ SlotsTyped'
    BY <1>2, <1>a, <2>1, CommitType
    DEF FinalizeConclude, At, FinalizeSteps, SlotSteps, JobSteps
  <2>. QED BY <1>2, <2>2 DEF TypeOK, SlotsTyped, FinalizeConclude, monVars
<1>3. CASE FinalizeDone(w)
  BY <1>3, FinishType DEF TypeOK, SlotsTyped, FinalizeDone, rowVars, monVars
<1>. QED BY <1>1, <1>2, <1>3 DEF FinalizeNext

LEMMA FailType ==
  ASSUME TypeOK, NEW w \in Slots, FailNext(w)
  PROVE  TypeOK'
<1>. DEFINE d == slot[w].dep
<1>0. slot[w] \in Slot /\ slot[w].snap \in Row
  BY DEF TypeOK, Slot
<1>a. ASSUME slot[w].pc \in FailSteps PROVE slot[w].pc \in JobSteps /\ d \in Deployments
  BY <1>a DEF TypeOK, JobSteps
<1>b. \A pc \in FailSteps : pc \in SlotSteps
  BY DEF SlotSteps, JobSteps
<1>1. CASE FailMark(w)
  <2>1. [slot[w].snap EXCEPT !.status = "fail"] \in Row
    BY <1>0 DEF Row, Statuses
  <2>2. row' \in [Deployments -> Row] /\ SlotsTyped'
    BY <1>1, <1>a, <1>b, <2>1, CommitType DEF FailMark, At, FailSteps
  <2>. QED BY <1>1, <2>2 DEF TypeOK, SlotsTyped, FailMark, monVars
<1>2. CASE FailStop(w)
  <2>1. slot[w].pc \in JobSteps /\ d \in Deployments
    BY <1>2, <1>a DEF FailStop, At, FailSteps
  <2>2. SlotsTyped'
    BY <1>2, <2>1, <1>b, GotoType DEF FailStop, FailSteps
  <2>3. cont' \in [Deployments -> Container]
    BY <1>2, <2>1, StopContainerType DEF TypeOK, FailStop
  <2>4. queue' \in [Deployments -> [Kinds -> Nat]]
    BY <1>2, <2>1, EnqueueType DEF TypeOK, FailStop, Kinds
  <2>. QED BY <1>2, <2>2, <2>3, <2>4 DEF TypeOK, SlotsTyped, FailStop, rowVars, monVars
<1>3. CASE FailStopped(w)
  <2>. DEFINE new == [slot[w].snap EXCEPT
                        !.cstat = IF At(w, "f_stopped") THEN "stopped" ELSE "removed"]
  <2>1. new \in Row
    BY <1>0 DEF Row, ContainerStatuses
  <2>2. row' \in [Deployments -> Row] /\ SlotsTyped'
    BY <1>3, <1>a, <1>b, <2>1, CommitType DEF FailStopped, FailSteps
  <2>. QED BY <1>3, <2>2 DEF TypeOK, SlotsTyped, FailStopped, monVars
<1>4. CASE FailConclude(w)
  <2>. DEFINE new == [slot[w].snap EXCEPT !.status = "completed", !.conclusion = "failed"]
  <2>1. new \in Row
    BY <1>0 DEF Row, Statuses, Conclusions
  <2>2. row' \in [Deployments -> Row]
    <3>1. row' = [row EXCEPT ![d] = Merge(row[d], slot[w].snap, new)]
      BY <1>4 DEF FailConclude
    <3>2. d \in Deployments /\ row[d] \in Row
      BY <1>4, <1>a DEF TypeOK, FailConclude, At, FailSteps
    <3>. QED BY <1>0, <2>1, <3>1, <3>2, MergeType DEF TypeOK
  <2>. QED BY <1>4, <2>2, FinishType DEF TypeOK, SlotsTyped, FailConclude, monVars
<1>. QED BY <1>1, <1>2, <1>3, <1>4 DEF FailNext

LEMMA DeleteType ==
  ASSUME TypeOK, NEW w \in Slots, DeleteNext(w)
  PROVE  TypeOK'
<1>. DEFINE d == slot[w].dep
<1>0. slot[w] \in Slot /\ slot[w].snap \in Row
  BY DEF TypeOK, Slot
<1>a. ASSUME slot[w].pc \in DeleteSteps
      PROVE  slot[w].pc \in JobSteps /\ d \in Deployments
  BY <1>a DEF TypeOK, JobSteps
<1>1. CASE DeleteRemove(w)
  <2>1. slot[w].pc \in JobSteps /\ d \in Deployments
    BY <1>1, <1>a DEF DeleteRemove, At, DeleteSteps
  <2>2. SlotsTyped'
    BY <1>1, <2>1, GotoType, FinishType DEF DeleteRemove, DeleteSteps, SlotSteps, JobSteps
  <2>3. cont' \in [Deployments -> Container]
    <3>1. \/ cont' = [cont EXCEPT ![d].state =
                        IF Present(d, slot[w].snap.cid) THEN "none" ELSE @]
          \/ StopContainer(d, slot[w].snap.cid)
      BY <1>1 DEF DeleteRemove
    <3>2. CASE cont' = [cont EXCEPT ![d].state =
                          IF Present(d, slot[w].snap.cid) THEN "none" ELSE @]
      <4>1. cont[d].state \in {"none", "created", "running", "exited"}
        BY <2>1 DEF TypeOK, Container
      <4>2. \E s \in {"none", "created", "running", "exited"} :
              cont' = [cont EXCEPT ![d].state = s]
        BY <3>2, <4>1
      <4>3. \A s \in {"none", "created", "running", "exited"} :
              [cont EXCEPT ![d].state = s] \in [Deployments -> Container]
        BY <2>1, ContainerType
      <4>. QED BY <4>2, <4>3
    <3>. QED BY <2>1, <3>1, <3>2, StopContainerType
  <2>. QED BY <1>1, <2>2, <2>3 DEF TypeOK, SlotsTyped, DeleteRemove, rowVars, monVars
<1>2. CASE DeleteCommit(w)
  <2>. DEFINE new == [slot[w].snap EXCEPT !.cstat = "removed"]
  <2>1. new \in Row
    BY <1>0 DEF Row, ContainerStatuses
  <2>2. row' \in [Deployments -> Row]
    <3>1. row' = [row EXCEPT ![d] = Merge(row[d], slot[w].snap, new)]
      BY <1>2 DEF DeleteCommit
    <3>2. d \in Deployments /\ row[d] \in Row
      BY <1>2, <1>a DEF TypeOK, DeleteCommit, At, DeleteSteps
    <3>. QED BY <1>0, <2>1, <3>1, <3>2, MergeType DEF TypeOK
  <2>. QED BY <1>2, <2>2, FinishType DEF TypeOK, SlotsTyped, DeleteCommit, monVars
<1>. QED BY <1>1, <1>2 DEF DeleteNext

LEMMA CleanupType ==
  ASSUME TypeOK, NEW w \in Slots, CleanupNext(w)
  PROVE  TypeOK'
<1>0. slot[w] \in Slot
  BY DEF TypeOK
<1>1. CASE CleanupLoad(w)
  <2>1. PICK referenced \in SUBSET Deployments :
          slot' = [slot EXCEPT ![w] = [IdleSlot EXCEPT
                     !.pc = "c_scanning",
                     !.todo = {<<d, row[d].cid>> : d \in Inactive(referenced)}]]
    BY <1>1 DEF CleanupLoad
  <2>. DEFINE todo == {<<d, row[d].cid>> : d \in Inactive(referenced)}
              mine == [IdleSlot EXCEPT !.pc = "c_scanning", !.todo = todo]
  <2>2. todo \in SUBSET (Deployments \X Nat)
    BY DEF TypeOK, Inactive, Row
  <2>3. mine \in Slot /\ mine.pc \notin JobSteps
    <3>1. "c_scanning" \in SlotSteps /\ "c_scanning" \notin JobSteps
      BY DEF SlotSteps, CleanupSteps, JobSteps, StartSteps, FinalizeSteps, FailSteps, DeleteSteps
    <3>. HIDE DEF todo
    <3>. QED BY <2>2, <3>1, IdleSlotType DEF Slot
  <2>4. SlotsTyped'
    BY <2>1, <2>3 DEF TypeOK, SlotsTyped
  <2>5. cleanups' \in Nat
    BY <1>1 DEF TypeOK, CleanupLoad
  <2>. QED BY <1>1, <2>4, <2>5 DEF TypeOK, SlotsTyped, CleanupLoad, rowVars, monVars
<1>2. CASE CleanupCommit(w)
  <2>1. slot[w].marks \in [Deployments -> Marks]
    BY <1>0 DEF Slot
  <2>. DEFINE marked(d) == [row[d] EXCEPT !.cstat = slot[w].marks[d]]
  <2>2. ASSUME NEW d \in Deployments, slot[w].marks[d] # "keep"
        PROVE  marked(d) \in Row
    <3>1. row[d] \in Row /\ slot[w].marks[d] \in ContainerStatuses
      BY <2>1, <2>2 DEF TypeOK, Marks, ContainerStatuses
    <3>. QED BY <3>1 DEF Row
  <2>3. row' \in [Deployments -> Row]
    BY <1>2, <2>2 DEF TypeOK, CleanupCommit
  <2>. QED BY <1>2, <2>3, FinishType DEF TypeOK, SlotsTyped, CleanupCommit, monVars
<1>3. ASSUME NEW item \in slot[w].todo, CleanupOne(w, item[1], item[2])
      PROVE  TypeOK'
  <2>. DEFINE d == item[1]
              cid == item[2]
  <2>1. d \in Deployments
    BY <1>0 DEF Slot
  <2>2. cont' \in [Deployments -> Container]
    <3>1. \/ cont' = [cont EXCEPT ![d].state = "none"]
          \/ cont' = [cont EXCEPT ![d].state = "exited"]
          \/ UNCHANGED cont
      BY <1>3 DEF CleanupOne
    <3>2. \A s \in {"none", "created", "running", "exited"} :
            [cont EXCEPT ![d].state = s] \in [Deployments -> Container]
      BY <2>1, ContainerType
    <3>. QED BY <3>1, <3>2 DEF TypeOK
  <2>3. SlotsTyped'
    <3>1. PICK m \in Marks :
            slot' = [slot EXCEPT ![w].todo = @ \ {<<d, cid>>}, ![w].marks[d] = m]
      BY <1>3 DEF CleanupOne, Marks
    <3>. DEFINE mine == [slot[w] EXCEPT !.todo = @ \ {<<d, cid>>}, !.marks[d] = m]
    <3>2. mine \in Slot /\ mine.pc = slot[w].pc /\ mine.dep = slot[w].dep
      BY <1>0, <2>1 DEF Slot
    <3>3. slot' = [slot EXCEPT ![w] = mine]
      BY <3>1, ZenonT(60) DEF TypeOK
    <3>. QED BY <3>2, <3>3 DEF TypeOK, SlotsTyped
  <2>. QED BY <1>3, <2>2, <2>3 DEF TypeOK, SlotsTyped, CleanupOne, rowVars, monVars
<1>. QED BY <1>1, <1>2, <1>3 DEF CleanupNext

LEMMA StopType ==
  ASSUME TypeOK,
         WorkerCrash \/ \E w \in Slots : WorkerStop(w) \/ JobTimeout(w)
  PROVE  TypeOK'
<1>1. CASE WorkerCrash
  BY <1>1, RequeuedType, CrashAssumption DEF TypeOK, SlotsTyped, WorkerCrash, rowVars, monVars
<1>2. ASSUME NEW w \in Slots, WorkerStop(w) PROVE TypeOK'
  BY <1>2, RequeuedType, CrashAssumption DEF TypeOK, SlotsTyped, WorkerStop, rowVars, monVars
<1>3. ASSUME NEW w \in Slots, JobTimeout(w) PROVE TypeOK'
  BY <1>3, FinishType, CrashAssumption DEF TypeOK, SlotsTyped, JobTimeout, rowVars, monVars
<1>. QED BY <1>1, <1>2, <1>3

Held == [pc : {"idle", "check", "probe", "ready"}, cid : Nat, status : Statuses]

LEMMA MonitorSelectType ==
  ASSUME TypeOK, MonitorSelect
  PROVE  TypeOK'
<1>1. NotHeld \in Held
  BY DEF NotHeld, Held, Statuses
<1>2. \A d \in Deployments :
        /\ [mon[d] EXCEPT !.pc = "check"] \in Held
        /\ [pc |-> "check", cid |-> row[d].cid, status |-> row[d].status] \in Held
  <2>1. \A d \in Deployments : mon[d] \in Held /\ row[d] \in Row
    BY DEF TypeOK, Held
  <2>. QED BY <2>1 DEF Held, Row
<1>3. mon' \in [Deployments -> Held]
  BY <1>1, <1>2 DEF MonitorSelect
<1>. QED BY <1>3 DEF TypeOK, MonitorSelect, Held, rowVars, jobVars

LEMMA MonitorType ==
  ASSUME TypeOK, NEW d \in Deployments, MonitorNext(d)
  PROVE  TypeOK'
<1>0. mon \in [Deployments -> Held] /\ outage \in [Deployments -> 0 .. Threshold - 1]
  BY DEF TypeOK, Held
<1>r. ASSUME MonitorRest(d) PROVE mon' \in [Deployments -> Held]
  BY <1>0, <1>r DEF MonitorRest, Held
<1>z. [outage EXCEPT ![d] = 0] \in [Deployments -> 0 .. Threshold - 1]
  BY <1>0, ThresholdAssumption
<1>f. ASSUME MonitorFail(d)
      PROVE  /\ mon' \in [Deployments -> Held]
             /\ outage' \in [Deployments -> 0 .. Threshold - 1]
             /\ queue' \in [Deployments -> [Kinds -> Nat]]
  BY <1>f, <1>r, <1>z, EnqueueType DEF MonitorFail, Kinds
<1>1. CASE MonitorTimeout(d)
  BY <1>1, <1>f DEF TypeOK, MonitorTimeout, Held, rowVars
<1>2. CASE MonitorTransient(d)
  <2>1. CASE outage[d] + 1 >= Threshold
    BY <1>2, <2>1, <1>f DEF TypeOK, MonitorTransient, Held, rowVars
  <2>2. CASE ~(outage[d] + 1 >= Threshold)
    <3>1. outage' \in [Deployments -> 0 .. Threshold - 1]
      BY <1>0, <1>2, <2>2, ThresholdAssumption DEF MonitorTransient
    <3>2. mon' \in [Deployments -> Held]
      BY <1>2, <2>2, <1>r DEF MonitorTransient
    <3>. QED BY <1>2, <2>2, <3>1, <3>2 DEF TypeOK, MonitorTransient, Held, rowVars
  <2>. QED BY <2>1, <2>2
<1>3. CASE MonitorLost(d)
  BY <1>3, <1>f DEF TypeOK, MonitorLost, Held, rowVars
<1>4. CASE MonitorExited(d)
  BY <1>4, <1>f DEF TypeOK, MonitorExited, Held, rowVars
<1>5. CASE MonitorProbe(d)
  <2>1. mon' \in [Deployments -> Held]
    BY <1>0, <1>5 DEF MonitorProbe, Held
  <2>. QED BY <1>5, <1>z, <2>1 DEF TypeOK, MonitorProbe, Held, rowVars, jobVars
<1>6. CASE MonitorNotReady(d)
  BY <1>6, <1>r DEF TypeOK, MonitorNotReady, Held, rowVars, jobVars
<1>7. CASE MonitorReady(d)
  <2>1. mon' \in [Deployments -> Held]
    BY <1>0, <1>7 DEF MonitorReady, Held, Statuses
  <2>2. row' \in [Deployments -> Row]
    <3>0. row[d] \in Row
      BY DEF TypeOK
    <3>1. [row[d] EXCEPT !.status = "finalize"] \in Row
      BY <3>0 DEF Row, Statuses
    <3>2. \/ row' = [row EXCEPT ![d] = [row[d] EXCEPT !.status = "finalize"]]
          \/ row' = row
      BY <1>7 DEF TypeOK, MonitorReady, Row
    <3>. QED BY <3>0, <3>1, <3>2 DEF TypeOK
  <2>. QED BY <1>7, <2>1, <2>2 DEF TypeOK, MonitorReady, Held, jobVars
<1>8. CASE MonitorHandOff(d)
  <2>1. queue' \in [Deployments -> [Kinds -> Nat]]
    BY <1>8, EnqueueType DEF MonitorHandOff, Kinds
  <2>. QED BY <1>8, <1>r, <1>z, <2>1 DEF TypeOK, MonitorHandOff, Held, rowVars
<1>. QED BY <1>1, <1>2, <1>3, <1>4, <1>5, <1>6, <1>7, <1>8 DEF MonitorNext

LEMMA EnvironmentType ==
  ASSUME TypeOK, NEW d \in Deployments, Expire(d) \/ AppExit(d)
  PROVE  TypeOK'
<1>1. CASE Expire(d)
  BY <1>1 DEF TypeOK, Expire, rowVars, jobVars
<1>2. CASE AppExit(d)
  BY <1>2, ContainerType DEF TypeOK, AppExit, rowVars, jobVars, monVars
<1>. QED BY <1>1, <1>2

LEMMA NextType == TypeOK /\ [Next]_vars => TypeOK'
<1>. SUFFICES ASSUME TypeOK, [Next]_vars PROVE TypeOK'
  OBVIOUS
<1>1. ASSUME NEW d \in Deployments,
             \/ Create(d) \/ EnqueueStart(d)
             \/ CancelLoad(d) \/ CancelNext(d)
             \/ MonitorNext(d) \/ Expire(d) \/ AppExit(d)
      PROVE  TypeOK'
  BY <1>1, WebType, CancelType, MonitorType, EnvironmentType
<1>2. ASSUME NEW w \in Slots, WorkerNext(w) PROVE TypeOK'
  BY <1>2, TakeJobType, StartType, FinalizeType, FailType, DeleteType, CleanupType
  DEF WorkerNext
<1>3. ASSUME WorkerCrash \/ \E w \in Slots : WorkerStop(w) \/ JobTimeout(w) PROVE TypeOK'
  BY <1>3, StopType
<1>4. CASE MonitorSelect
  BY <1>4, MonitorSelectType
<1>5. CASE UNCHANGED vars
  BY <1>5 DEF TypeOK, vars
<1>. QED BY <1>1, <1>2, <1>3, <1>4, <1>5 DEF Next

(* Whatever the deployments, slots and bounds, every variable keeps its type, *)
(* and every job in progress is about one of the deployments.                 *)
THEOREM TypeCorrect == Spec => []TypeOK
BY InitType, NextType, PTL DEF Spec
-------------------------------------------------------------------------------
(* What each step of Deployment does to the jobs, the rows and the slots,    *)
(* stated once for the proofs in this module and FailureProofs.              *)

Busy(w, d, k) == slot[w].dep = d /\ slot[w].pc \in Steps(k)

(* Alive, without its set of slots. *)
LEMMA AliveMeans ==
  ASSUME NEW d, NEW k
  PROVE  /\ Alive(d, k) <=> queue[d][k] > 0 \/ \E w \in Slots : Busy(w, d, k)
         /\ Alive(d, k)' <=> queue'[d][k] > 0 \/ \E w \in Slots : Busy(w, d, k)'
BY DEF Alive, Running, Busy

LEMMA StepsOf ==
  /\ Steps("start") = StartSteps
  /\ Steps("finalize") = FinalizeSteps
  /\ Steps("fail") = FailSteps
  /\ Steps("delete") = DeleteSteps
BY DEF Steps

LEMMA MergeEffect ==
  ASSUME NEW db \in Row, NEW old \in Row, NEW new \in Row
  PROVE  /\ Merge(db, old, new).conclusion =
              IF new.conclusion # old.conclusion THEN new.conclusion ELSE db.conclusion
         /\ Merge(db, old, new).status =
              IF new.status # old.status THEN new.status ELSE db.status
         /\ Merge(db, old, new).cstat =
              IF new.cstat # old.cstat THEN new.cstat ELSE db.cstat
BY DEF Merge

Others(w) == \A v \in Slots \ {w} : slot'[v] = slot[v]
Queued(d, k, n) ==
  /\ queue'[d][k] = queue[d][k] + n
  /\ \A e \in Deployments, j \in Kinds : e # d \/ j # k => queue'[e][j] = queue[e][j]
Fresh(w) == slot'[w].todo = {} /\ \A d \in Deployments : slot'[w].marks[d] = "keep"
Keeps(w) == /\ slot'[w].dep = slot[w].dep
            /\ slot'[w].todo = slot[w].todo /\ slot'[w].marks = slot[w].marks

LEMMA TakeEffect ==
  ASSUME TypeOK, NEW w \in Slots, NEW d \in Deployments, NEW k \in Kinds, NEW pc,
         Take(w, d, k, pc)
  PROVE  /\ slot[w].pc = "idle" /\ queue[d][k] > 0
         /\ slot'[w].pc = pc /\ slot'[w].dep = d /\ slot'[w].snap = row[d]
         /\ Fresh(w) /\ Others(w) /\ Queued(d, k, -1)
BY DEF TypeOK, Take, IdleSlot, Fresh, Others, Queued

LEMMA DiscardEffect ==
  ASSUME TypeOK, NEW w \in Slots, NEW d \in Deployments, NEW k \in Kinds, Discard(w, d, k)
  PROVE  slot' = slot /\ queue[d][k] > 0 /\ Queued(d, k, -1)
BY DEF TypeOK, Discard, Queued

LEMMA EnqueueEffect ==
  ASSUME TypeOK, NEW d \in Deployments, NEW k \in Kinds, Enqueue(d, k)
  PROVE  Queued(d, k, 1)
BY DEF TypeOK, Enqueue, Queued

LEMMA FinishEffect ==
  ASSUME TypeOK, NEW w \in Slots, Finish(w)
  PROVE  slot'[w].pc = "idle" /\ slot'[w].dep = None /\ Fresh(w) /\ Others(w)
BY DEF TypeOK, Finish, IdleSlot, Fresh, Others

LEMMA GotoEffect ==
  ASSUME TypeOK, NEW w \in Slots, NEW pc, Goto(w, pc)
  PROVE  slot'[w].pc = pc /\ slot'[w].snap = slot[w].snap /\ Keeps(w) /\ Others(w)
<1>1. slot[w] \in Slot
  BY DEF TypeOK
<1>. QED BY <1>1 DEF TypeOK, Goto, Keeps, Others, Slot

LEMMA CommitSlot ==
  ASSUME TypeOK, NEW w \in Slots, NEW pc, NEW new, Commit(w, new, pc)
  PROVE  slot'[w].pc = pc /\ slot'[w].snap = new /\ Keeps(w) /\ Others(w)
<1>1. slot[w] \in Slot
  BY DEF TypeOK
<1>. QED BY <1>1 DEF TypeOK, Commit, Keeps, Others, Slot

(* What a commit of `new' over `old' leaves in the row of d. *)
Wrote(d, old, new) == row' = [row EXCEPT ![d] = Merge(row[d], old, new)]

LEMMA MergeRow ==
  ASSUME TypeOK, NEW d \in Deployments, NEW old \in Row, NEW new \in Row, Wrote(d, old, new)
  PROVE  /\ row'[d].conclusion = IF new.conclusion # old.conclusion
                                   THEN new.conclusion ELSE row[d].conclusion
         /\ row'[d].status = IF new.status # old.status THEN new.status ELSE row[d].status
         /\ row'[d].cstat = IF new.cstat # old.cstat THEN new.cstat ELSE row[d].cstat
         /\ \A e \in Deployments \ {d} : row'[e] = row[e]
<1>1. row[d] \in Row /\ row'[d] = Merge(row[d], old, new)
  BY DEF TypeOK, Wrote
<1>2. \A e \in Deployments \ {d} : row'[e] = row[e]
  BY DEF TypeOK, Wrote
<1>. QED BY <1>1, <1>2, MergeEffect

LEMMA TakeAlive ==
  ASSUME TypeOK, NEW w \in Slots, NEW d \in Deployments, NEW k \in Kinds, NEW pc \in Steps(k),
         Take(w, d, k, pc)
  PROVE  \A e \in Deployments, j \in Kinds : Alive(e, j)' <=> Alive(e, j)
<1>. SUFFICES ASSUME NEW e \in Deployments, NEW j \in Kinds
              PROVE  Alive(e, j)' <=> Alive(e, j)
  OBVIOUS
<1>t. /\ slot[w].pc = "idle" /\ queue[d][k] > 0
      /\ slot'[w].pc = pc /\ slot'[w].dep = d
      /\ Others(w) /\ Queued(d, k, -1)
  BY TakeEffect
<1>n. ~Busy(w, e, j)
  BY <1>t DEF Busy, Kinds, Steps, StartSteps, FinalizeSteps, FailSteps, DeleteSteps
<1>o. \A v \in Slots \ {w} : Busy(v, e, j)' <=> Busy(v, e, j)
  BY <1>t DEF Others, Busy
<1>1. CASE e = d /\ j = k
  <2>1. Busy(w, e, j)'
    BY <1>t, <1>1 DEF Busy
  <2>. QED BY <1>t, <1>1, <2>1, AliveMeans
<1>2. CASE ~(e = d /\ j = k)
  <2>1. ~Busy(w, e, j)'
    BY <1>t, <1>2 DEF Busy, Steps, StartSteps, FinalizeSteps, FailSteps, DeleteSteps, Kinds
  <2>2. queue'[e][j] = queue[e][j]
    BY <1>t, <1>2 DEF Queued
  <2>. QED BY <1>n, <1>o, <2>1, <2>2, AliveMeans
<1>. QED BY <1>1, <1>2

AliveBut(d, ks) == \A e \in Deployments, j \in Kinds :
                     e # d \/ j \notin ks => (Alive(e, j)' <=> Alive(e, j))

(* The steps of different kinds of jobs are different. *)
LEMMA StepsDisjoint ==
  ASSUME NEW k \in Kinds, NEW j \in Kinds, NEW pc \in Steps(k)
  PROVE  /\ pc \in Steps(j) => j = k
         /\ pc \notin {"idle", "c_scanning"}
BY DEF Kinds, Steps, StartSteps, FinalizeSteps, FailSteps, DeleteSteps

(* A slot that goes on with its job is as busy as before. *)
LEMMA StayBusy ==
  ASSUME NEW w \in Slots, NEW k \in Kinds, slot[w].pc \in Steps(k), slot'[w].pc \in Steps(k),
         slot'[w].dep = slot[w].dep, Others(w)
  PROVE  \A v \in Slots, e \in Deployments, j \in Kinds : Busy(v, e, j)' <=> Busy(v, e, j)
BY StepsDisjoint DEF Busy, Others

(* A slot that ends its job is busy no more; nothing else changes. *)
LEMMA EndBusy ==
  ASSUME NEW w \in Slots, NEW k \in Kinds, slot[w].pc \in Steps(k), slot'[w].pc = "idle",
         Others(w)
  PROVE  \A v \in Slots, e \in Deployments, j \in Kinds :
           e # slot[w].dep \/ j # k => (Busy(v, e, j)' <=> Busy(v, e, j))
BY StepsDisjoint DEF Busy, Others

LEMMA SameAlive ==
  ASSUME NEW e \in Deployments, NEW j \in Kinds, queue'[e][j] = queue[e][j],
         \A v \in Slots : Busy(v, e, j)' <=> Busy(v, e, j)
  PROVE  Alive(e, j)' <=> Alive(e, j)
BY AliveMeans

(* The four things a running job may do to the jobs there are. *)
LEMMA StayAlive ==
  ASSUME NEW w \in Slots, NEW k \in Kinds, slot[w].pc \in Steps(k), slot'[w].pc \in Steps(k),
         slot'[w].dep = slot[w].dep, Others(w), queue' = queue, NEW d
  PROVE  AliveBut(d, {})
BY StayBusy, SameAlive DEF AliveBut

LEMMA EndAlive ==
  ASSUME NEW w \in Slots, NEW k \in Kinds, slot[w].pc \in Steps(k), slot'[w].pc = "idle",
         Others(w), queue' = queue, NEW d, slot[w].dep = d
  PROVE  AliveBut(d, {k})
BY EndBusy, SameAlive DEF AliveBut

LEMMA StayAndEnqueue ==
  ASSUME TypeOK, NEW w \in Slots, NEW k \in Kinds, slot[w].pc \in Steps(k),
         slot'[w].pc \in Steps(k), slot'[w].dep = slot[w].dep, Others(w),
         NEW d \in Deployments, slot[w].dep = d, NEW n \in Kinds, Enqueue(d, n)
  PROVE  AliveBut(d, {n}) /\ Alive(d, n)'
<1>1. Queued(d, n, 1)
  BY EnqueueEffect
<1>2. AliveBut(d, {n})
  BY <1>1, StayBusy, SameAlive DEF AliveBut, Queued
<1>3. queue'[d][n] > 0
  BY <1>1 DEF Queued, TypeOK
<1>. QED BY <1>2, <1>3, AliveMeans

LEMMA EndAndEnqueue ==
  ASSUME TypeOK, NEW w \in Slots, NEW k \in Kinds, slot[w].pc \in Steps(k),
         slot'[w].pc = "idle", Others(w),
         NEW d \in Deployments, slot[w].dep = d, NEW n \in Kinds, Enqueue(d, n)
  PROVE  AliveBut(d, {k, n}) /\ Alive(d, n)'
<1>1. Queued(d, n, 1)
  BY EnqueueEffect
<1>2. AliveBut(d, {k, n})
  BY <1>1, EndBusy, SameAlive DEF AliveBut, Queued
<1>3. queue'[d][n] > 0
  BY <1>1 DEF Queued, TypeOK
<1>. QED BY <1>2, <1>3, AliveMeans

(* What happens outside the worker. *)
LEMMA OutsideEnqueue ==
  ASSUME TypeOK, NEW d \in Deployments, NEW n \in Kinds, Enqueue(d, n), slot' = slot
  PROVE  AliveBut(d, {n}) /\ Alive(d, n)'
<1>1. Queued(d, n, 1)
  BY EnqueueEffect
<1>2. AliveBut(d, {n})
  BY <1>1, SameAlive DEF AliveBut, Queued, Busy
<1>3. queue'[d][n] > 0
  BY <1>1 DEF Queued, TypeOK
<1>. QED BY <1>2, <1>3, AliveMeans

LEMMA OutsideSame ==
  ASSUME queue' = queue, slot' = slot, NEW d
  PROVE  AliveBut(d, {})
BY SameAlive DEF AliveBut, Busy

LEMMA DiscardAlive ==
  ASSUME TypeOK, NEW w \in Slots, NEW d \in Deployments, NEW k \in Kinds, Discard(w, d, k)
  PROVE  AliveBut(d, {k})
BY DiscardEffect, SameAlive DEF AliveBut, Busy, Queued

(* Redelivery loses no job and makes none up. *)
LEMMA RequeuedAlive ==
  ASSUME TypeOK, NEW busy \in SUBSET Slots, Requeued(busy), NEW d
  PROVE  AliveBut(d, {})
<1>. SUFFICES ASSUME NEW e \in Deployments, NEW j \in Kinds
              PROVE  Alive(e, j)' <=> Alive(e, j)
  BY DEF AliveBut
<1>. DEFINE R == Running(e, j) \cap busy
            n == Cardinality(R)
<1>1. IsFiniteSet(R)
  BY FS_Subset, SlotsAssumption DEF Running
<1>2. n \in Nat /\ (n = 0 <=> R = {})
  BY <1>1, FS_CardinalityType, FS_EmptySet
<1>3. queue'[e][j] = queue[e][j] + n /\ queue[e][j] \in Nat
  BY DEF Requeued, TypeOK
<1>4. R = {v \in busy : Busy(v, e, j)}
  BY DEF Running, Busy
<1>5. \A v \in busy : ~Busy(v, e, j)'
  BY DEF Requeued, Busy, IdleSlot, Kinds, Steps, StartSteps, FinalizeSteps, FailSteps,
         DeleteSteps
<1>6. \A v \in Slots \ busy : Busy(v, e, j)' <=> Busy(v, e, j)
  BY DEF Requeued, Busy
<1>. HIDE DEF R, n
<1>. QED BY <1>2, <1>3, <1>4, <1>5, <1>6, AliveMeans

LEMMA JobOf ==
  ASSUME TypeOK, NEW w \in Slots, NEW k \in Kinds, slot[w].pc \in Steps(k)
  PROVE  slot[w].dep \in Deployments /\ slot[w] \in Slot /\ slot[w].snap \in Row
BY DEF TypeOK, Slot, Kinds, Steps, JobSteps

(* Two ways to go on with a job, and one to end it. *)
LEMMA GotoAlive ==
  ASSUME TypeOK, NEW w \in Slots, NEW k \in Kinds, NEW pc \in Steps(k), NEW d,
         slot[w].pc \in Steps(k), Goto(w, pc), queue' = queue
  PROVE  AliveBut(d, {})
BY GotoEffect, StayAlive DEF Keeps

LEMMA CommitAlive ==
  ASSUME TypeOK, NEW w \in Slots, NEW k \in Kinds, NEW pc \in Steps(k), NEW d, NEW new,
         slot[w].pc \in Steps(k), Commit(w, new, pc), queue' = queue
  PROVE  AliveBut(d, {})
BY CommitSlot, StayAlive DEF Keeps

LEMMA FinishAlive ==
  ASSUME TypeOK, NEW w \in Slots, NEW k \in Kinds, NEW d, d = slot[w].dep,
         slot[w].pc \in Steps(k), Finish(w), queue' = queue
  PROVE  AliveBut(d, {k})
BY FinishEffect, EndAlive

LEMMA StartAlive ==
  ASSUME TypeOK, NEW w \in Slots, NEW d, d = slot[w].dep
  PROVE  /\ StartPrepare(w) \/ StartCreate(w) \/ StartContainer(w) \/ StartSave(w)
              => AliveBut(d, {})
         /\ StartDone(w) \/ StartInterrupted(w) \/ StartAborted(w) => AliveBut(d, {"start"})
         /\ StartFails(w) => AliveBut(d, {"start", "fail"}) /\ Alive(d, "fail")'
         /\ StartStops(w) => AliveBut(d, {"delete"}) /\ Alive(d, "delete")'
<1>k. "start" \in Kinds /\ "fail" \in Kinds /\ "delete" \in Kinds
  BY DEF Kinds
<1>s. /\ Steps("start") = StartSteps
      /\ {"s_loaded", "s_prepared", "s_created", "s_started", "s_saved", "s_aborted"}
           \subseteq StartSteps
  BY StepsOf DEF StartSteps
<1>1. ASSUME StartPrepare(w) PROVE AliveBut(d, {})
  BY <1>1, <1>k, <1>s, CommitAlive DEF StartPrepare, At
<1>2. ASSUME StartCreate(w) PROVE AliveBut(d, {})
  <2>1. slot'[w].pc = "s_created" /\ slot'[w].dep = slot[w].dep /\ Others(w)
    BY <1>2, <1>k, <1>s, JobOf DEF StartCreate, At, TypeOK, Slot, Others
  <2>. QED BY <1>2, <1>k, <1>s, <2>1, StayAlive DEF StartCreate, At
<1>3. ASSUME StartContainer(w) PROVE AliveBut(d, {})
  BY <1>3, <1>k, <1>s, GotoAlive DEF StartContainer, At
<1>4. ASSUME StartSave(w) PROVE AliveBut(d, {})
  BY <1>4, <1>k, <1>s, CommitAlive DEF StartSave, At
<1>5. ASSUME StartDone(w) \/ StartInterrupted(w) \/ StartAborted(w)
      PROVE  AliveBut(d, {"start"})
  BY <1>5, <1>k, <1>s, FinishAlive DEF StartDone, StartInterrupted, StartAborted, At
<1>6. ASSUME StartFails(w) PROVE AliveBut(d, {"start", "fail"}) /\ Alive(d, "fail")'
  <2>1. slot[w].pc \in StartSteps
    BY <1>6, <1>s DEF StartFails, At
  <2>. QED BY <1>6, <1>k, <1>s, <2>1, JobOf, FinishEffect, EndAndEnqueue DEF StartFails
<1>7. ASSUME StartStops(w) PROVE AliveBut(d, {"delete"}) /\ Alive(d, "delete")'
  <2>1. slot[w].pc \in StartSteps
    BY <1>7, <1>s DEF StartStops
  <2>. QED BY <1>7, <1>k, <1>s, <2>1, JobOf, GotoEffect, StayAndEnqueue DEF StartStops, Keeps
<1>. QED BY <1>1, <1>2, <1>3, <1>4, <1>5, <1>6, <1>7

LEMMA FinalizeAlive ==
  ASSUME TypeOK, NEW w \in Slots, NEW d, d = slot[w].dep
  PROVE  /\ FinalizeConclude(w) => AliveBut(d, {})
         /\ FinalizeDone(w) => AliveBut(d, {"finalize"})
         /\ FinalizeFails(w) => AliveBut(d, {"finalize", "fail"}) /\ Alive(d, "fail")'
<1>k. "finalize" \in Kinds /\ "fail" \in Kinds
  BY DEF Kinds
<1>s. /\ Steps("finalize") = FinalizeSteps
      /\ {"z_loaded", "z_concluded"} \subseteq FinalizeSteps
  BY StepsOf DEF FinalizeSteps
<1>1. ASSUME FinalizeConclude(w) PROVE AliveBut(d, {})
  BY <1>1, <1>k, <1>s, CommitAlive DEF FinalizeConclude, At
<1>2. ASSUME FinalizeDone(w) PROVE AliveBut(d, {"finalize"})
  BY <1>2, <1>k, <1>s, FinishAlive DEF FinalizeDone, At
<1>3. ASSUME FinalizeFails(w) PROVE AliveBut(d, {"finalize", "fail"}) /\ Alive(d, "fail")'
  <2>1. slot[w].pc \in FinalizeSteps
    BY <1>3, <1>s DEF FinalizeFails, At
  <2>. QED BY <1>3, <1>k, <1>s, <2>1, JobOf, FinishEffect, EndAndEnqueue DEF FinalizeFails
<1>. QED BY <1>1, <1>2, <1>3

LEMMA FailAlive ==
  ASSUME TypeOK, NEW w \in Slots, NEW d, d = slot[w].dep
  PROVE  /\ FailMark(w) \/ FailStopped(w) => AliveBut(d, {}) /\ Alive(d, "fail")
         /\ FailStop(w) => AliveBut(d, {"delete"}) /\ Alive(d, "fail")
         /\ FailConclude(w) => AliveBut(d, {"fail"})
<1>k. "delete" \in Kinds /\ "fail" \in Kinds
  BY DEF Kinds
<1>s. /\ Steps("fail") = FailSteps
      /\ {"f_loaded", "f_marked", "f_stopped", "f_gone", "f_clean"} \subseteq FailSteps
  BY StepsOf DEF FailSteps
<1>a. ASSUME slot[w].pc \in FailSteps PROVE Alive(d, "fail")
  BY <1>a, <1>s, AliveMeans DEF Busy
<1>1. ASSUME FailMark(w) PROVE AliveBut(d, {})
  BY <1>1, <1>k, <1>s, CommitAlive DEF FailMark, At
<1>2. ASSUME FailStopped(w) PROVE AliveBut(d, {})
  BY <1>2, <1>k, <1>s, CommitAlive DEF FailStopped, At
<1>3. ASSUME FailStop(w) PROVE AliveBut(d, {"delete"})
  <2>1. slot[w].pc \in FailSteps /\ d \in Deployments
    BY <1>3, <1>k, <1>s, JobOf DEF FailStop, At
  <2>2. PICK pc \in FailSteps : Goto(w, pc)
    BY <1>3, <1>s DEF FailStop
  <2>3. queue' = queue \/ Enqueue(d, "delete")
    BY <1>3 DEF FailStop
  <2>4. CASE queue' = queue
    BY <1>k, <1>s, <2>1, <2>2, <2>4, GotoAlive DEF AliveBut
  <2>5. CASE Enqueue(d, "delete")
    BY <1>k, <1>s, <2>1, <2>2, <2>5, GotoEffect, StayAndEnqueue DEF Keeps
  <2>. QED BY <2>3, <2>4, <2>5
<1>4. ASSUME FailConclude(w) PROVE AliveBut(d, {"fail"})
  BY <1>4, <1>k, <1>s, FinishAlive DEF FailConclude, At
<1>5. FailMark(w) \/ FailStopped(w) \/ FailStop(w) => slot[w].pc \in FailSteps
  BY <1>s DEF FailMark, FailStopped, FailStop, At
<1>. QED BY <1>a, <1>1, <1>2, <1>3, <1>4, <1>5

LEMMA DeleteAlive ==
  ASSUME TypeOK, NEW w \in Slots, NEW d, d = slot[w].dep, DeleteNext(w)
  PROVE  AliveBut(d, {"delete"}) /\ Alive(d, "delete")
<1>k. "delete" \in Kinds
  BY DEF Kinds
<1>s. Steps("delete") = DeleteSteps /\ {"d_loaded", "d_deleted"} \subseteq DeleteSteps
  BY StepsOf DEF DeleteSteps
<1>1. slot[w].pc \in DeleteSteps
  BY <1>s DEF DeleteNext, DeleteRemove, DeleteCommit, At
<1>2. Goto(w, "d_deleted") \/ Finish(w)
  BY DEF DeleteNext, DeleteRemove, DeleteCommit
<1>3. queue' = queue
  BY DEF DeleteNext, DeleteRemove, DeleteCommit
<1>4. AliveBut(d, {"delete"})
  BY <1>k, <1>s, <1>1, <1>2, <1>3, GotoAlive, FinishAlive DEF AliveBut
<1>5. Alive(d, "delete")
  BY <1>s, <1>1, AliveMeans DEF Busy
<1>. QED BY <1>4, <1>5

LEMMA CleanupAlive ==
  ASSUME TypeOK, NEW w \in Slots, CleanupNext(w), NEW d
  PROVE  AliveBut(d, {}) /\ Others(w)
<1>1. /\ slot[w].pc \in {"idle", "c_scanning"} /\ slot'[w].pc \in {"idle", "c_scanning"}
      /\ Others(w) /\ queue' = queue
  <2>0. slot[w] \in Slot
    BY DEF TypeOK
  <2>1. CASE CleanupLoad(w)
    BY <2>1 DEF CleanupLoad, TypeOK, IdleSlot, Others, At
  <2>2. CASE CleanupCommit(w)
    BY <2>2, FinishEffect DEF CleanupCommit, At
  <2>3. ASSUME NEW item \in slot[w].todo, CleanupOne(w, item[1], item[2])
        PROVE  /\ slot[w].pc = "c_scanning" /\ slot'[w].pc = slot[w].pc
               /\ Others(w) /\ queue' = queue
    <3>1. \E m \in Marks : slot' = [slot EXCEPT ![w].todo = @ \ {<<item[1], item[2]>>},
                                                ![w].marks[item[1]] = m]
      BY <2>3 DEF CleanupOne, Marks
    <3>. QED BY <2>0, <2>3, <3>1 DEF CleanupOne, TypeOK, Slot, Others, At
  <2>. QED BY <2>1, <2>2, <2>3 DEF CleanupNext
<1>2. \A v \in Slots, e \in Deployments, j \in Kinds : Busy(v, e, j)' <=> Busy(v, e, j)
  BY <1>1, StepsDisjoint DEF Busy, Others
<1>. QED BY <1>1, <1>2, SameAlive DEF AliveBut

LEMMA TakeJobAlive ==
  ASSUME TypeOK, NEW w \in Slots, NEW d \in Deployments
  PROVE  /\ StartLoad(w, d) => AliveBut(d, {})
         /\ StartDropped(w, d) => AliveBut(d, {"start"})
         /\ FinalizeLoad(w, d) =>
              AliveBut(d, {}) \/ (row[d].conclusion = "canceled" /\ AliveBut(d, {"finalize"}))
         /\ FailLoad(w, d) =>
              AliveBut(d, {}) \/ (row[d].conclusion # "none" /\ AliveBut(d, {"fail"}))
         /\ DeleteLoad(w, d) => AliveBut(d, {"delete"})
<1>k. {"start", "finalize", "fail", "delete"} \subseteq Kinds
  BY DEF Kinds
<1>s. /\ "s_loaded" \in Steps("start") /\ "z_loaded" \in Steps("finalize")
      /\ "f_loaded" \in Steps("fail") /\ "d_loaded" \in Steps("delete")
  BY StepsOf DEF StartSteps, FinalizeSteps, FailSteps, DeleteSteps
<1>t. ASSUME NEW k \in Kinds, NEW pc \in Steps(k), Take(w, d, k, pc)
      PROVE  AliveBut(d, {}) /\ AliveBut(d, {k})
  BY <1>t, TakeAlive DEF AliveBut
<1>. QED BY <1>k, <1>s, <1>t, DiscardAlive
         DEF StartLoad, StartDropped, FinalizeLoad, FailLoad, DeleteLoad

LEMMA MonitorAlive ==
  ASSUME TypeOK, NEW d \in Deployments, MonitorNext(d)
  PROVE  \/ AliveBut(d, {})
         \/ AliveBut(d, {"fail"}) /\ Alive(d, "fail")' /\ mon[d].pc # "ready"
         \/ MonitorHandOff(d) /\ AliveBut(d, {"finalize"}) /\ Alive(d, "finalize")'
<1>k. {"fail", "finalize"} \subseteq Kinds
  BY DEF Kinds
<1>1. slot' = slot
  BY DEF MonitorNext, MonitorTimeout, MonitorTransient, MonitorLost, MonitorExited, MonitorProbe,
         MonitorNotReady, MonitorReady, MonitorHandOff, jobVars
<1>2. \/ queue' = queue
      \/ Enqueue(d, "fail") /\ mon[d].pc # "ready"
      \/ MonitorHandOff(d) /\ Enqueue(d, "finalize")
  BY DEF MonitorNext, MonitorTimeout, MonitorTransient, MonitorLost, MonitorExited, MonitorProbe,
         MonitorNotReady, MonitorReady, MonitorHandOff, MonitorFail, jobVars
<1>. QED BY <1>k, <1>1, <1>2, OutsideEnqueue, OutsideSame

LEMMA CancelAlive ==
  ASSUME TypeOK, NEW d \in Deployments, CancelLoad(d) \/ CancelNext(d)
  PROVE  AliveBut(d, {}) \/ (AliveBut(d, {"delete"}) /\ CancelStop(d))
<1>k. "delete" \in Kinds
  BY DEF Kinds
<1>1. slot' = slot
  BY DEF CancelLoad, CancelNext, CancelCommit, CancelAbort, CancelAborted, CancelStop,
         CancelStopped, jobVars
<1>2. queue' = queue \/ (Enqueue(d, "delete") /\ CancelStop(d))
  BY DEF CancelLoad, CancelNext, CancelCommit, CancelAbort, CancelAborted, CancelStop,
         CancelStopped, jobVars
<1>3. ASSUME queue' = queue PROVE AliveBut(d, {})
  BY <1>1, <1>3, OutsideSame
<1>4. ASSUME Enqueue(d, "delete") PROVE AliveBut(d, {"delete"})
  BY <1>k, <1>1, <1>4, OutsideEnqueue
<1>. QED BY <1>2, <1>3, <1>4
-----------------------------------------------------------------------------
(* What each step does to the rows. A step that is not named leaves them.    *)

RowSame(d) == row'[d] = row[d]
OtherRows(d) == \A e \in Deployments \ {d} : RowSame(e)
Column(d, c, old, new) == row'[d][c] = IF new # old THEN new ELSE row[d][c]

LEMMA CancelRow ==
  ASSUME TypeOK, NEW d \in Deployments
  PROVE  /\ CancelCommit(d) =>
              /\ OtherRows(d)
              /\ Column(d, "conclusion", cancel[d].snap.conclusion, "canceled")
              /\ Column(d, "status", cancel[d].snap.status, "completed")
              /\ row'[d].cstat = row[d].cstat
         /\ CancelStopped(d) =>
              /\ OtherRows(d)
              /\ row'[d].conclusion = row[d].conclusion /\ row'[d].status = row[d].status
<1>0. cancel[d].snap \in Row
  BY DEF TypeOK
<1>1. ASSUME CancelCommit(d)
      PROVE  /\ OtherRows(d)
             /\ Column(d, "conclusion", cancel[d].snap.conclusion, "canceled")
             /\ Column(d, "status", cancel[d].snap.status, "completed")
             /\ row'[d].cstat = row[d].cstat
  <2>. DEFINE new == [cancel[d].snap EXCEPT !.status = "completed", !.conclusion = "canceled"]
  <2>1. /\ new \in Row /\ new.cstat = cancel[d].snap.cstat
        /\ new.status = "completed" /\ new.conclusion = "canceled"
    BY <1>0 DEF Row, Statuses, Conclusions
  <2>2. Wrote(d, cancel[d].snap, new)
    BY <1>1 DEF Wrote, CancelCommit
  <2>. HIDE DEF new
  <2>. QED BY <1>0, <2>1, <2>2, MergeRow DEF OtherRows, RowSame, Column
<1>2. ASSUME CancelStopped(d)
      PROVE  /\ OtherRows(d)
             /\ row'[d].conclusion = row[d].conclusion /\ row'[d].status = row[d].status
  <2>. DEFINE cstat == IF cancel[d].pc = "stopped" THEN "stopped" ELSE "removed"
              new == [cancel[d].snap EXCEPT !.cstat = cstat]
  <2>1. /\ new \in Row /\ new.status = cancel[d].snap.status
        /\ new.conclusion = cancel[d].snap.conclusion
    BY <1>0 DEF Row, ContainerStatuses
  <2>2. Wrote(d, cancel[d].snap, new)
    BY <1>2 DEF Wrote, CancelStopped
  <2>. HIDE DEF new
  <2>. QED BY <1>0, <2>1, <2>2, MergeRow DEF OtherRows, RowSame
<1>. QED BY <1>1, <1>2

LEMMA StartRow ==
  ASSUME TypeOK, NEW w \in Slots, NEW d, d = slot[w].dep
  PROVE  /\ StartPrepare(w) =>
              /\ OtherRows(d)
              /\ row'[d].conclusion = row[d].conclusion /\ row'[d].cstat = row[d].cstat
              /\ Column(d, "status", slot[w].snap.status, "prepare")
         /\ StartSave(w) =>
              /\ OtherRows(d)
              /\ row'[d].conclusion = row[d].conclusion
              /\ Column(d, "cstat", slot[w].snap.cstat, "running")
              /\ Column(d, "status", slot[w].snap.status, "deploy")
         /\ StartAborted(w) =>
              /\ OtherRows(d) /\ row'[d].conclusion = "canceled"
<1>0. ASSUME slot[w].pc \in StartSteps PROVE d \in Deployments /\ slot[w] \in Slot /\ slot[w].snap \in Row
  BY <1>0, JobOf, StepsOf DEF Kinds
<1>1. ASSUME StartPrepare(w)
      PROVE  /\ OtherRows(d)
             /\ row'[d].conclusion = row[d].conclusion /\ row'[d].cstat = row[d].cstat
             /\ Column(d, "status", slot[w].snap.status, "prepare")
  <2>. DEFINE new == [slot[w].snap EXCEPT !.status = "prepare"]
  <2>0. d \in Deployments /\ slot[w].snap \in Row
    BY <1>0, <1>1 DEF StartPrepare, At, StartSteps
  <2>1. /\ new \in Row /\ new.status = "prepare" /\ new.cstat = slot[w].snap.cstat
        /\ new.conclusion = slot[w].snap.conclusion
    BY <2>0 DEF Row, Statuses
  <2>2. Wrote(d, slot[w].snap, new)
    BY <1>1 DEF Wrote, StartPrepare, Commit
  <2>. HIDE DEF new
  <2>. QED BY <2>0, <2>1, <2>2, MergeRow DEF OtherRows, RowSame, Column
<1>2. ASSUME StartSave(w)
      PROVE  /\ OtherRows(d)
             /\ row'[d].conclusion = row[d].conclusion
             /\ Column(d, "cstat", slot[w].snap.cstat, "running")
             /\ Column(d, "status", slot[w].snap.status, "deploy")
  <2>. DEFINE new == [slot[w].snap EXCEPT !.status = "deploy", !.cstat = "running",
                                          !.cid = slot[w].gen]
  <2>0. d \in Deployments /\ slot[w].snap \in Row /\ slot[w].gen \in Nat
    BY <1>0, <1>2 DEF StartSave, At, StartSteps, Slot
  <2>1. /\ new \in Row /\ new.status = "deploy" /\ new.cstat = "running"
        /\ new.conclusion = slot[w].snap.conclusion
    BY <2>0 DEF Row, Statuses, ContainerStatuses
  <2>2. Wrote(d, slot[w].snap, new)
    BY <1>2 DEF Wrote, StartSave, Commit
  <2>. HIDE DEF new
  <2>. QED BY <2>0, <2>1, <2>2, MergeRow DEF OtherRows, RowSame, Column
<1>3. ASSUME StartAborted(w) PROVE OtherRows(d) /\ row'[d].conclusion = "canceled"
  <2>1. d \in Deployments /\ row[d] \in Row
    BY <1>0, <1>3 DEF StartAborted, At, StartSteps, TypeOK
  <2>2. row' = [row EXCEPT ![d] = [row[d] EXCEPT !.status = "completed",
                                     !.conclusion = "canceled", !.cstat = "stopped"]]
    BY <1>3, <2>1 DEF TypeOK, StartAborted, Row
  <2>. QED BY <2>1, <2>2 DEF TypeOK, OtherRows, RowSame, Row
<1>. QED BY <1>1, <1>2, <1>3

LEMMA FinalizeRow ==
  ASSUME TypeOK, NEW w \in Slots, NEW d, d = slot[w].dep, FinalizeConclude(w)
  PROVE  /\ OtherRows(d) /\ Alive(d, "finalize")
         /\ Column(d, "conclusion", slot[w].snap.conclusion, "succeeded")
         /\ Column(d, "status", slot[w].snap.status, "completed")
<1>. DEFINE new == [slot[w].snap EXCEPT !.status = "completed", !.conclusion = "succeeded"]
<1>0. slot[w].pc \in FinalizeSteps /\ d \in Deployments /\ slot[w].snap \in Row
  BY JobOf, StepsOf DEF FinalizeConclude, At, FinalizeSteps, Kinds
<1>1. new \in Row /\ new.conclusion = "succeeded" /\ new.status = "completed"
  BY <1>0 DEF Row, Statuses, Conclusions
<1>2. Wrote(d, slot[w].snap, new)
  BY DEF Wrote, FinalizeConclude, Commit
<1>3. Alive(d, "finalize")
  BY <1>0, AliveMeans, StepsOf DEF Busy
<1>. HIDE DEF new
<1>. QED BY <1>0, <1>1, <1>2, <1>3, MergeRow DEF OtherRows, RowSame, Column

LEMMA FailRow ==
  ASSUME TypeOK, NEW w \in Slots, NEW d, d = slot[w].dep
  PROVE  /\ FailMark(w) \/ FailStopped(w) =>
              OtherRows(d) /\ row'[d].conclusion = row[d].conclusion
         /\ FailMark(w) => row'[d].cstat = row[d].cstat /\ Column(d, "status", slot[w].snap.status, "fail")
         /\ FailStopped(w) => row'[d].status = row[d].status
         /\ FailConclude(w) =>
              /\ OtherRows(d)
              /\ Column(d, "conclusion", slot[w].snap.conclusion, "failed")
              /\ Column(d, "status", slot[w].snap.status, "completed")
<1>0. ASSUME slot[w].pc \in FailSteps PROVE d \in Deployments /\ slot[w].snap \in Row
  BY <1>0, JobOf, StepsOf DEF Kinds
<1>1. ASSUME FailMark(w)
      PROVE  /\ OtherRows(d) /\ row'[d].conclusion = row[d].conclusion
             /\ row'[d].cstat = row[d].cstat /\ Column(d, "status", slot[w].snap.status, "fail")
  <2>. DEFINE new == [slot[w].snap EXCEPT !.status = "fail"]
  <2>0. d \in Deployments /\ slot[w].snap \in Row
    BY <1>0, <1>1 DEF FailMark, At, FailSteps
  <2>1. /\ new \in Row /\ new.status = "fail" /\ new.cstat = slot[w].snap.cstat
        /\ new.conclusion = slot[w].snap.conclusion
    BY <2>0 DEF Row, Statuses
  <2>2. Wrote(d, slot[w].snap, new)
    BY <1>1 DEF Wrote, FailMark, Commit
  <2>. HIDE DEF new
  <2>. QED BY <2>0, <2>1, <2>2, MergeRow DEF OtherRows, RowSame, Column
<1>2. ASSUME FailStopped(w)
      PROVE  /\ OtherRows(d) /\ row'[d].conclusion = row[d].conclusion
             /\ row'[d].status = row[d].status
  <2>. DEFINE new == [slot[w].snap EXCEPT
                        !.cstat = IF At(w, "f_stopped") THEN "stopped" ELSE "removed"]
  <2>0. d \in Deployments /\ slot[w].snap \in Row
    BY <1>0, <1>2 DEF FailStopped, FailSteps
  <2>1. /\ new \in Row /\ new.status = slot[w].snap.status
        /\ new.conclusion = slot[w].snap.conclusion
    BY <2>0 DEF Row, ContainerStatuses
  <2>2. Wrote(d, slot[w].snap, new)
    BY <1>2 DEF Wrote, FailStopped, Commit
  <2>. HIDE DEF new
  <2>. QED BY <2>0, <2>1, <2>2, MergeRow DEF OtherRows, RowSame
<1>3. ASSUME FailConclude(w)
      PROVE  /\ OtherRows(d)
             /\ Column(d, "conclusion", slot[w].snap.conclusion, "failed")
             /\ Column(d, "status", slot[w].snap.status, "completed")
  <2>. DEFINE new == [slot[w].snap EXCEPT !.status = "completed", !.conclusion = "failed"]
  <2>0. d \in Deployments /\ slot[w].snap \in Row
    BY <1>0, <1>3 DEF FailConclude, At, FailSteps
  <2>1. new \in Row /\ new.conclusion = "failed" /\ new.status = "completed"
    BY <2>0 DEF Row, Statuses, Conclusions
  <2>2. Wrote(d, slot[w].snap, new)
    BY <1>3 DEF Wrote, FailConclude
  <2>. HIDE DEF new
  <2>. QED BY <2>0, <2>1, <2>2, MergeRow DEF OtherRows, RowSame, Column
<1>. QED BY <1>1, <1>2, <1>3

LEMMA DeleteRow ==
  ASSUME TypeOK, NEW w \in Slots, NEW d, d = slot[w].dep, DeleteCommit(w)
  PROVE  /\ OtherRows(d)
         /\ row'[d].conclusion = row[d].conclusion /\ row'[d].status = row[d].status
<1>. DEFINE new == [slot[w].snap EXCEPT !.cstat = "removed"]
<1>0. d \in Deployments /\ slot[w].snap \in Row
  BY JobOf, StepsOf DEF DeleteCommit, At, DeleteSteps, Kinds
<1>1. /\ new \in Row /\ new.status = slot[w].snap.status
      /\ new.conclusion = slot[w].snap.conclusion
  BY <1>0 DEF Row, ContainerStatuses
<1>2. Wrote(d, slot[w].snap, new)
  BY DEF Wrote, DeleteCommit
<1>. HIDE DEF new
<1>. QED BY <1>0, <1>1, <1>2, MergeRow DEF OtherRows, RowSame

LEMMA CleanupRow ==
  ASSUME TypeOK, NEW w \in Slots, NEW d \in Deployments, CleanupCommit(w)
  PROVE  /\ row'[d].conclusion = row[d].conclusion /\ row'[d].status = row[d].status
         /\ slot[w].marks[d] = "keep" => RowSame(d)
<1>1. row[d] \in Row
  BY DEF TypeOK
<1>. QED BY <1>1 DEF CleanupCommit, RowSame, Row

LEMMA ReadyRow ==
  ASSUME TypeOK, NEW d \in Deployments, MonitorReady(d)
  PROVE  /\ OtherRows(d)
         /\ row'[d].conclusion = row[d].conclusion /\ row'[d].cstat = row[d].cstat
         /\ row'[d].status \in {"finalize", row[d].status}
<1>1. row[d] \in Row
  BY DEF TypeOK
<1>. QED BY <1>1 DEF MonitorReady, OtherRows, RowSame, TypeOK, Row
------------------------------------------------------------------------------
(***************************************************************************)
(* What no step may lose: an app is aliased only after it answered, and    *)
(* every deployment has someone responsible.                               *)
(***************************************************************************)

SameJobs(d, ks) == \A j \in Kinds \ ks : Alive(d, j)' <=> Alive(d, j)

LEMMA ButSame ==
  ASSUME NEW e \in Deployments, NEW d \in Deployments, NEW ks, AliveBut(e, ks)
  PROVE  /\ e = d => SameJobs(d, ks)
         /\ e # d => SameJobs(d, {})
BY DEF AliveBut, SameJobs

(* How a step may change which jobs a deployment d has. *)
FailAdded(d) == SameJobs(d, {"start", "fail"}) /\ Alive(d, "fail")'
FinalizeFailed(d) ==
  SameJobs(d, {"finalize", "fail"}) /\ Alive(d, "finalize") /\ Alive(d, "fail")'
HandedOff(d) == SameJobs(d, {"finalize"}) /\ MonitorHandOff(d) /\ Alive(d, "finalize")'
DeleteChanged(d) ==
  /\ SameJobs(d, {"delete"})
  /\ \/ Alive(d, "delete")
     \/ CancelStop(d)
     \/ \E w \in Slots : slot[w].dep = d /\ (StartStops(w) \/ (FailStop(w) /\ Alive(d, "fail")))
FinalizeEnded(d) ==
  /\ SameJobs(d, {"finalize"}) /\ Alive(d, "finalize")
  /\ \/ row[d].conclusion = "canceled"
     \/ \E w \in Slots : slot[w].dep = d /\ FinalizeDone(w)
     \/ Shutdowns
FailEnded(d) ==
  /\ SameJobs(d, {"fail"})
  /\ \/ row[d].conclusion # "none"
     \/ \E w \in Slots : slot[w].dep = d /\ FailConclude(w)
     \/ Shutdowns
JobChange(d) == \/ SameJobs(d, {"start"}) \/ FailAdded(d) \/ FinalizeFailed(d)
                \/ HandedOff(d) \/ DeleteChanged(d) \/ FinalizeEnded(d) \/ FailEnded(d)

LEMMA NoJobChange ==
  ASSUME NEW d \in Deployments, NEW e \in Deployments,
         AliveBut(e, {}) \/ (e # d /\ \E ks : AliveBut(e, ks))
  PROVE  JobChange(d)
<1>1. SameJobs(d, {})
  BY ButSame
<1>. QED BY <1>1 DEF SameJobs, JobChange

LEMMA TakeJobChange ==
  ASSUME TypeOK, NEW w \in Slots, NEW e \in Deployments, TakeJob(w, e), NEW d \in Deployments
  PROVE  JobChange(d)
<1>1. CASE e # d
  <2>1. \E ks : AliveBut(e, ks)
    BY TakeJobAlive DEF TakeJob
  <2>. QED BY <1>1, <2>1, NoJobChange
<1>2. CASE e = d
  <2>1. CASE StartLoad(w, d)
    BY <1>2, <2>1, TakeJobAlive, NoJobChange
  <2>2. CASE StartDropped(w, d)
    BY <1>2, <2>2, TakeJobAlive, ButSame DEF JobChange
  <2>3. CASE FinalizeLoad(w, d)
    <3>1. CASE AliveBut(d, {})
      BY <3>1, NoJobChange
    <3>2. CASE row[d].conclusion = "canceled" /\ AliveBut(d, {"finalize"})
      <4>1. slot[w].pc = "idle" /\ queue[d]["finalize"] > 0
        BY <2>3 DEF FinalizeLoad, Take, Discard
      <4>2. Alive(d, "finalize")
        BY <4>1 DEF Alive
      <4>. QED BY <3>2, <4>2, ButSame DEF JobChange, FinalizeEnded
    <3>. QED BY <2>3, <3>1, <3>2, TakeJobAlive
  <2>4. CASE FailLoad(w, d)
    BY <2>4, TakeJobAlive, NoJobChange, ButSame DEF JobChange, FailEnded
  <2>5. CASE DeleteLoad(w, d)
    <3>1. queue[d]["delete"] > 0
      BY <2>5 DEF DeleteLoad, Take, Discard
    <3>2. Alive(d, "delete")
      BY <3>1 DEF Alive
    <3>. QED BY <2>5, <3>2, TakeJobAlive, ButSame DEF JobChange, DeleteChanged
  <2>. QED BY <1>2, <2>1, <2>2, <2>3, <2>4, <2>5 DEF TakeJob
<1>. QED BY <1>1, <1>2

(* A slot whose job runs has a deployment. *)
LEMMA RunningDep ==
  ASSUME TypeOK, NEW w \in Slots,
         StartNext(w) \/ FinalizeNext(w) \/ FailNext(w) \/ DeleteNext(w)
  PROVE  slot[w].dep \in Deployments
BY DEF TypeOK, JobSteps, StartSteps, FinalizeSteps, FailSteps, DeleteSteps, At,
       StartNext, StartPrepare, StartCreate, StartContainer, StartSave, StartDone, StartFails,
       StartInterrupted, StartStops, StartAborted, FinalizeNext, FinalizeFails,
       FinalizeConclude, FinalizeDone, FailNext, FailMark, FailStop, FailStopped,
       FailConclude, DeleteNext, DeleteRemove, DeleteCommit

LEMMA JobStepChange ==
  ASSUME TypeOK, NEW w \in Slots, NEW d \in Deployments,
         StartNext(w) \/ FinalizeNext(w) \/ FailNext(w) \/ DeleteNext(w)
  PROVE  JobChange(d)
<1>. DEFINE e == slot[w].dep
<1>0. e \in Deployments
  BY RunningDep
<1>1. \E ks : AliveBut(e, ks)
  BY StartAlive, FinalizeAlive, FailAlive, DeleteAlive DEF StartNext, FinalizeNext, FailNext
<1>2. CASE e # d
  BY <1>0, <1>1, <1>2, NoJobChange
<1>3. CASE e = d
  <2>1. CASE StartNext(w)
    <3>1. CASE StartPrepare(w) \/ StartCreate(w) \/ StartContainer(w) \/ StartSave(w)
      BY <1>3, <3>1, StartAlive, NoJobChange
    <3>2. CASE StartDone(w) \/ StartInterrupted(w) \/ StartAborted(w)
      BY <1>3, <3>2, StartAlive, ButSame DEF JobChange
    <3>3. CASE StartFails(w)
      BY <1>3, <3>3, StartAlive, ButSame DEF JobChange, FailAdded
    <3>4. CASE StartStops(w)
      BY <1>3, <3>4, StartAlive, ButSame DEF JobChange, DeleteChanged
    <3>. QED BY <2>1, <3>1, <3>2, <3>3, <3>4 DEF StartNext
  <2>2. CASE FinalizeNext(w)
    <3>0. "finalize" \in Kinds /\ Alive(d, "finalize")
      <4>1. slot[w].pc \in FinalizeSteps
        BY <2>2 DEF FinalizeNext, FinalizeFails, FinalizeConclude, FinalizeDone, At,
                    FinalizeSteps
      <4>. QED BY <1>3, <4>1, StepsOf, AliveMeans DEF Busy, Kinds
    <3>1. CASE FinalizeFails(w)
      BY <1>3, <3>0, <3>1, FinalizeAlive, ButSame DEF JobChange, FinalizeFailed
    <3>2. CASE FinalizeConclude(w)
      BY <1>3, <3>2, FinalizeAlive, NoJobChange
    <3>3. CASE FinalizeDone(w)
      BY <1>3, <3>0, <3>3, FinalizeAlive, ButSame DEF JobChange, FinalizeEnded
    <3>. QED BY <2>2, <3>1, <3>2, <3>3 DEF FinalizeNext
  <2>3. CASE FailNext(w)
    <3>1. CASE FailMark(w) \/ FailStopped(w)
      BY <1>3, <3>1, FailAlive, NoJobChange
    <3>2. CASE FailStop(w)
      BY <1>3, <3>2, FailAlive, ButSame DEF JobChange, DeleteChanged
    <3>3. CASE FailConclude(w)
      BY <1>3, <3>3, FailAlive, ButSame DEF JobChange, FailEnded
    <3>. QED BY <2>3, <3>1, <3>2, <3>3 DEF FailNext
  <2>4. CASE DeleteNext(w)
    BY <1>3, <2>4, DeleteAlive, ButSame DEF JobChange, DeleteChanged
  <2>. QED BY <2>1, <2>2, <2>3, <2>4
<1>. QED BY <1>2, <1>3

LEMMA OutsideChange ==
  ASSUME TypeOK, NEW e \in Deployments, NEW d \in Deployments,
         \/ Create(e) \/ EnqueueStart(e) \/ CancelLoad(e) \/ CancelNext(e)
         \/ MonitorNext(e) \/ Expire(e) \/ AppExit(e)
  PROVE  JobChange(d)
<1>1. CASE Create(e) \/ Expire(e) \/ AppExit(e)
  <2>1. AliveBut(e, {})
    BY <1>1, OutsideSame DEF Create, Expire, AppExit, jobVars
  <2>. QED BY <2>1, NoJobChange
<1>2. CASE EnqueueStart(e)
  <2>1. AliveBut(e, {"start"})
    BY <1>2, OutsideEnqueue DEF EnqueueStart, Kinds
  <2>. QED BY <2>1, NoJobChange, ButSame DEF JobChange
<1>3. CASE CancelLoad(e) \/ CancelNext(e)
  <2>1. AliveBut(e, {}) \/ (AliveBut(e, {"delete"}) /\ CancelStop(e))
    BY <1>3, CancelAlive
  <2>. QED BY <2>1, NoJobChange, ButSame DEF JobChange, DeleteChanged
<1>4. CASE MonitorNext(e)
  <2>0. "fail" \in Kinds
    BY DEF Kinds
  <2>1. CASE AliveBut(e, {})
    BY <2>1, NoJobChange
  <2>2. CASE AliveBut(e, {"fail"}) /\ Alive(e, "fail")'
    <3>1. CASE e = d
      <4>1. SameJobs(d, {"fail"}) /\ Alive(d, "fail")'
        BY <2>2, <3>1, ButSame
      <4>. QED BY <4>1 DEF SameJobs, JobChange, FailAdded
    <3>. QED BY <2>2, <3>1, NoJobChange
  <2>3. CASE MonitorHandOff(e) /\ AliveBut(e, {"finalize"}) /\ Alive(e, "finalize")'
    <3>1. CASE e = d
      BY <2>3, <3>1, ButSame DEF JobChange, HandedOff
    <3>. QED BY <2>3, <3>1, NoJobChange
  <2>. QED BY <1>4, <2>1, <2>2, <2>3, MonitorAlive
<1>. QED BY <1>1, <1>2, <1>3, <1>4

LEMMA TimeoutChange ==
  ASSUME TypeOK, NEW w \in Slots, JobTimeout(w), NEW d \in Deployments
  PROVE  JobChange(d)
<1>0. slot'[w].pc = "idle" /\ Others(w) /\ queue' = queue /\ Shutdowns
  BY FinishEffect DEF JobTimeout
<1>1. CASE slot[w].pc = "c_scanning"
  <2>1. \A v \in Slots, e \in Deployments, j \in Kinds : Busy(v, e, j)' <=> Busy(v, e, j)
    BY <1>0, <1>1, StepsDisjoint DEF Busy, Others
  <2>2. AliveBut(d, {})
    BY <1>0, <2>1, SameAlive DEF AliveBut
  <2>. QED BY <2>2, NoJobChange
<1>2. CASE slot[w].pc # "c_scanning"
  <2>1. PICK k \in {"finalize", "fail", "delete"} : slot[w].pc \in Steps(k)
    <3>1. slot[w].pc \in SlotSteps
      BY DEF TypeOK, Slot
    <3>. QED BY <1>2, <3>1, StepsOf DEF JobTimeout, SlotSteps, JobSteps, CleanupSteps
  <2>2. k \in Kinds /\ slot[w].dep \in Deployments
    BY <2>1, JobOf DEF Kinds
  <2>3. AliveBut(slot[w].dep, {k}) /\ Alive(slot[w].dep, k)
    BY <1>0, <2>1, <2>2, EndAlive, AliveMeans DEF Busy
  <2>4. CASE slot[w].dep # d
    BY <2>2, <2>3, <2>4, NoJobChange
  <2>5. CASE slot[w].dep = d
    BY <1>0, <2>1, <2>2, <2>3, <2>5, ButSame
       DEF JobChange, FinalizeEnded, FailEnded, DeleteChanged
  <2>. QED BY <2>4, <2>5
<1>. QED BY <1>1, <1>2

LEMMA StepJobs ==
  ASSUME TypeOK, [Next]_vars, NEW d \in Deployments
  PROVE  JobChange(d)
<1>1. ASSUME NEW busy \in SUBSET Slots, Requeued(busy) PROVE JobChange(d)
  <2>1. AliveBut(d, {})
    BY <1>1, RequeuedAlive
  <2>. QED BY <2>1, NoJobChange
<1>2. CASE WorkerCrash
  BY <1>1, <1>2 DEF WorkerCrash
<1>3. ASSUME NEW w \in Slots, WorkerStop(w) PROVE JobChange(d)
  BY <1>1, <1>3 DEF WorkerStop
<1>4. ASSUME NEW w \in Slots, WorkerNext(w) PROVE JobChange(d)
  <2>1. CASE CleanupNext(w)
    <3>1. AliveBut(d, {})
      BY <2>1, CleanupAlive
    <3>. QED BY <3>1, NoJobChange
  <2>2. CASE StartNext(w) \/ FinalizeNext(w) \/ FailNext(w) \/ DeleteNext(w)
    BY <2>2, JobStepChange
  <2>. QED BY <1>4, <2>1, <2>2, TakeJobChange DEF WorkerNext
<1>5. CASE MonitorSelect \/ UNCHANGED vars
  <2>1. AliveBut(d, {})
    BY <1>5, OutsideSame DEF MonitorSelect, vars, jobVars
  <2>. QED BY <2>1, NoJobChange
<1>. QED BY <1>2, <1>3, <1>4, <1>5, OutsideChange, TimeoutChange DEF Next
-----------------------------------------------------------------------------
(* Who may write the row of a deployment, and its conclusion.                *)
Writes(w, d) ==
  /\ slot[w].dep = d
  /\ \/ StartPrepare(w) \/ StartSave(w) \/ StartAborted(w) \/ FinalizeConclude(w)
     \/ FailMark(w) \/ FailStopped(w) \/ FailConclude(w) \/ DeleteCommit(w)
RowChange(d) ==
  \/ RowSame(d)
  \/ CancelCommit(d) \/ CancelStopped(d) \/ MonitorReady(d)
  \/ \E w \in Slots : Writes(w, d) \/ CleanupCommit(w)

LEMMA WorkerRow ==
  ASSUME TypeOK, NEW w \in Slots, NEW d \in Deployments, WorkerNext(w)
  PROVE  RowChange(d)
<1>1. CASE Writes(w, slot[w].dep)
  <2>1. OtherRows(slot[w].dep)
    BY <1>1, StartRow, FinalizeRow, FailRow, DeleteRow DEF Writes
  <2>. QED BY <1>1, <2>1 DEF RowChange, OtherRows
<1>2. CASE CleanupNext(w)
  BY <1>2 DEF CleanupNext, CleanupLoad, CleanupOne, RowChange, RowSame, rowVars
<1>3. CASE row' = row
  BY <1>3 DEF RowChange, RowSame
<1>4. ASSUME NEW e \in Deployments, TakeJob(w, e) PROVE row' = row
  BY <1>4 DEF TakeJob, StartLoad, StartDropped, FinalizeLoad, FailLoad, DeleteLoad, rowVars
<1>5. CASE StartNext(w)
  BY <1>1, <1>3, <1>5 DEF StartNext, Writes, StartCreate, StartContainer, StartDone, StartFails,
                          StartInterrupted, StartStops, rowVars
<1>6. CASE FinalizeNext(w)
  BY <1>1, <1>3, <1>6 DEF FinalizeNext, Writes, FinalizeFails, FinalizeDone, rowVars
<1>7. CASE FailNext(w) \/ DeleteNext(w)
  BY <1>1, <1>3, <1>7 DEF FailNext, DeleteNext, Writes, FailStop, DeleteRemove, rowVars
<1>. QED BY <1>2, <1>3, <1>4, <1>5, <1>6, <1>7 DEF WorkerNext

LEMMA StepRow ==
  ASSUME TypeOK, [Next]_vars, NEW d \in Deployments
  PROVE  RowChange(d)
<1>1. CASE row' = row
  BY <1>1 DEF RowChange, RowSame
<1>2. ASSUME NEW e \in Deployments, CancelLoad(e) \/ CancelNext(e) PROVE RowChange(d)
  <2>1. CASE CancelCommit(e) \/ CancelStopped(e)
    BY <2>1, CancelRow DEF RowChange, OtherRows
  <2>. QED BY <1>1, <1>2, <2>1
           DEF CancelLoad, CancelNext, CancelAbort, CancelAborted, CancelStop, rowVars
<1>3. ASSUME NEW e \in Deployments, MonitorNext(e) PROVE RowChange(d)
  <2>1. CASE MonitorReady(e)
    BY <2>1, ReadyRow DEF RowChange, OtherRows
  <2>. QED BY <1>1, <1>3, <2>1
           DEF MonitorNext, MonitorTimeout, MonitorTransient, MonitorLost, MonitorExited,
               MonitorProbe, MonitorNotReady, MonitorHandOff, rowVars
<1>4. ASSUME NEW e \in Deployments, Create(e) \/ EnqueueStart(e) \/ Expire(e) \/ AppExit(e)
      PROVE  row' = row
  BY <1>4 DEF Create, EnqueueStart, Expire, AppExit, rowVars
<1>5. ASSUME \/ \E w \in Slots : WorkerStop(w) \/ JobTimeout(w)
             \/ MonitorSelect \/ WorkerCrash \/ UNCHANGED vars
      PROVE  row' = row
  BY <1>5 DEF WorkerStop, JobTimeout, MonitorSelect, WorkerCrash, vars, rowVars
<1>. QED BY <1>1, <1>2, <1>3, <1>4, <1>5, WorkerRow DEF Next

(* No step takes a conclusion back, and only a finalize job concludes "succeeded". *)
LEMMA StepConclusion ==
  ASSUME TypeOK, [Next]_vars, NEW d \in Deployments
  PROVE  /\ Concluded(d) => Concluded(d)'
         /\ row'[d].conclusion = "succeeded" =>
              row[d].conclusion = "succeeded" \/ Alive(d, "finalize")
<1>1. CASE row'[d].conclusion = row[d].conclusion
  BY <1>1 DEF Concluded
<1>2. CASE row'[d].conclusion \in {"canceled", "failed"}
  BY <1>2 DEF Concluded
<1>3. CASE row'[d].conclusion = "succeeded" /\ Alive(d, "finalize")
  BY <1>3 DEF Concluded
<1>4. CASE RowSame(d)
  BY <1>1, <1>4 DEF RowSame
<1>5. CASE CancelCommit(d) \/ CancelStopped(d) \/ MonitorReady(d)
  BY <1>1, <1>2, <1>5, CancelRow, ReadyRow DEF Column
<1>6. ASSUME NEW w \in Slots, Writes(w, d)
      PROVE  \/ row'[d].conclusion = row[d].conclusion
             \/ row'[d].conclusion \in {"canceled", "failed"}
             \/ row'[d].conclusion = "succeeded" /\ Alive(d, "finalize")
  BY <1>6, StartRow, FinalizeRow, FailRow, DeleteRow DEF Writes, Column
<1>7. ASSUME NEW w \in Slots, CleanupCommit(w) PROVE row'[d].conclusion = row[d].conclusion
  BY <1>7, CleanupRow
<1>. QED BY <1>1, <1>2, <1>3, <1>4, <1>5, <1>6, <1>7, StepRow DEF RowChange

-----------------------------------------------------------------------------
LEMMA StepAnswered ==
  ASSUME TypeOK, [Next]_vars, NEW d \in Deployments
  PROVE  /\ d \in answered => d \in answered'
         /\ mon'[d].pc = "ready" => mon[d].pc = "ready" \/ d \in answered'
<1>1. CASE answered' = answered /\ mon' = mon
  BY <1>1
<1>2. ASSUME NEW e \in Deployments, MonitorNext(e)
      PROVE  /\ d \in answered => d \in answered'
             /\ mon'[d].pc = "ready" => mon[d].pc = "ready" \/ d \in answered'
  <2>0. \A f \in Deployments : mon[f] \in [pc : {"idle", "check", "probe", "ready"}, cid : Nat,
                                           status : Statuses]
    BY DEF TypeOK
  <2>1. CASE MonitorReady(e)
    <3>1. answered' = answered \cup {e} /\ (d # e => mon'[d] = mon[d])
      BY <2>1 DEF MonitorReady, TypeOK
    <3>. QED BY <3>1
  <2>2. CASE MonitorProbe(e)
    BY <2>0, <2>2 DEF MonitorProbe, TypeOK
  <2>3. CASE answered' = answered /\ (mon' = mon \/ MonitorRest(e))
    BY <2>0, <2>3 DEF MonitorRest, TypeOK
  <2>. QED BY <1>2, <2>1, <2>2, <2>3
           DEF MonitorNext, MonitorTimeout, MonitorTransient, MonitorLost, MonitorExited,
               MonitorNotReady, MonitorHandOff, MonitorFail
<1>3. CASE MonitorSelect
  <2>1. mon[d].pc = "idle" /\ answered' = answered
    BY <1>3 DEF MonitorSelect
  <2>2. mon[d] \in [pc : {"idle", "check", "probe", "ready"}, cid : Nat, status : Statuses]
    BY DEF TypeOK
  <2>3. mon'[d].pc # "ready"
    BY <1>3, <2>2 DEF MonitorSelect, NotHeld
  <2>. QED BY <2>1, <2>3
<1>4. ASSUME NEW e \in Deployments,
             \/ Create(e) \/ EnqueueStart(e) \/ CancelLoad(e) \/ CancelNext(e)
             \/ Expire(e) \/ AppExit(e)
      PROVE  answered' = answered /\ mon' = mon
  BY <1>4 DEF Create, EnqueueStart, CancelLoad, CancelNext, CancelCommit, CancelAbort,
              CancelAborted, CancelStop, CancelStopped, Expire, AppExit, monVars
<1>5. ASSUME NEW w \in Slots, WorkerNext(w) PROVE answered' = answered /\ mon' = mon
  BY <1>5 DEF WorkerNext, TakeJob, StartLoad, StartDropped, FinalizeLoad, FailLoad, DeleteLoad,
       StartNext, StartPrepare, StartCreate, StartContainer, StartSave, StartDone, StartFails,
       StartInterrupted, StartStops, StartAborted, FinalizeNext, FinalizeFails,
       FinalizeConclude, FinalizeDone, FailNext, FailMark, FailStop, FailStopped,
       FailConclude, DeleteNext, DeleteRemove, DeleteCommit, CleanupNext, CleanupLoad,
       CleanupOne, CleanupCommit, monVars
<1>6. ASSUME \/ \E w \in Slots : WorkerStop(w) \/ JobTimeout(w)
             \/ WorkerCrash \/ UNCHANGED vars
      PROVE  answered' = answered /\ mon' = mon
  BY <1>6 DEF WorkerStop, JobTimeout, WorkerCrash, vars, monVars
<1>. QED BY <1>1, <1>2, <1>3, <1>4, <1>5, <1>6 DEF Next

LEMMA FinalizeBorn ==
  ASSUME TypeOK, [Next]_vars, NEW d \in Deployments, Alive(d, "finalize")'
  PROVE  Alive(d, "finalize") \/ mon[d].pc = "ready"
BY StepJobs DEF JobChange, SameJobs, FailAdded, FinalizeFailed, HandedOff, DeleteChanged,
     FinalizeEnded, FailEnded, MonitorHandOff, Kinds

LEMMA AnsweredStep ==
  ASSUME TypeOK, AnsweredInv, [Next]_vars
  PROVE  AnsweredInv'
<1>. SUFFICES ASSUME NEW d \in Deployments,
                     mon'[d].pc = "ready" \/ Alive(d, "finalize")'
                       \/ row'[d].conclusion = "succeeded"
              PROVE  d \in answered'
  BY DEF AnsweredInv
<1>. QED BY StepAnswered, FinalizeBorn, StepConclusion DEF AnsweredInv

LEMMA InitAlive ==
  ASSUME Init, NEW d \in Deployments, NEW k \in Kinds
  PROVE  ~Alive(d, k)
BY NoneAssumption DEF Init, Alive, Running, IdleSlot, Kinds

(* Whatever the deployments, slots, bounds, faults, cancels and shutdowns, an *)
(* app whose deployment is being finalized or has succeeded has answered.     *)
THEOREM AnsweredCorrect == Spec => []AnsweredFirst
<1>1. Init => AnsweredInv
  <2>. SUFFICES ASSUME Init, NEW d \in Deployments
                PROVE  /\ mon[d].pc # "ready" /\ ~Alive(d, "finalize")
                       /\ row[d].conclusion # "succeeded"
    BY DEF AnsweredInv
  <2>. QED BY InitAlive DEF Init, NotHeld, NewRow, Kinds
<1>2. TypeOK /\ AnsweredInv /\ [Next]_vars => AnsweredInv'
  BY AnsweredStep
<1>3. AnsweredInv => AnsweredFirst
  BY DEF AnsweredInv, AnsweredFirst
<1>. QED BY <1>1, <1>2, <1>3, TypeCorrect, PTL DEF Spec
-----------------------------------------------------------------------------
(* From here on, towards SomeoneResponsible: who may change a slot, a cancel *)
(* request, the set of jobs to abort and the request that deploys.           *)

LEMMA WorkerOthers ==
  ASSUME TypeOK, NEW w \in Slots, WorkerNext(w)
  PROVE  Others(w)
<1>0. slot[w] \in Slot
  BY DEF TypeOK
<1>1. ASSUME NEW e \in Deployments, TakeJob(w, e) PROVE Others(w)
  BY <1>1, TakeEffect, DiscardEffect DEF TakeJob, StartLoad, StartDropped, FinalizeLoad,
     FailLoad, DeleteLoad, Others, Kinds
<1>2. CASE StartNext(w)
  <2>1. CASE StartCreate(w)
    BY <1>0, <2>1 DEF StartCreate, TypeOK, Others
  <2>. QED BY <1>2, <2>1, CommitSlot, FinishEffect, GotoEffect
           DEF StartNext, StartPrepare, StartContainer, StartSave, StartDone, StartFails,
               StartInterrupted, StartStops, StartAborted
<1>3. CASE FinalizeNext(w)
  BY <1>3, CommitSlot, FinishEffect DEF FinalizeNext, FinalizeFails, FinalizeConclude, FinalizeDone
<1>4. CASE FailNext(w) \/ DeleteNext(w)
  BY <1>4, CommitSlot, FinishEffect, GotoEffect DEF FailNext, FailMark, FailStop, FailStopped,
     FailConclude, DeleteNext, DeleteRemove, DeleteCommit
<1>. QED BY <1>1, <1>2, <1>3, <1>4, CleanupAlive DEF WorkerNext

Emptied(w) == slot'[w].pc = "idle" /\ Fresh(w)
SlotChange(w) ==
  slot'[w] = slot[w] \/ WorkerNext(w) \/ (Emptied(w) /\ (Shutdowns \/ WorkerCrash))

LEMMA StepSlot ==
  ASSUME TypeOK, [Next]_vars, NEW w \in Slots
  PROVE  SlotChange(w)
<1>1. ASSUME NEW v \in Slots, WorkerNext(v) PROVE SlotChange(w)
  BY <1>1, WorkerOthers DEF SlotChange, Others
<1>2. ASSUME NEW v \in Slots, JobTimeout(v) PROVE SlotChange(w)
  BY <1>2, FinishEffect DEF SlotChange, Others, Emptied, JobTimeout
<1>3. ASSUME NEW busy \in SUBSET Slots, Requeued(busy), Shutdowns \/ WorkerCrash
      PROVE  SlotChange(w)
  BY <1>3 DEF Requeued, SlotChange, Emptied, Fresh, IdleSlot
<1>4. ASSUME slot' = slot PROVE SlotChange(w)
  BY <1>4 DEF SlotChange
<1>5. ASSUME NEW e \in Deployments,
             \/ Create(e) \/ EnqueueStart(e) \/ CancelLoad(e) \/ CancelNext(e)
             \/ MonitorNext(e) \/ Expire(e) \/ AppExit(e)
      PROVE  slot' = slot
  BY <1>5 DEF Create, EnqueueStart, CancelLoad, CancelNext, CancelCommit, CancelAbort,
              CancelAborted, CancelStop, CancelStopped, Expire, AppExit, jobVars,
              MonitorNext, MonitorTimeout, MonitorTransient, MonitorLost, MonitorExited,
              MonitorProbe, MonitorNotReady, MonitorReady, MonitorHandOff
<1>6. ASSUME MonitorSelect \/ UNCHANGED vars PROVE slot' = slot
  BY <1>6 DEF MonitorSelect, vars, jobVars
<1>. QED BY <1>1, <1>2, <1>3, <1>4, <1>5, <1>6 DEF Next, WorkerStop, WorkerCrash

RequestChange(d) ==
  /\ d \in aborting' => d \in aborting \/ CancelAbort(d)
  /\ cancel'[d] = cancel[d] \/ CancelLoad(d) \/ CancelNext(d)
  /\ web'[d] = web[d] \/ Create(d) \/ EnqueueStart(d)

LEMMA StepRequest ==
  ASSUME TypeOK, [Next]_vars, NEW d \in Deployments
  PROVE  RequestChange(d)
<1>1. ASSUME aborting' \subseteq aborting, cancel' = cancel, web' = web PROVE RequestChange(d)
  BY <1>1 DEF RequestChange
<1>2. ASSUME NEW e \in Deployments, Create(e) \/ EnqueueStart(e) PROVE RequestChange(d)
  <2>1. aborting' = aborting /\ cancel' = cancel /\ (e # d => web'[d] = web[d])
    BY <1>2 DEF Create, EnqueueStart, jobVars, TypeOK
  <2>. QED BY <1>2, <2>1 DEF RequestChange
<1>3. ASSUME NEW e \in Deployments, CancelLoad(e) \/ CancelNext(e) PROVE RequestChange(d)
  <2>1. web' = web
    BY <1>3 DEF CancelLoad, CancelNext, CancelCommit, CancelAbort, CancelAborted, CancelStop,
                CancelStopped, rowVars
  <2>2. e # d => cancel'[d] = cancel[d]
    BY <1>3 DEF CancelLoad, CancelNext, CancelCommit, CancelAbort, CancelAborted, CancelStop,
                CancelStopped, TypeOK
  <2>3. aborting' = aborting \/ (CancelAbort(e) /\ aborting' = aborting \cup {e})
    BY <1>3 DEF CancelLoad, CancelNext, CancelCommit, CancelAbort, CancelAborted, CancelStop,
                CancelStopped, jobVars
  <2>. QED BY <1>3, <2>1, <2>2, <2>3 DEF RequestChange
<1>4. ASSUME NEW e \in Deployments, MonitorNext(e) \/ Expire(e) \/ AppExit(e)
      PROVE  aborting' = aborting /\ cancel' = cancel /\ web' = web
  BY <1>4 DEF Expire, AppExit, MonitorNext, MonitorTimeout, MonitorTransient, MonitorLost,
              MonitorExited, MonitorProbe, MonitorNotReady, MonitorReady, MonitorHandOff,
              rowVars, jobVars
<1>5. ASSUME NEW w \in Slots, WorkerNext(w)
      PROVE  aborting' \subseteq aborting /\ cancel' = cancel /\ web' = web
  BY <1>5 DEF WorkerNext, TakeJob, StartLoad, StartDropped, FinalizeLoad, FailLoad, DeleteLoad,
       StartNext, StartPrepare, StartCreate, StartContainer, StartSave, StartDone, StartFails,
       StartInterrupted, StartStops, StartAborted, Interrupted, FinalizeNext, FinalizeFails,
       FinalizeConclude, FinalizeDone, FailNext, FailMark, FailStop, FailStopped,
       FailConclude, DeleteNext, DeleteRemove, DeleteCommit, CleanupNext, CleanupLoad,
       CleanupOne, CleanupCommit, rowVars
<1>6. ASSUME \/ \E w \in Slots : WorkerStop(w) \/ JobTimeout(w)
             \/ WorkerCrash \/ MonitorSelect \/ UNCHANGED vars
      PROVE  aborting' = aborting /\ cancel' = cancel /\ web' = web
  BY <1>6 DEF WorkerStop, JobTimeout, WorkerCrash, MonitorSelect, vars, rowVars, jobVars
<1>. QED BY <1>1, <1>2, <1>3, <1>4, <1>5, <1>6 DEF Next
-----------------------------------------------------------------------------
(* ConclusionInv, in the parts its proof takes one by one.                   *)
ConcludedRow(d) == \/ row[d].status = "completed"
                   \/ d \in aborting
                   \/ cancel[d].pc \notin {"idle", "loaded"}
                   => Concluded(d)
LoadedCancel(d) == cancel[d].pc = "loaded" => cancel[d].snap.conclusion = "none"
Presumes(w) == /\ slot[w].pc \in JobSteps
               /\ slot[w].snap.conclusion # "none" \/ slot[w].pc \in {"s_aborted", "z_concluded"}
Presumed(w) == Presumes(w) => Concluded(slot[w].dep)
Tidied(w) == /\ \A item \in slot[w].todo : Concluded(item[1])
             /\ \A d \in Deployments : slot[w].marks[d] # "keep" => Concluded(d)

(* A finalize, a fail and a cancel write a conclusion when they commit. *)
LEMMA CommitConcludes ==
  ASSUME TypeOK, ConclusionInv, NEW d \in Deployments
  PROVE  /\ CancelCommit(d) => Concluded(d)'
         /\ \A w \in Slots : slot[w].dep = d /\ (FinalizeConclude(w) \/ FailConclude(w))
                               => Concluded(d)'
<1>1. ASSUME CancelCommit(d) PROVE Concluded(d)'
  <2>1. cancel[d].snap.conclusion = "none"
    BY <1>1 DEF CancelCommit, ConclusionInv
  <2>. QED BY <1>1, <2>1, CancelRow DEF Column, Concluded
<1>2. ASSUME NEW w \in Slots, slot[w].dep = d, NEW c \in {"succeeded", "failed"},
             Column(d, "conclusion", slot[w].snap.conclusion, c), slot[w].pc \in JobSteps
      PROVE  Concluded(d)'
  <2>1. slot[w].snap.conclusion # "none" => row[d].conclusion # "none"
    BY <1>2 DEF ConclusionInv, Concluded
  <2>. QED BY <1>2, <2>1 DEF Column, Concluded
<1>3. ASSUME NEW w \in Slots, slot[w].dep = d, FinalizeConclude(w) PROVE Concluded(d)'
  BY <1>2, <1>3, FinalizeRow DEF FinalizeConclude, At, JobSteps, FinalizeSteps
<1>4. ASSUME NEW w \in Slots, slot[w].dep = d, FailConclude(w) PROVE Concluded(d)'
  BY <1>2, <1>4, FailRow DEF FailConclude, At, JobSteps, FailSteps
<1>. QED BY <1>1, <1>3, <1>4

LEMMA ConcludedRowStep ==
  ASSUME TypeOK, ConclusionInv, [Next]_vars, NEW d \in Deployments
  PROVE  ConcludedRow(d)'
<1>0. Concluded(d) => Concluded(d)'
  BY StepConclusion
<1>1. ASSUME row'[d].status = "completed" PROVE Concluded(d)'
  <2>1. CASE row'[d].status = row[d].status
    BY <1>0, <1>1, <2>1 DEF ConclusionInv
  <2>2. CASE CancelCommit(d)
    BY <2>2, CommitConcludes
  <2>3. CASE CancelStopped(d) \/ MonitorReady(d)
    BY <1>1, <2>1, <2>3, CancelRow, ReadyRow
  <2>4. ASSUME NEW w \in Slots, CleanupCommit(w) PROVE row'[d].status = row[d].status
    BY <2>4, CleanupRow
  <2>5. ASSUME NEW w \in Slots, Writes(w, d)
        PROVE  row'[d].status = row[d].status \/ Concluded(d)'
    <3>1. CASE StartPrepare(w) \/ StartSave(w) \/ StartAborted(w)
      BY <1>1, <2>5, <3>1, StartRow DEF Writes, Column, Concluded
    <3>2. CASE FailMark(w) \/ FailStopped(w)
      BY <1>1, <2>5, <3>2, FailRow DEF Writes, Column
    <3>3. CASE DeleteCommit(w)
      BY <2>5, <3>3, DeleteRow DEF Writes
    <3>. QED BY <2>5, <3>1, <3>2, <3>3, CommitConcludes DEF Writes
  <2>. QED BY <2>1, <2>2, <2>3, <2>4, <2>5, StepRow DEF RowChange, RowSame
<1>2. ASSUME d \in aborting' PROVE Concluded(d)'
  BY <1>0, <1>2, StepRequest DEF RequestChange, CancelAbort, ConclusionInv
<1>3. ASSUME cancel'[d].pc \notin {"idle", "loaded"} PROVE Concluded(d)'
  <2>1. CASE cancel'[d] = cancel[d]
    BY <1>0, <1>3, <2>1 DEF ConclusionInv
  <2>2. ~CancelLoad(d)
    <3>1. CancelLoad(d) => cancel'[d].pc = "loaded"
      BY DEF CancelLoad, TypeOK
    <3>. QED BY <1>3, <3>1
  <2>3. CASE CancelNext(d)
    <3>1. CancelCommit(d) \/ cancel[d].pc \notin {"idle", "loaded"}
      BY <2>3 DEF CancelNext, CancelAbort, CancelAborted, CancelStop, CancelStopped
    <3>. QED BY <1>0, <3>1, CommitConcludes DEF ConclusionInv
  <2>. QED BY <2>1, <2>2, <2>3, StepRequest DEF RequestChange
<1>. QED BY <1>1, <1>2, <1>3 DEF ConcludedRow

LEMMA LoadedCancelStep ==
  ASSUME TypeOK, [Next]_vars, NEW d \in Deployments, LoadedCancel(d)
  PROVE  LoadedCancel(d)'
<1>0. cancel[d].snap \in Row /\ row[d] \in Row
  BY DEF TypeOK
<1>1. CASE cancel'[d] = cancel[d]
  BY <1>1 DEF LoadedCancel
<1>2. CASE CancelLoad(d)
  <2>1. cancel'[d].snap = row[d]
    BY <1>2 DEF CancelLoad, TypeOK
  <2>. QED BY <1>2, <2>1 DEF CancelLoad, Cancelable, LoadedCancel
<1>3. CASE CancelNext(d)
  <2>1. cancel'[d].pc # "loaded"
    BY <1>3 DEF CancelNext, CancelCommit, CancelAbort, CancelAborted, CancelStop, CancelStopped,
                TypeOK, CancelDone, IdleCancel
  <2>. QED BY <2>1 DEF LoadedCancel
<1>. QED BY <1>1, <1>2, <1>3, StepRequest DEF RequestChange

(* What a job in slot w makes of its slot. *)
LEMMA JobEffect ==
  ASSUME TypeOK, NEW w \in Slots,
         StartNext(w) \/ FinalizeNext(w) \/ FailNext(w) \/ DeleteNext(w)
  PROVE  /\ slot[w].pc \in JobSteps /\ slot[w].dep \in Deployments
         /\ \/ Emptied(w)
            \/ /\ Keeps(w)
               /\ \/ FinalizeConclude(w)
                  \/ slot'[w].snap.conclusion = slot[w].snap.conclusion
               /\ slot'[w].pc = "s_aborted" => StartStops(w)
               /\ slot'[w].pc = "z_concluded" => FinalizeConclude(w)
<1>1. slot[w].pc \in JobSteps
  BY DEF JobSteps, StartSteps, FinalizeSteps, FailSteps, DeleteSteps, At,
       StartNext, StartPrepare, StartCreate, StartContainer, StartSave, StartDone, StartFails,
       StartInterrupted, StartStops, StartAborted, FinalizeNext, FinalizeFails,
       FinalizeConclude, FinalizeDone, FailNext, FailMark, FailStop, FailStopped,
       FailConclude, DeleteNext, DeleteRemove, DeleteCommit
<1>2. slot[w] \in Slot /\ slot[w].snap \in Row
  BY DEF TypeOK, Slot
<1>3. Finish(w) => Emptied(w)
  BY FinishEffect DEF Emptied
<1>c. ASSUME NEW new, NEW pc, Commit(w, new, pc), new.conclusion = slot[w].snap.conclusion,
             pc \notin {"s_aborted", "z_concluded"}
      PROVE  /\ Keeps(w) /\ slot'[w].pc = pc
             /\ slot'[w].snap.conclusion = slot[w].snap.conclusion
  BY <1>c, CommitSlot
<1>s. slot[w].dep \in Deployments
  BY RunningDep
<1>4. CASE StartPrepare(w) \/ StartSave(w)
  <2>1. CASE StartPrepare(w)
    <3>. DEFINE new == [slot[w].snap EXCEPT !.status = "prepare"]
    <3>1. Commit(w, new, "s_prepared") /\ new.conclusion = slot[w].snap.conclusion
      BY <1>2, <2>1 DEF StartPrepare, Row
    <3>. HIDE DEF new
    <3>. QED BY <1>1, <1>c, <1>s, <3>1
  <2>2. CASE StartSave(w)
    <3>. DEFINE new == [slot[w].snap EXCEPT !.status = "deploy", !.cstat = "running",
                                            !.cid = slot[w].gen]
    <3>1. Commit(w, new, "s_saved") /\ new.conclusion = slot[w].snap.conclusion
      BY <1>2, <2>2 DEF StartSave, Row
    <3>. HIDE DEF new
    <3>. QED BY <1>1, <1>c, <1>s, <3>1
  <2>. QED BY <1>4, <2>1, <2>2
<1>5. CASE StartCreate(w)
  BY <1>1, <1>2, <1>5, RunningDep DEF StartCreate, StartNext, TypeOK, Slot, Keeps
<1>6. CASE StartContainer(w) \/ StartStops(w)
  BY <1>1, <1>6, RunningDep, GotoEffect DEF StartContainer, StartStops, StartNext
<1>7. CASE StartDone(w) \/ StartFails(w) \/ StartInterrupted(w) \/ StartAborted(w)
  BY <1>1, <1>3, <1>7, RunningDep
     DEF StartDone, StartFails, StartInterrupted, StartAborted, StartNext
<1>8. CASE FinalizeNext(w)
  <2>1. CASE FinalizeConclude(w)
    <3>. DEFINE new == [slot[w].snap EXCEPT !.status = "completed", !.conclusion = "succeeded"]
    <3>1. Commit(w, new, "z_concluded")
      BY <2>1 DEF FinalizeConclude
    <3>. HIDE DEF new
    <3>2. slot'[w].pc = "z_concluded" /\ Keeps(w)
      BY <3>1, CommitSlot
    <3>. QED BY <1>1, <1>s, <2>1, <3>2
  <2>. QED BY <1>1, <1>3, <1>s, <1>8, <2>1 DEF FinalizeNext, FinalizeFails, FinalizeDone
<1>9. CASE FailMark(w) \/ FailStopped(w)
  <2>1. CASE FailMark(w)
    <3>. DEFINE new == [slot[w].snap EXCEPT !.status = "fail"]
    <3>1. Commit(w, new, "f_marked") /\ new.conclusion = slot[w].snap.conclusion
      BY <1>2, <2>1 DEF FailMark, Row
    <3>. HIDE DEF new
    <3>. QED BY <1>1, <1>c, <1>s, <3>1
  <2>2. CASE FailStopped(w)
    <3>. DEFINE new == [slot[w].snap EXCEPT
                          !.cstat = IF At(w, "f_stopped") THEN "stopped" ELSE "removed"]
    <3>1. Commit(w, new, "f_clean") /\ new.conclusion = slot[w].snap.conclusion
      BY <1>2, <2>2 DEF FailStopped, Row
    <3>. HIDE DEF new
    <3>. QED BY <1>1, <1>c, <1>s, <3>1
  <2>. QED BY <1>9, <2>1, <2>2
<1>10. CASE FailStop(w) \/ FailConclude(w) \/ DeleteNext(w)
  <2>1. Finish(w) \/ \E pc \in {"f_stopped", "f_gone", "f_clean", "d_deleted"} : Goto(w, pc)
    BY <1>10 DEF FailStop, FailConclude, DeleteNext, DeleteRemove, DeleteCommit
  <2>. QED BY <1>1, <1>3, <1>s, <2>1, GotoEffect
<1>. QED BY <1>4, <1>5, <1>6, <1>7, <1>8, <1>9, <1>10 DEF StartNext, FailNext

PresumedAndTidied(w) == Presumed(w) /\ Tidied(w)

LEMMA CleanupEffect ==
  ASSUME TypeOK, ConclusionInv, [Next]_vars, NEW w \in Slots, CleanupNext(w)
  PROVE  PresumedAndTidied(w)'
<1>0. slot[w] \in Slot
  BY DEF TypeOK
<1>1. \A d \in Deployments : Concluded(d) => Concluded(d)'
  BY StepConclusion
<1>2. CASE CleanupLoad(w)
  <2>1. PICK referenced \in SUBSET Deployments :
          slot' = [slot EXCEPT ![w] = [IdleSlot EXCEPT
                     !.pc = "c_scanning", !.todo = {<<d, row[d].cid>> : d \in Inactive(referenced)}]]
    BY <1>2 DEF CleanupLoad
  <2>2. /\ slot'[w].pc = "c_scanning"
        /\ slot'[w].todo = {<<d, row[d].cid>> : d \in Inactive(referenced)}
        /\ \A d \in Deployments : slot'[w].marks[d] = "keep"
    BY <2>1 DEF TypeOK, IdleSlot
  <2>3. \A d \in Inactive(referenced) : d \in Deployments /\ Concluded(d)
    BY DEF Inactive, ConclusionInv
  <2>. QED BY <1>1, <2>2, <2>3 DEF PresumedAndTidied, Presumed, Presumes, Tidied, JobSteps, StartSteps,
                                   FinalizeSteps, FailSteps, DeleteSteps
<1>3. CASE CleanupCommit(w)
  BY <1>3, FinishEffect DEF CleanupCommit, PresumedAndTidied, Presumed, Presumes, Tidied, Fresh,
     JobSteps, StartSteps, FinalizeSteps, FailSteps, DeleteSteps
<1>4. ASSUME NEW item \in slot[w].todo, CleanupOne(w, item[1], item[2])
      PROVE  PresumedAndTidied(w)'
  <2>1. item[1] \in Deployments /\ Concluded(item[1])
    BY <1>0 DEF Slot, ConclusionInv
  <2>2. PICK m \in Marks : slot' = [slot EXCEPT ![w].todo = @ \ {<<item[1], item[2]>>},
                                               ![w].marks[item[1]] = m]
    BY <1>4 DEF CleanupOne, Marks
  <2>3. /\ slot'[w].pc = "c_scanning"
        /\ slot'[w].todo \subseteq slot[w].todo
        /\ \A d \in Deployments : d # item[1] => slot'[w].marks[d] = slot[w].marks[d]
    BY <1>0, <1>4, <2>1, <2>2 DEF CleanupOne, At, TypeOK, Slot
  <2>4. \A i \in slot[w].todo : i[1] \in Deployments /\ Concluded(i[1])
    BY <1>0 DEF Slot, ConclusionInv
  <2>5. \A d \in Deployments : slot[w].marks[d] # "keep" => Concluded(d)
    BY DEF ConclusionInv
  <2>. QED BY <1>1, <2>1, <2>3, <2>4, <2>5 DEF PresumedAndTidied, Presumed, Presumes, Tidied, JobSteps,
              StartSteps, FinalizeSteps, FailSteps, DeleteSteps
<1>. QED BY <1>2, <1>3, <1>4 DEF CleanupNext

LEMMA SlotConclusionStep ==
  ASSUME TypeOK, ConclusionInv, ~Shutdowns, [Next]_vars, NEW w \in Slots
  PROVE  PresumedAndTidied(w)'
<1>0. slot[w] \in Slot
  BY DEF TypeOK
<1>1. \A d \in Deployments : Concluded(d) => Concluded(d)'
  BY StepConclusion
<1>2. /\ \A i \in slot[w].todo : i[1] \in Deployments /\ Concluded(i[1])
      /\ \A d \in Deployments : slot[w].marks[d] # "keep" => Concluded(d)
      /\ Presumed(w)
      /\ slot[w].pc \in JobSteps => slot[w].dep \in Deployments
  BY <1>0 DEF Slot, ConclusionInv, Presumed, Presumes, TypeOK
<1>3. CASE slot'[w] = slot[w]
  <2>1. /\ slot'[w].pc = slot[w].pc /\ slot'[w].dep = slot[w].dep /\ slot'[w].snap = slot[w].snap
        /\ slot'[w].todo = slot[w].todo /\ slot'[w].marks = slot[w].marks
    BY <1>3
  <2>. QED BY <1>1, <1>2, <2>1 DEF PresumedAndTidied, Presumed, Presumes, Tidied
<1>4. CASE Emptied(w)
  BY <1>4 DEF Emptied, Fresh, PresumedAndTidied, Presumed, Presumes, Tidied, JobSteps,
     StartSteps, FinalizeSteps, FailSteps, DeleteSteps
<1>5. ASSUME NEW e \in Deployments, NEW k \in Kinds, NEW pc, Take(w, e, k, pc),
             pc \notin {"s_aborted", "z_concluded"}
      PROVE  PresumedAndTidied(w)'
  BY <1>1, <1>5, TakeEffect DEF Fresh, PresumedAndTidied, Presumed, Presumes, Tidied, Concluded
<1>6. ASSUME NEW e \in Deployments, TakeJob(w, e) PROVE PresumedAndTidied(w)'
  <2>1. CASE slot' = slot
    BY <1>3, <2>1
  <2>. QED BY <1>5, <1>6, <2>1 DEF TakeJob, StartLoad, StartDropped, FinalizeLoad, FailLoad,
              DeleteLoad, Discard, Kinds
<1>7. ASSUME StartNext(w) \/ FinalizeNext(w) \/ FailNext(w) \/ DeleteNext(w)
      PROVE  PresumedAndTidied(w)'
  <2>1. CASE Emptied(w)
    BY <1>4, <2>1
  <2>2. CASE Keeps(w)
    <3>0. PICK d \in Deployments : d = slot[w].dep
      BY <1>7, JobEffect
    <3>1. FinalizeConclude(w) => Concluded(d)'
      BY <3>0, CommitConcludes
    <3>2. StartStops(w) => Concluded(d)
      BY <3>0 DEF StartStops, Interrupted, ConclusionInv
    <3>3. slot[w].snap.conclusion # "none" => Concluded(d)
      BY <1>2, <1>7, <3>0, JobEffect DEF Presumed, Presumes
    <3>4. Emptied(w) \/ Concluded(d)' \/ ~Presumes(w)'
      BY <1>1, <1>7, <3>1, <3>2, <3>3, JobEffect DEF Presumes
    <3>5. slot'[w].dep = d /\ slot'[w].todo = slot[w].todo /\ slot'[w].marks = slot[w].marks
      BY <2>2, <3>0 DEF Keeps
    <3>. QED BY <1>1, <1>2, <2>1, <3>4, <3>5
             DEF PresumedAndTidied, Presumed, Presumes, Tidied
  <2>. QED BY <1>7, <2>1, <2>2, JobEffect
<1>. QED BY <1>3, <1>4, <1>6, <1>7, CleanupEffect, StepSlot DEF SlotChange, WorkerNext

LEMMA ConclusionStep ==
  ASSUME TypeOK, ConclusionInv, ~Shutdowns, [Next]_vars
  PROVE  ConclusionInv'
<1>1. \A d \in Deployments : ConcludedRow(d)' /\ LoadedCancel(d)'
  BY ConcludedRowStep, LoadedCancelStep DEF ConclusionInv, LoadedCancel
<1>2. \A w \in Slots : PresumedAndTidied(w)'
  BY SlotConclusionStep
<1>. QED BY <1>1, <1>2 DEF ConclusionInv, ConcludedRow, LoadedCancel, PresumedAndTidied,
                           Presumed, Presumes, Tidied, Concluded

-----------------------------------------------------------------------------
(* Settled is stable, and a deletion is owed only to the settled.            *)
LEMMA SettledStep ==
  ASSUME TypeOK, ConclusionInv, ~Shutdowns, [Next]_vars, NEW d \in Deployments, Settled(d)
  PROVE  Settled(d)'
<1>1. Concluded(d) => Concluded(d)'
  BY StepConclusion
<1>2. CASE Concluded(d)
  BY <1>1, <1>2 DEF Settled
<1>3. CASE Alive(d, "fail")
  <2>1. Alive(d, "fail")' \/ FailEnded(d)
    BY <1>3, StepJobs DEF JobChange, SameJobs, FailAdded, FinalizeFailed, HandedOff,
       DeleteChanged, FinalizeEnded, Kinds
  <2>2. FailEnded(d) => Concluded(d)'
    BY <1>1, CommitConcludes DEF FailEnded, Concluded
  <2>. QED BY <2>1, <2>2 DEF Settled
<1>. QED BY <1>2, <1>3 DEF Settled

LEMMA DeletionStep ==
  ASSUME TypeOK, ConclusionInv, DeletionInv, ~Shutdowns, [Next]_vars
  PROVE  DeletionInv'
<1>. SUFFICES ASSUME NEW d \in Deployments, Alive(d, "delete")'
              PROVE  Settled(d)'
  BY DEF DeletionInv
<1>1. Alive(d, "delete") \/ DeleteChanged(d)
  BY StepJobs DEF JobChange, SameJobs, FailAdded, FinalizeFailed, HandedOff, FinalizeEnded,
     FailEnded, Kinds
<1>2. CancelStop(d) => Concluded(d)
  BY DEF CancelStop, ConclusionInv
<1>3. ASSUME NEW w \in Slots, slot[w].dep = d, StartStops(w) PROVE Concluded(d)
  BY <1>3 DEF StartStops, Interrupted, ConclusionInv
<1>. QED BY <1>1, <1>2, <1>3, SettledStep DEF DeletionInv, DeleteChanged, Settled

-----------------------------------------------------------------------------
(* A container the table calls running stays so until someone settles it.    *)
LEMMA RunningStep ==
  ASSUME TypeOK, ConclusionInv, DeletionInv, ~Shutdowns, [Next]_vars,
         NEW d \in Deployments, row[d].cstat = "running"
  PROVE  row'[d].cstat = "running" \/ Settled(d)'
<1>1. Settled(d) => Settled(d)'
  BY SettledStep
<1>2. Concluded(d)' => Settled(d)'
  BY DEF Settled
<1>3. CASE RowSame(d)
  BY <1>3 DEF RowSame
<1>4. CASE CancelCommit(d) \/ MonitorReady(d)
  BY <1>4, CancelRow, ReadyRow
<1>5. CASE CancelStopped(d)
  <2>1. Concluded(d)
    BY <1>5 DEF CancelStopped, ConclusionInv
  <2>. QED BY <1>1, <2>1 DEF Settled
<1>6. ASSUME NEW w \in Slots, CleanupCommit(w) PROVE row'[d].cstat = "running" \/ Settled(d)'
  <2>1. slot[w].marks[d] # "keep" => Concluded(d)
    BY DEF ConclusionInv
  <2>2. slot[w].marks[d] = "keep" => RowSame(d)
    BY <1>6, CleanupRow
  <2>. QED BY <1>1, <1>3, <2>1, <2>2 DEF Settled, RowSame
<1>7. ASSUME NEW w \in Slots, Writes(w, d) PROVE row'[d].cstat = "running" \/ Settled(d)'
  <2>1. CASE StartPrepare(w) \/ StartSave(w) \/ StartAborted(w)
    BY <1>2, <1>7, <2>1, StartRow DEF Writes, Column, Concluded
  <2>2. CASE FinalizeConclude(w) \/ FailConclude(w)
    BY <1>2, <1>7, <2>2, CommitConcludes DEF Writes
  <2>3. CASE FailMark(w) \/ FailStopped(w)
    BY <1>1, <1>7, <2>3, FailAlive DEF Writes, Settled
  <2>4. CASE DeleteCommit(w)
    BY <1>1, <1>7, <2>4, DeleteAlive DEF Writes, DeleteNext, DeletionInv
  <2>. QED BY <1>7, <2>1, <2>2, <2>3, <2>4 DEF Writes
<1>. QED BY <1>3, <1>4, <1>5, <1>6, <1>7, StepRow DEF RowChange

(* StartInv, for one slot. *)
StartHopes(w) ==
  /\ slot[w].pc \in {"s_prepared", "s_created", "s_started"} => slot[w].snap.status = "prepare"
  /\ /\ slot[w].pc \in {"s_loaded", "s_prepared", "s_created", "s_started"}
     /\ slot[w].snap.cstat = "running"
     => row[slot[w].dep].cstat = "running" \/ Settled(slot[w].dep)

LEMMA NotStarting ==
  ASSUME TypeOK, NEW w \in Slots,
         FinalizeNext(w) \/ FailNext(w) \/ DeleteNext(w) \/ CleanupNext(w)
  PROVE  slot[w].pc \notin StartSteps /\ slot'[w].pc \notin StartSteps
<1>0. slot[w] \in Slot
  BY DEF TypeOK
<1>1. CASE FinalizeNext(w)
  BY <1>1, CommitSlot, FinishEffect
     DEF FinalizeNext, FinalizeFails, FinalizeConclude, FinalizeDone, At, StartSteps
<1>2. CASE FailNext(w)
  BY <1>2, CommitSlot, FinishEffect, GotoEffect
     DEF FailNext, FailMark, FailStop, FailStopped, FailConclude, At, StartSteps
<1>3. CASE DeleteNext(w)
  BY <1>3, FinishEffect, GotoEffect DEF DeleteNext, DeleteRemove, DeleteCommit, At, StartSteps
<1>4. CASE CleanupLoad(w) \/ CleanupCommit(w)
  <2>1. CASE CleanupLoad(w)
    <3>1. slot[w].pc = "idle" /\ slot'[w].pc = "c_scanning"
      BY <2>1 DEF CleanupLoad, At, TypeOK, IdleSlot
    <3>. QED BY <3>1 DEF StartSteps
  <2>2. CASE CleanupCommit(w)
    BY <2>2, FinishEffect DEF CleanupCommit, At, StartSteps
  <2>. QED BY <1>4, <2>1, <2>2
<1>5. ASSUME NEW item \in slot[w].todo, CleanupOne(w, item[1], item[2])
      PROVE  slot[w].pc \notin StartSteps /\ slot'[w].pc \notin StartSteps
  <2>1. slot[w].pc = "c_scanning" /\ slot'[w].pc = slot[w].pc
    BY <1>0, <1>5 DEF CleanupOne, At, TypeOK, Slot
  <2>. QED BY <2>1 DEF StartSteps
<1>. QED BY <1>1, <1>2, <1>3, <1>4, <1>5 DEF CleanupNext

LEMMA StartHopesStep ==
  ASSUME TypeOK, ConclusionInv, DeletionInv, StartInv, ~Shutdowns, [Next]_vars, NEW w \in Slots
  PROVE  StartHopes(w)'
<1>0. slot[w] \in Slot /\ slot[w].snap \in Row
  BY DEF TypeOK, Slot
<1>1. \A d \in Deployments : row[d].cstat = "running" \/ Settled(d) =>
                               row'[d].cstat = "running" \/ Settled(d)'
  BY SettledStep, RunningStep
<1>2. ASSUME slot'[w].pc \notin StartSteps PROVE StartHopes(w)'
  BY <1>2 DEF StartHopes, StartSteps
<1>3. ASSUME slot[w].pc \in StartSteps, slot'[w].dep = slot[w].dep,
             \/ slot'[w].pc \notin {"s_prepared", "s_created", "s_started"}
             \/ slot'[w].snap.status = "prepare",
             \/ slot'[w].pc \notin {"s_loaded", "s_prepared", "s_created", "s_started"}
             \/ /\ slot'[w].snap.cstat = slot[w].snap.cstat
                /\ slot[w].pc \in {"s_loaded", "s_prepared", "s_created", "s_started"}
      PROVE  StartHopes(w)'
  <2>0. PICK d \in Deployments : d = slot[w].dep
    BY <1>3, JobOf, StepsOf DEF Kinds
  <2>1. slot'[w].dep = d
    BY <1>3, <2>0
  <2>. QED BY <1>1, <1>3, <2>0, <2>1 DEF StartHopes, StartInv
<1>4. CASE slot'[w] = slot[w]
  BY <1>2, <1>3, <1>4 DEF StartInv, StartSteps
<1>5. CASE Emptied(w)
  BY <1>2, <1>5 DEF Emptied, StartSteps
<1>6. ASSUME NEW e \in Deployments, TakeJob(w, e) PROVE StartHopes(w)'
  <2>1. CASE StartLoad(w, e)
    <3>1. slot'[w].pc = "s_loaded" /\ slot'[w].dep = e /\ slot'[w].snap = row[e]
      BY <2>1, TakeEffect DEF StartLoad, Kinds
    <3>. QED BY <1>1, <3>1 DEF StartHopes
  <2>2. CASE slot' = slot
    BY <1>4, <2>2
  <2>3. ASSUME NEW k \in Kinds, NEW pc \in {"z_loaded", "f_loaded", "d_loaded"}, Take(w, e, k, pc)
        PROVE  StartHopes(w)'
    BY <1>2, <2>3, TakeEffect DEF StartSteps
  <2>. QED BY <1>6, <2>1, <2>2, <2>3
           DEF TakeJob, StartDropped, FinalizeLoad, FailLoad, DeleteLoad, Discard, Kinds
<1>7. CASE StartNext(w)
  <2>1. CASE StartPrepare(w)
    <3>. DEFINE new == [slot[w].snap EXCEPT !.status = "prepare"]
    <3>1. Commit(w, new, "s_prepared") /\ slot[w].pc = "s_loaded"
      BY <2>1 DEF StartPrepare, At
    <3>2. new.status = "prepare" /\ new.cstat = slot[w].snap.cstat
      BY <1>0 DEF Row
    <3>. HIDE DEF new
    <3>3. slot'[w].pc = "s_prepared" /\ slot'[w].snap = new /\ slot'[w].dep = slot[w].dep
      BY <3>1, CommitSlot DEF Keeps
    <3>. QED BY <1>3, <3>1, <3>2, <3>3 DEF StartSteps
  <2>2. CASE StartCreate(w)
    <3>1. /\ slot[w].pc = "s_prepared" /\ slot'[w].pc = "s_created"
          /\ slot'[w].snap = slot[w].snap /\ slot'[w].dep = slot[w].dep
      BY <1>0, <2>2 DEF StartCreate, At, TypeOK, Slot
    <3>. QED BY <1>3, <3>1 DEF StartSteps, StartInv
  <2>3. CASE StartContainer(w)
    <3>1. /\ slot[w].pc = "s_created" /\ slot'[w].pc = "s_started"
          /\ slot'[w].snap = slot[w].snap /\ slot'[w].dep = slot[w].dep
      BY <2>3, GotoEffect DEF StartContainer, At, Keeps
    <3>. QED BY <1>3, <3>1 DEF StartSteps, StartInv
  <2>4. CASE StartSave(w) \/ StartStops(w)
    <3>1. /\ slot[w].pc \in StartSteps /\ slot'[w].pc \in {"s_saved", "s_aborted"}
          /\ slot'[w].dep = slot[w].dep
      BY <2>4, CommitSlot, GotoEffect DEF StartSave, StartStops, At, Keeps, StartSteps
    <3>. QED BY <1>3, <3>1
  <2>5. CASE StartDone(w) \/ StartFails(w) \/ StartInterrupted(w) \/ StartAborted(w)
    BY <1>2, <2>5, FinishEffect
       DEF StartDone, StartFails, StartInterrupted, StartAborted, StartSteps
  <2>. QED BY <1>7, <2>1, <2>2, <2>3, <2>4, <2>5 DEF StartNext
<1>. QED BY <1>2, <1>4, <1>5, <1>6, <1>7, NotStarting, StepSlot DEF SlotChange, WorkerNext

LEMMA StartStep ==
  ASSUME TypeOK, ConclusionInv, DeletionInv, StartInv, ~Shutdowns, [Next]_vars
  PROVE  StartInv'
<1>1. \A w \in Slots : StartHopes(w)'
  BY StartHopesStep
<1>. QED BY <1>1 DEF StartInv, StartHopes

-----------------------------------------------------------------------------
(* BatonInv: what each holder of the baton does when it lets go.             *)
Baton(d) == Starting(d) \/ Deployed(d) \/ Settled(d)

LEMMA ReadyStep ==
  ASSUME TypeOK, [Next]_vars, NEW d \in Deployments, mon[d].pc = "ready"
  PROVE  mon'[d].pc = "ready" \/ MonitorHandOff(d)
<1>1. CASE mon' = mon
  BY <1>1
<1>2. ASSUME NEW e \in Deployments, MonitorNext(e)
      PROVE  mon'[d].pc = "ready" \/ MonitorHandOff(d)
  <2>1. CASE e # d
    <3>1. mon'[d] = mon[d]
      BY <1>2, <2>1 DEF TypeOK, MonitorNext, MonitorTimeout, MonitorTransient, MonitorLost,
         MonitorExited, MonitorProbe, MonitorNotReady, MonitorReady, MonitorHandOff,
         MonitorFail, MonitorRest
    <3>. QED BY <3>1
  <2>2. CASE e = d
    BY <1>2, <2>2 DEF MonitorNext, MonitorTimeout, MonitorTransient, MonitorLost,
       MonitorExited, MonitorProbe, MonitorNotReady, MonitorReady
  <2>. QED BY <2>1, <2>2
<1>3. ~MonitorSelect
  BY DEF MonitorSelect
<1>4. ASSUME NEW e \in Deployments,
             \/ Create(e) \/ EnqueueStart(e) \/ CancelLoad(e) \/ CancelNext(e)
             \/ Expire(e) \/ AppExit(e)
      PROVE  mon' = mon
  BY <1>4 DEF Create, EnqueueStart, CancelLoad, CancelNext, CancelCommit, CancelAbort,
              CancelAborted, CancelStop, CancelStopped, Expire, AppExit, monVars
<1>5. ASSUME NEW w \in Slots, WorkerNext(w) PROVE mon' = mon
  BY <1>5 DEF WorkerNext, TakeJob, StartLoad, StartDropped, FinalizeLoad, FailLoad, DeleteLoad,
       StartNext, StartPrepare, StartCreate, StartContainer, StartSave, StartDone, StartFails,
       StartInterrupted, StartStops, StartAborted, FinalizeNext, FinalizeFails,
       FinalizeConclude, FinalizeDone, FailNext, FailMark, FailStop, FailStopped,
       FailConclude, DeleteNext, DeleteRemove, DeleteCommit, CleanupNext, CleanupLoad,
       CleanupOne, CleanupCommit, monVars
<1>6. ASSUME \/ \E w \in Slots : WorkerStop(w) \/ JobTimeout(w)
             \/ WorkerCrash \/ UNCHANGED vars
      PROVE  mon' = mon
  BY <1>6 DEF WorkerStop, JobTimeout, WorkerCrash, vars, monVars
<1>. QED BY <1>1, <1>2, <1>3, <1>4, <1>5, <1>6 DEF Next

LEMMA DeployedStep ==
  ASSUME TypeOK, ConclusionInv, DeletionInv, ~Shutdowns, [Next]_vars,
         NEW d \in Deployments, Deployed(d)
  PROVE  Baton(d)'
<1>1. Settled(d)' => Baton(d)'
  BY DEF Baton
<1>2. Concluded(d) => Baton(d)'
  BY StepConclusion DEF Baton, Settled
<1>3. CASE Alive(d, "finalize")
  <2>1. \/ Alive(d, "finalize")' \/ Alive(d, "fail")' \/ FinalizeEnded(d)
    BY <1>3, StepJobs DEF JobChange, SameJobs, FailAdded, FinalizeFailed, HandedOff,
       DeleteChanged, FailEnded, Kinds
  <2>2. FinalizeEnded(d) => Concluded(d)
    BY DEF FinalizeEnded, FinalizeDone, At, Concluded, ConclusionInv, JobSteps, FinalizeSteps
  <2>. QED BY <1>2, <2>1, <2>2 DEF Baton, Settled, Deployed
<1>4. CASE mon[d].pc = "ready"
  <2>1. MonitorHandOff(d) => Alive(d, "finalize")'
    <3>1. MonitorHandOff(d) => slot' = slot
      BY DEF MonitorHandOff
    <3>. QED BY <3>1, OutsideEnqueue DEF MonitorHandOff, Kinds
  <2>. QED BY <1>4, <2>1, ReadyStep DEF Baton, Deployed
<1>5. CASE row[d].status = "deploy" /\ row[d].cstat = "running"
  <2>0. row'[d].cstat = "running" \/ Baton(d)'
    BY <1>1, <1>5, RunningStep
  <2>1. row'[d].status = "deploy" => Baton(d)'
    BY <2>0 DEF Baton, Deployed
  <2>2. CASE RowSame(d)
    BY <1>5, <2>1, <2>2 DEF RowSame
  <2>3. CASE CancelCommit(d)
    BY <1>1, <2>3, CommitConcludes DEF Settled
  <2>4. CASE CancelStopped(d)
    BY <1>5, <2>1, <2>4, CancelRow
  <2>5. CASE MonitorReady(d)
    <3>1. mon'[d].pc = "ready"
      BY <2>5 DEF MonitorReady, TypeOK
    <3>. QED BY <3>1 DEF Baton, Deployed
  <2>6. ASSUME NEW w \in Slots, CleanupCommit(w) PROVE row'[d].status = row[d].status
    BY <2>6, CleanupRow
  <2>7. ASSUME NEW w \in Slots, Writes(w, d) PROVE Baton(d)'
    <3>1. CASE StartPrepare(w)
      <4>1. slot'[w].pc = "s_prepared" /\ slot'[w].dep = d
        BY <2>7, <3>1, CommitSlot DEF Writes, StartPrepare, Keeps
      <4>. QED BY <4>1 DEF Baton, Starting, StartSteps
    <3>2. CASE StartSave(w)
      BY <1>5, <2>1, <2>7, <3>2, StartRow DEF Writes, Column
    <3>3. CASE StartAborted(w)
      BY <2>7, <3>3, StartRow DEF Writes, Baton, Settled, Concluded
    <3>4. CASE FinalizeConclude(w) \/ FailConclude(w)
      BY <1>1, <2>7, <3>4, CommitConcludes DEF Writes, Settled
    <3>5. CASE FailMark(w) \/ FailStopped(w)
      <4>1. Settled(d)
        BY <2>7, <3>5, FailAlive DEF Writes, Settled
      <4>. QED BY <1>1, <4>1, SettledStep
    <3>6. CASE DeleteCommit(w)
      BY <1>5, <2>1, <2>7, <3>6, DeleteRow DEF Writes
    <3>. QED BY <2>7, <3>1, <3>2, <3>3, <3>4, <3>5, <3>6 DEF Writes
  <2>. QED BY <1>5, <2>1, <2>2, <2>3, <2>4, <2>5, <2>6, <2>7, StepRow DEF RowChange
<1>. QED BY <1>3, <1>4, <1>5 DEF Deployed

(* A waiting start job waits until a slot takes it or arq drops it. *)
LEMMA WaitingStep ==
  ASSUME TypeOK, [Next]_vars, NEW d \in Deployments, queue[d]["start"] > 0
  PROVE  \/ queue'[d]["start"] > 0
         \/ \E w \in Slots : StartLoad(w, d) \/ StartDropped(w, d)
<1>0. "start" \in Kinds /\ queue[d]["start"] \in Nat
  BY DEF Kinds, TypeOK
<1>1. CASE queue' = queue
  BY <1>1
<1>2. ASSUME NEW e \in Deployments, NEW k \in Kinds, Enqueue(e, k) PROVE queue'[d]["start"] > 0
  BY <1>0, <1>2, EnqueueEffect DEF Queued
<1>3. ASSUME NEW w \in Slots, NEW e \in Deployments, NEW k \in Kinds, k # "start" \/ e # d,
             Discard(w, e, k) \/ \E pc : Take(w, e, k, pc)
      PROVE  queue'[d]["start"] > 0
  BY <1>0, <1>3, DiscardEffect, TakeEffect DEF Queued
<1>4. ASSUME NEW w \in Slots, NEW e \in Deployments, TakeJob(w, e)
      PROVE  queue'[d]["start"] > 0 \/ StartLoad(w, d) \/ StartDropped(w, d)
  BY <1>3, <1>4 DEF TakeJob, StartLoad, StartDropped, FinalizeLoad, FailLoad, DeleteLoad, Kinds
<1>5. ASSUME NEW w \in Slots,
             \/ StartNext(w) \/ FinalizeNext(w) \/ FailNext(w) \/ DeleteNext(w) \/ CleanupNext(w)
      PROVE  queue'[d]["start"] > 0
  <2>1. CASE CleanupNext(w)
    BY <1>1, <2>1, <1>0 DEF CleanupNext, CleanupLoad, CleanupOne, CleanupCommit
  <2>2. CASE StartNext(w) \/ FinalizeNext(w) \/ FailNext(w) \/ DeleteNext(w)
    <3>1. slot[w].dep \in Deployments /\ {"fail", "delete"} \subseteq Kinds
      BY <2>2, RunningDep DEF Kinds
    <3>2. queue' = queue \/ Enqueue(slot[w].dep, "fail") \/ Enqueue(slot[w].dep, "delete")
      BY <2>2 DEF StartNext, StartPrepare, StartCreate, StartContainer, StartSave, StartDone,
         StartFails, StartInterrupted, StartStops, StartAborted, FinalizeNext, FinalizeFails,
         FinalizeConclude, FinalizeDone, FailNext, FailMark, FailStop, FailStopped,
         FailConclude, DeleteNext, DeleteRemove, DeleteCommit
    <3>. QED BY <1>1, <1>2, <3>1, <3>2
  <2>. QED BY <1>5, <2>1, <2>2
<1>6. ASSUME NEW busy \in SUBSET Slots, Requeued(busy) PROVE queue'[d]["start"] > 0
  <2>1. Cardinality(Running(d, "start") \cap busy) \in Nat
    BY FS_Subset, FS_CardinalityType, SlotsAssumption
  <2>2. queue'[d]["start"] = queue[d]["start"] + Cardinality(Running(d, "start") \cap busy)
    BY <1>0, <1>6 DEF Requeued
  <2>. QED BY <1>0, <2>1, <2>2
<1>7. ASSUME NEW e \in Deployments,
             \/ Create(e) \/ EnqueueStart(e) \/ CancelLoad(e) \/ CancelNext(e)
             \/ MonitorNext(e) \/ Expire(e) \/ AppExit(e)
      PROVE  queue'[d]["start"] > 0
  <2>1. queue' = queue \/ \E k \in Kinds : Enqueue(e, k)
    BY <1>7 DEF Create, EnqueueStart, CancelLoad, CancelNext, CancelCommit, CancelAbort,
       CancelAborted, CancelStop, CancelStopped, Expire, AppExit, jobVars, Kinds,
       MonitorNext, MonitorTimeout, MonitorTransient, MonitorLost, MonitorExited,
       MonitorProbe, MonitorNotReady, MonitorReady, MonitorHandOff, MonitorFail
  <2>. QED BY <1>1, <1>2, <2>1
<1>. QED BY <1>1, <1>4, <1>5, <1>6, <1>7
         DEF Next, WorkerNext, WorkerStop, WorkerCrash, JobTimeout, MonitorSelect, vars, jobVars

(* The start job in slot w has not handed its deployment to the monitor yet. *)
Preparing(w, d) == slot[w].dep = d /\ slot[w].pc \in StartSteps \ {"s_saved"}

LEMMA PreparingStep ==
  ASSUME TypeOK, ConclusionInv, DeletionInv, StartInv, ~Shutdowns, [Next]_vars,
         NEW d \in Deployments, NEW w \in Slots, Preparing(w, d)
  PROVE  Baton(d)'
<1>0. "start" \in Kinds /\ "fail" \in Kinds
  BY DEF Kinds
<1>1. Concluded(d) => Baton(d)'
  BY StepConclusion DEF Baton, Settled
<1>2. ASSUME slot'[w].dep = d, slot'[w].pc \in StartSteps \ {"s_saved"} PROVE Baton(d)'
  BY <1>2 DEF Baton, Starting
<1>3. CASE slot'[w] = slot[w]
  BY <1>2, <1>3 DEF Preparing
<1>4. CASE WorkerCrash
  <2>1. Requeued(Slots)
    BY <1>4 DEF WorkerCrash
  <2>2. Alive(d, "start")
    BY <1>0, AliveMeans, StepsOf DEF Busy, Preparing
  <2>3. Alive(d, "start")'
    BY <1>0, <2>1, <2>2, RequeuedAlive DEF AliveBut
  <2>4. \A v \in Slots : ~Busy(v, d, "start")'
    BY <2>1, StepsOf DEF Requeued, Busy, IdleSlot, StartSteps
  <2>5. queue'[d]["start"] > 0
    BY <2>3, <2>4, AliveMeans
  <2>. QED BY <2>5 DEF Baton, Starting
<1>5. ~\E e \in Deployments : TakeJob(w, e)
  BY DEF TakeJob, StartLoad, StartDropped, FinalizeLoad, FailLoad, DeleteLoad, Take, Discard,
         Preparing, StartSteps
<1>6. CASE StartNext(w)
  <2>1. CASE StartPrepare(w) \/ StartCreate(w) \/ StartContainer(w) \/ StartStops(w)
    <3>1. slot[w] \in Slot
      BY DEF TypeOK
    <3>2. slot'[w].dep = d /\ slot'[w].pc \in {"s_prepared", "s_created", "s_started", "s_aborted"}
      <4>1. CASE StartCreate(w)
        BY <3>1, <4>1 DEF StartCreate, TypeOK, Slot, Preparing
      <4>. QED BY <2>1, <4>1, CommitSlot, GotoEffect
               DEF StartPrepare, StartContainer, StartStops, Keeps, Preparing
    <3>. QED BY <1>2, <3>2 DEF StartSteps
  <2>2. CASE StartSave(w)
    <3>1. slot[w].pc = "s_started" /\ slot[w].dep = d
      BY <2>2 DEF StartSave, At, Preparing
    <3>2. row'[d].status = "deploy"
      BY <2>2, <3>1, StartRow DEF StartInv, Column
    <3>3. row'[d].cstat = "running" \/ Settled(d)'
      <4>1. CASE slot[w].snap.cstat = "running"
        BY <3>1, <4>1, RunningStep, SettledStep DEF StartInv
      <4>2. CASE slot[w].snap.cstat # "running"
        BY <2>2, <3>1, <4>2, StartRow DEF Column
      <4>. QED BY <4>1, <4>2
    <3>. QED BY <3>2, <3>3 DEF Baton, Deployed
  <2>3. CASE StartFails(w)
    <3>1. Alive(d, "fail")'
      BY <2>3, StartAlive DEF Preparing
    <3>. QED BY <3>1 DEF Baton, Settled
  <2>4. CASE StartInterrupted(w)
    BY <1>1, <2>4 DEF StartInterrupted, Interrupted, ConclusionInv, Preparing
  <2>5. CASE StartAborted(w)
    BY <2>5, StartRow DEF Preparing, Baton, Settled, Concluded
  <2>6. ~StartDone(w)
    BY DEF StartDone, At, Preparing
  <2>. QED BY <1>6, <2>1, <2>2, <2>3, <2>4, <2>5, <2>6 DEF StartNext
<1>7. ~(FinalizeNext(w) \/ FailNext(w) \/ DeleteNext(w) \/ CleanupNext(w))
  BY NotStarting DEF Preparing
<1>. QED BY <1>3, <1>4, <1>5, <1>6, <1>7, StepSlot DEF SlotChange, WorkerNext

LEMMA StartingStep ==
  ASSUME TypeOK, ConclusionInv, DeletionInv, StartInv, ~Shutdowns, [Next]_vars,
         NEW d \in Deployments, Starting(d)
  PROVE  Baton(d)'
<1>1. CASE web[d] = "created"
  <2>1. EnqueueStart(d) => queue'[d]["start"] > 0
    <3>1. "start" \in Kinds
      BY DEF Kinds
    <3>2. EnqueueStart(d) => Queued(d, "start", 1)
      BY <3>1, EnqueueEffect DEF EnqueueStart
    <3>. QED BY <3>1, <3>2 DEF Queued, TypeOK
  <2>2. web'[d] = "created" \/ EnqueueStart(d)
    BY <1>1, StepRequest DEF RequestChange, Create
  <2>. QED BY <2>1, <2>2 DEF Baton, Starting
<1>2. CASE queue[d]["start"] > 0
  <2>1. ASSUME NEW w \in Slots, StartLoad(w, d) PROVE Baton(d)'
    <3>1. slot'[w].pc = "s_loaded" /\ slot'[w].dep = d
      BY <2>1, TakeEffect DEF StartLoad, Kinds
    <3>. QED BY <3>1 DEF Baton, Starting, StartSteps
  <2>2. ASSUME NEW w \in Slots, StartDropped(w, d) PROVE Baton(d)'
    BY <2>2, StepConclusion DEF StartDropped, ConclusionInv, Baton, Settled
  <2>3. queue'[d]["start"] > 0 => Baton(d)'
    BY DEF Baton, Starting
  <2>. QED BY <1>2, <2>1, <2>2, <2>3, WaitingStep
<1>3. CASE \E w \in Slots : Preparing(w, d)
  BY <1>3, PreparingStep
<1>. QED BY <1>1, <1>2, <1>3 DEF Starting, Preparing

LEMMA BatonStep ==
  ASSUME TypeOK, ConclusionInv, DeletionInv, StartInv, BatonInv, ~Shutdowns, [Next]_vars
  PROVE  BatonInv'
<1>. SUFFICES ASSUME NEW d \in Deployments, Created(d)'
              PROVE  Baton(d)'
  BY DEF BatonInv, Baton
<1>1. CASE Created(d)
  <2>1. Starting(d) \/ Deployed(d) \/ Settled(d)
    BY <1>1 DEF BatonInv
  <2>2. Settled(d) => Baton(d)'
    BY SettledStep DEF Baton
  <2>. QED BY <2>1, <2>2, StartingStep, DeployedStep
<1>2. CASE ~Created(d)
  <2>1. Create(d)
    BY <1>2, StepRequest DEF RequestChange, Created, EnqueueStart
  <2>2. web'[d] = "created"
    BY <2>1 DEF Create, TypeOK
  <2>. QED BY <2>2 DEF Baton, Starting
<1>. QED BY <1>1, <1>2

(* If the worker may crash but never stops gracefully or times a job out,     *)
(* then whatever the deployments, slots, cancels and Docker faults, no        *)
(* deployment without a conclusion is ever nobody's responsibility.           *)
THEOREM BatonKept == ~Shutdowns => (Spec => []SomeoneResponsible)
<1>. DEFINE IInv == ConclusionInv /\ DeletionInv /\ StartInv /\ BatonInv
<1>1. Init => IInv
  <2>. SUFFICES ASSUME Init PROVE IInv
    OBVIOUS
  <2>1. ConclusionInv
    BY DEF Init, ConclusionInv, NewRow, IdleCancel, IdleSlot, JobSteps, StartSteps,
           FinalizeSteps, FailSteps, DeleteSteps
  <2>2. DeletionInv
    BY InitAlive DEF DeletionInv, Kinds
  <2>3. StartInv
    BY DEF Init, StartInv, IdleSlot
  <2>4. BatonInv
    BY DEF Init, BatonInv, Created
  <2>. QED BY <2>1, <2>2, <2>3, <2>4
<1>2. ~Shutdowns /\ TypeOK /\ IInv /\ [Next]_vars => IInv'
  BY ConclusionStep, DeletionStep, StartStep, BatonStep
<1>3. TypeOK /\ IInv => SomeoneResponsible
  <2>. SUFFICES ASSUME TypeOK, IInv, NEW d \in Deployments, Created(d)
                PROVE  web[d] = "created" \/ Alive(d, "start") \/ Deployed(d) \/ Settled(d)
    BY DEF SomeoneResponsible
  <2>1. Starting(d) => web[d] = "created" \/ Alive(d, "start")
    BY AliveMeans, StepsOf DEF Starting, Busy
  <2>. QED BY <2>1 DEF BatonInv
<1>4. ASSUME ~Shutdowns PROVE Spec => []SomeoneResponsible
  <2>1. TypeOK /\ IInv /\ [Next]_vars => IInv'
    BY <1>2, <1>4
  <2>. HIDE DEF IInv
  <2>. QED BY <1>1, <1>3, <2>1, TypeCorrect, PTL DEF Spec
<1>. QED BY <1>4
-----------------------------------------------------------------------------
(* Towards CanceledLostOnlyToStaleReader: the jobs that conclude a deployment *)
(* otherwise look at the row they load, and keep what it said.                *)
LoadedOpen(w) ==
  /\ slot[w].pc = "z_loaded" => slot[w].snap.conclusion # "canceled"
  /\ slot[w].pc \in FailSteps => slot[w].snap.conclusion = "none"
OpenInv == (\A w \in Slots : LoadedOpen(w)) /\ \A d \in Deployments : LoadedCancel(d)

LEMMA FailOpen ==
  ASSUME TypeOK, NEW w \in Slots, LoadedOpen(w), FailNext(w)
  PROVE  LoadedOpen(w)'
<1>1. slot[w].snap \in Row /\ slot[w].snap.conclusion = "none" /\ slot[w].pc # "z_loaded"
  BY DEF TypeOK, Slot, LoadedOpen, FailNext, FailMark, FailStop, FailStopped, FailConclude, At,
         FailSteps
<1>2. CASE FailMark(w)
  <2>. DEFINE new == [slot[w].snap EXCEPT !.status = "fail"]
  <2>1. Commit(w, new, "f_marked") /\ new.conclusion = "none"
    BY <1>1, <1>2 DEF FailMark, Row
  <2>. HIDE DEF new
  <2>. QED BY <2>1, CommitSlot DEF LoadedOpen
<1>3. CASE FailStopped(w)
  <2>. DEFINE new == [slot[w].snap EXCEPT
                        !.cstat = IF At(w, "f_stopped") THEN "stopped" ELSE "removed"]
  <2>1. Commit(w, new, "f_clean") /\ new.conclusion = "none"
    BY <1>1, <1>3 DEF FailStopped, Row
  <2>. HIDE DEF new
  <2>. QED BY <2>1, CommitSlot DEF LoadedOpen
<1>4. CASE FailStop(w)
  <2>1. \E pc \in {"f_stopped", "f_gone", "f_clean"} : Goto(w, pc)
    BY <1>4 DEF FailStop
  <2>. QED BY <1>1, <2>1, GotoEffect DEF LoadedOpen
<1>5. CASE FailConclude(w)
  BY <1>5, FinishEffect DEF FailConclude, LoadedOpen, FailSteps
<1>. QED BY <1>2, <1>3, <1>4, <1>5 DEF FailNext

LEMMA CleanupStays ==
  ASSUME TypeOK, NEW w \in Slots, CleanupNext(w)
  PROVE  slot'[w].pc \in {"idle", "c_scanning"}
<1>1. CASE CleanupLoad(w)
  <2>1. PICK referenced \in SUBSET Deployments :
          slot' = [slot EXCEPT ![w] = [IdleSlot EXCEPT
            !.pc = "c_scanning", !.todo = {<<d, row[d].cid>> : d \in Inactive(referenced)}]]
    BY <1>1, ZenonT(30) DEF CleanupLoad
  <2>2. /\ slot'[w].pc = "c_scanning"
        /\ slot'[w].todo = {<<d, row[d].cid>> : d \in Inactive(referenced)}
    BY <2>1 DEF TypeOK, IdleSlot
  <2>. QED BY <2>2
<1>2. CASE CleanupCommit(w)
  BY <1>2, FinishEffect DEF CleanupCommit
<1>3. ASSUME NEW item \in slot[w].todo, CleanupOne(w, item[1], item[2])
      PROVE  slot'[w].pc = "c_scanning"
  <2>1. PICK m \in Marks : slot' = [slot EXCEPT ![w].todo = @ \ {<<item[1], item[2]>>},
                                               ![w].marks[item[1]] = m]
    BY <1>3 DEF CleanupOne, Marks
  <2>. QED BY <1>3, <2>1 DEF CleanupOne, At, TypeOK, Slot
<1>. QED BY <1>1, <1>2, <1>3 DEF CleanupNext

LEMMA NotDeciding ==
  ASSUME TypeOK, NEW w \in Slots,
         StartNext(w) \/ FinalizeNext(w) \/ DeleteNext(w) \/ CleanupNext(w)
  PROVE  slot'[w].pc \notin FailSteps \cup {"z_loaded"}
<1>1. CASE StartNext(w) \/ FinalizeNext(w) \/ DeleteNext(w)
  <2>1. \/ Finish(w)
        \/ \E pc \in {"s_started", "s_aborted", "d_deleted"} : Goto(w, pc)
        \/ \E pc \in {"s_prepared", "s_saved", "z_concluded"} : \E new : Commit(w, new, pc)
        \/ slot'[w].pc = "s_created"
    BY <1>1 DEF StartNext, StartPrepare, StartCreate, StartContainer, StartSave, StartDone,
                StartFails, StartInterrupted, StartStops, StartAborted, FinalizeNext,
                FinalizeFails, FinalizeConclude, FinalizeDone, DeleteNext, DeleteRemove,
                DeleteCommit, TypeOK, Slot
  <2>. QED BY <2>1, FinishEffect, GotoEffect, CommitSlot DEF FailSteps
<1>. QED BY <1>1, CleanupStays DEF FailSteps

(* A job taken from the queue has just loaded the row, and a finalize or fail *)
(* job is taken only if the row lets it pass.                                 *)
LEMMA TakeDeciding ==
  ASSUME TypeOK, NEW w \in Slots, NEW d \in Deployments, TakeJob(w, d)
  PROVE  \/ slot' = slot
         \/ /\ slot'[w].dep = d /\ slot'[w].snap = row[d]
            /\ slot'[w].pc = "z_loaded" => row[d].conclusion # "canceled"
            /\ slot'[w].pc \in FailSteps => row[d].conclusion = "none"
<1>2. ASSUME NEW k \in Kinds, NEW pc, Take(w, d, k, pc)
      PROVE  slot'[w].dep = d /\ slot'[w].snap = row[d] /\ slot'[w].pc = pc
  BY <1>2, TakeEffect
<1>. QED BY <1>2
     DEF TakeJob, StartLoad, StartDropped, FinalizeLoad, FailLoad, DeleteLoad, Discard, Kinds,
         FailSteps

LEMMA OpenStep ==
  ASSUME TypeOK, OpenInv, [Next]_vars, NEW w \in Slots
  PROVE  LoadedOpen(w)'
<1>1. CASE slot'[w] = slot[w]
  BY <1>1 DEF OpenInv, LoadedOpen
<1>2. CASE Emptied(w)
  BY <1>2 DEF Emptied, LoadedOpen, FailSteps
<1>3. ASSUME NEW d \in Deployments, TakeJob(w, d) PROVE LoadedOpen(w)'
  BY <1>1, <1>3, TakeDeciding DEF LoadedOpen
<1>4. CASE StartNext(w) \/ FinalizeNext(w) \/ DeleteNext(w) \/ CleanupNext(w)
  BY <1>4, NotDeciding DEF LoadedOpen
<1>. QED BY <1>1, <1>2, <1>3, <1>4, StepSlot, FailOpen DEF SlotChange, WorkerNext, OpenInv

-----------------------------------------------------------------------------
(* A finalize or fail job that has loaded the row and may yet conclude it.    *)
Deciding(w, d) == slot[w].dep = d /\ slot[w].pc \in FailSteps \cup {"z_loaded"}

(* A conclusion is changed by the commit of such a job, which loaded a row    *)
(* that let it pass, or by one of the two ways in which a cancel gets there.  *)
DecidedBy(w, d) ==
  /\ Deciding(w, d)
  /\ IF slot[w].pc = "z_loaded"
       THEN row'[d].conclusion = "succeeded" /\ slot[w].snap.conclusion # "canceled"
       ELSE row'[d].conclusion = "failed" /\ slot[w].snap.conclusion = "none"
CanceledBy(d) ==
  /\ row'[d].conclusion = "canceled"
  /\ \/ cancel[d].pc = "loaded" /\ cancel[d].snap.conclusion = "none"
     \/ \E w \in Slots : slot[w].dep = d /\ slot[w].pc = "s_aborted"
Decided(d) == CanceledBy(d) \/ \E w \in Slots : DecidedBy(w, d)

LEMMA DecidedStep ==
  ASSUME TypeOK, OpenInv, [Next]_vars, NEW d \in Deployments,
         row'[d].conclusion # row[d].conclusion
  PROVE  Decided(d)
<1>1. CASE CancelCommit(d)
  <2>1. row'[d].conclusion = "canceled"
    BY <1>1, CancelRow DEF Column
  <2>. QED BY <1>1, <2>1 DEF CancelCommit, OpenInv, LoadedCancel, Decided, CanceledBy
<1>2. ASSUME NEW w \in Slots, Writes(w, d) PROVE Decided(d)
  <2>1. CASE StartAborted(w)
    <3>1. slot[w].pc = "s_aborted"
      BY <2>1 DEF StartAborted, At
    <3>2. row'[d].conclusion = "canceled"
      BY <1>2, <2>1, StartRow DEF Writes
    <3>. QED BY <1>2, <3>1, <3>2 DEF Writes, Decided, CanceledBy
  <2>2. CASE FinalizeConclude(w)
    <3>1. slot[w].pc = "z_loaded" /\ slot[w].snap.conclusion # "canceled"
      BY <2>2 DEF FinalizeConclude, At, OpenInv, LoadedOpen
    <3>2. row'[d].conclusion = "succeeded"
      BY <1>2, <2>2, FinalizeRow DEF Writes, Column
    <3>. QED BY <1>2, <3>1, <3>2 DEF Writes, Decided, DecidedBy, Deciding
  <2>3. CASE FailConclude(w)
    <3>1. slot[w].pc = "f_clean" /\ slot[w].snap.conclusion = "none"
      BY <2>3 DEF FailConclude, At, OpenInv, LoadedOpen, FailSteps
    <3>2. row'[d].conclusion = "failed"
      BY <1>2, <2>3, <3>1, FailRow DEF Writes, Column
    <3>. QED BY <1>2, <3>1, <3>2 DEF Writes, Decided, DecidedBy, Deciding, FailSteps
  <2>. QED BY <1>2, <2>1, <2>2, <2>3, StartRow, FailRow, DeleteRow DEF Writes
<1>. QED BY <1>1, <1>2, StepRow, CancelRow, ReadyRow, CleanupRow DEF RowChange, RowSame

(* A canceled deployment that no such job works on any more.                  *)
CanceledForGood(d) == row[d].conclusion = "canceled" /\ \A w \in Slots : ~Deciding(w, d)

LEMMA DecidingStep ==
  ASSUME TypeOK, [Next]_vars, NEW d \in Deployments, CanceledForGood(d), NEW w \in Slots
  PROVE  ~Deciding(w, d)'
<1>0. ~Deciding(w, d)
  BY DEF CanceledForGood
<1>1. CASE slot'[w] = slot[w]
  BY <1>0, <1>1 DEF Deciding
<1>2. CASE Emptied(w)
  BY <1>2 DEF Emptied, Deciding, FailSteps
<1>3. ASSUME NEW e \in Deployments, TakeJob(w, e) PROVE ~Deciding(w, d)'
  BY <1>1, <1>3, TakeDeciding DEF Deciding, CanceledForGood
<1>4. CASE StartNext(w) \/ FinalizeNext(w) \/ DeleteNext(w) \/ CleanupNext(w)
  BY <1>4, NotDeciding DEF Deciding
<1>5. CASE FailNext(w)
  <2>1. slot[w].pc \in FailSteps
    BY <1>5 DEF FailNext, FailMark, FailStop, FailStopped, FailConclude, At, FailSteps
  <2>2. slot'[w].dep \in {slot[w].dep, None}
    BY <1>5, FinishEffect, GotoEffect, CommitSlot
       DEF FailNext, FailMark, FailStop, FailStopped, FailConclude, Keeps
  <2>. QED BY <1>0, <2>1, <2>2, NoneAssumption DEF Deciding
<1>. QED BY <1>1, <1>2, <1>3, <1>4, <1>5, StepSlot DEF SlotChange, WorkerNext

LEMMA OpenHolds == Spec => []OpenInv
<1>1. Init => OpenInv
  BY DEF Init, OpenInv, LoadedOpen, LoadedCancel, IdleSlot, IdleCancel, FailSteps
<1>2. TypeOK /\ OpenInv /\ [Next]_vars => OpenInv'
  BY OpenStep, LoadedCancelStep DEF OpenInv
<1>. QED BY <1>1, <1>2, TypeCorrect, PTL DEF Spec

(* Whatever the deployments, slots, bounds and faults: a conclusion is only   *)
(* ever changed by a cancel whose request loaded an open row, by the handler  *)
(* of an aborted start job, by a finalize job that did not load "canceled", or *)
(* by a fail job that loaded a row without a conclusion; nothing else writes  *)
(* the column, and nobody takes a conclusion back.                            *)
ConclusionsDecided ==
  [][\A d \in Deployments : row'[d].conclusion # row[d].conclusion => Decided(d)]_vars

THEOREM ConclusionsDecidedHolds == Spec => ConclusionsDecided
<1>1. TypeOK /\ OpenInv /\ [Next]_vars
      => \A d \in Deployments : row'[d].conclusion # row[d].conclusion => Decided(d)
  BY DecidedStep
<1>. QED BY <1>1, OpenHolds, TypeCorrect, PTL DEF Spec, ConclusionsDecided

(* Whatever the deployments, slots, bounds and faults: a cancel that was      *)
(* committed is only undone by a job that loaded the row before the commit.   *)
THEOREM CanceledKept == Spec => CanceledLostOnlyToStaleReader
<1>1. TypeOK /\ OpenInv /\ [Next]_vars
        => \A d \in Deployments :
             row[d].conclusion = "canceled" /\ row'[d].conclusion # "canceled" =>
               \E w \in Slots : slot[w].dep = d /\ slot[w].snap.conclusion # "canceled"
  BY DecidedStep DEF Decided, CanceledBy, DecidedBy, Deciding
<1>. QED BY <1>1, OpenHolds, TypeCorrect, PTL DEF Spec, CanceledLostOnlyToStaleReader

(* Whatever the deployments, slots, bounds and faults: once a deployment is   *)
(* canceled and the finalize and fail jobs that work on it at that moment are *)
(* over, it stays canceled, whatever is delivered again, polled or enqueued.  *)
THEOREM CanceledIsFinal ==
  ASSUME NEW d \in Deployments
  PROVE  Spec => [](CanceledForGood(d) => [](row[d].conclusion = "canceled"))
<1>1. TypeOK /\ OpenInv /\ [Next]_vars /\ CanceledForGood(d) => CanceledForGood(d)'
  <2>. SUFFICES ASSUME TypeOK, OpenInv, [Next]_vars, CanceledForGood(d)
                PROVE  CanceledForGood(d)'
    OBVIOUS
  <2>1. row'[d].conclusion = "canceled"
    BY DecidedStep DEF Decided, CanceledBy, DecidedBy, CanceledForGood
  <2>. QED BY <2>1, DecidingStep DEF CanceledForGood
<1>2. CanceledForGood(d) => row[d].conclusion = "canceled"
  BY DEF CanceledForGood
<1>. QED BY <1>1, <1>2, OpenHolds, TypeCorrect, PTL DEF Spec
================================================================================
