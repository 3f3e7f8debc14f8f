---------------------------- MODULE StorageProofs -----------------------------
(* Theorems about Storage for any worker slots, backups to keep, faults and  *)
(* requests, and about Links for any storages, environments, changes and     *)
(* deployments.                                                              *)
EXTENDS Storage, Links, SequenceTheorems, TLAPS

(* Storage.                                                                  *)

StFiles == StSlots \cup {"good", "partial"}
StRowType == [type: StTypes, status: StStatuses, error: StErrors, pw: Nat,
              enabled: BOOLEAN, last: {"none", "ok", "failed"}]
StJobType == [job: StKinds \cup {"none"}, pc: {"idle", "work", "dump", "commit", "fail"},
              seen: [status: StStatuses, error: StErrors, pw: Nat, enabled: BOOLEAN]]

StBusy(s) == stJobs[s].pc # "idle"

StTyped ==
  /\ stRow \in StRowType
  /\ stServer \in [db: BOOLEAN, pw: Nat]
  /\ stDumps \in Seq(StFiles)
  /\ stQueue \in [StKinds -> Nat]
  /\ stJobs \in [StSlots -> StJobType]
  /\ \A s \in StSlots: StBusy(s) => stJobs[s].job \in StKinds
  /\ stWeb \in [pc: {"idle", "grant", "commit"}, pw: Nat]
  /\ stTorn \in BOOLEAN
  /\ stAsked \in BOOLEAN

(* Nobody works on a storage before its row is there, and nothing removes    *)
(* one before somebody asked.                                                *)
StUnborn == stRow.status = "none" => (\A k \in StKinds: stQueue[k] = 0) /\ \A s \in StSlots: ~StBusy(s)
StLeaving == stQueue["deprovision"] > 0 \/ \E s \in StSlots: StBusy(s) /\ stJobs[s].job = "deprovision"
StWanted == stAsked \/ ~StLeaving

(* Without an overlap one job or one rotation runs at a time.                *)
StSolo == /\ \A s, o \in StSlots: StBusy(s) /\ StBusy(o) => s = o
          /\ stWeb.pc # "idle" => \A s \in StSlots: ~StBusy(s)

StGood == \E i \in DOMAIN stDumps: stDumps[i] = "good"
StEmpty == ~stServer.db /\ stServer.pw = 0 /\ stDumps = <<>>

(* What the running job saw is still so, and what it did is still there.     *)
StJobFine(s) ==
  LET j == stJobs[s]
  IN /\ j.job # "deprovision" => j.seen.pw = stRow.pw
     /\ j.job \in {"provision", "reset"} /\ j.pc = "commit" => stServer.db /\ stServer.pw = j.seen.pw
     /\ j.job = "reset" => stRow.status \in {"resetting", "deleted"}
     /\ j.job = "deprovision" /\ j.pc = "commit" => StEmpty
     /\ j.pc = "dump" => j.job = "backup" /\ stDumps # <<>> /\ stDumps[1] = s
     /\ j.job = "backup" /\ j.pc = "commit" => stAsked \/ StGood

(* The server has the password that is stored, or about to be, while nothing *)
(* removes the storage.                                                      *)
StAgrees ==
  stRow.status = "active" /\ stRow.error = "none" /\ ~StLeaving
    => stServer.db /\ stServer.pw = IF stWeb.pc = "commit" THEN stWeb.pw ELSE stRow.pw

StSafe == /\ StSolo
          /\ \A s \in StSlots: StBusy(s) => StJobFine(s)
          /\ StAgrees
          /\ stRow.status = "gone" => StEmpty /\ stWeb.pc # "grant" /\ \A s \in StSlots: ~StBusy(s)
          /\ stRow.last = "ok" => stAsked \/ StGood

StInv == StTyped /\ StUnborn /\ StWanted /\ (~stTorn => StSafe)
------------------------------------------------------------------------------
(* Backup files.                                                             *)
LEMMA StDumpedFiles ==
  ASSUME StTyped, NEW s \in StSlots, NEW what \in {"good", "partial"}
  PROVE  /\ StDumped(s, what) \in Seq(StFiles)
         /\ Len(StDumped(s, what)) = Len(stDumps)
         /\ \A i \in 1..Len(stDumps): StDumped(s, what)[i] = IF stDumps[i] = s THEN what ELSE stDumps[i]
<1>1. /\ Len(stDumps) \in Nat /\ DOMAIN stDumps = 1..Len(stDumps)
      /\ \A i \in 1..Len(stDumps): stDumps[i] \in StFiles
  BY LenProperties, ElementOfSeq DEF StTyped
<1>2. StDumped(s, what) \in [1..Len(stDumps) -> StFiles]
  BY <1>1 DEF StDumped, StFiles
<1>3. StDumped(s, what) \in Seq(StFiles)
  BY <1>1, <1>2, SeqDef
<1>4. DOMAIN StDumped(s, what) = 1..Len(StDumped(s, what)) /\ Len(StDumped(s, what)) \in Nat
  BY <1>3, LenProperties
<1>5. Len(StDumped(s, what)) = Len(stDumps)
  BY <1>1, <1>2, <1>4
<1>. QED BY <1>1, <1>3, <1>5 DEF StDumped

LEMMA StPrunedFiles ==
  ASSUME NEW dumps \in Seq(StFiles), dumps # <<>>
  PROVE  /\ StPruned(dumps) \in Seq(StFiles)
         /\ 1 \in DOMAIN StPruned(dumps) /\ StPruned(dumps)[1] = dumps[1]
<1>. DEFINE n == IF Len(dumps) < StKeep THEN Len(dumps) ELSE StKeep
<1>1. Len(dumps) \in Nat \ {0} /\ \A i \in 1..Len(dumps): dumps[i] \in StFiles
  BY EmptySeq, ElementOfSeq
<1>2. n \in Nat \ {0} /\ n <= Len(dumps)
  BY <1>1, StAssumption
<1>3. StPruned(dumps) = SubSeq(dumps, 1, n)
  BY DEF StPruned
<1>. HIDE DEF n
<1>4. \A i \in 1..n: dumps[i] \in StFiles
  BY <1>1, <1>2
<1>5. /\ SubSeq(dumps, 1, n) \in Seq(StFiles)
      /\ Len(SubSeq(dumps, 1, n)) = n
      /\ \A i \in 1..n: SubSeq(dumps, 1, n)[i] = dumps[i]
  BY <1>2, <1>4, SubSeqProperties
<1>6. DOMAIN SubSeq(dumps, 1, n) = 1..n
  BY <1>5, LenProperties
<1>. QED BY <1>2, <1>3, <1>5, <1>6

LEMMA StOpenedFiles ==
  ASSUME StTyped, NEW s \in StSlots
  PROVE  /\ <<s>> \o stDumps \in Seq(StFiles)
         /\ <<s>> \o stDumps # <<>> /\ (<<s>> \o stDumps)[1] = s
         /\ StGood => \E i \in DOMAIN (<<s>> \o stDumps): (<<s>> \o stDumps)[i] = "good"
<1>. DEFINE d == <<s>> \o stDumps
<1>1. <<s>> \in Seq(StFiles) /\ Len(<<s>>) = 1 /\ <<s>>[1] = s
  BY DEF StFiles
<1>2. Len(stDumps) \in Nat /\ DOMAIN stDumps = 1..Len(stDumps)
  BY LenProperties DEF StTyped
<1>3. /\ d \in Seq(StFiles) /\ Len(d) = 1 + Len(stDumps)
      /\ \A i \in 1..1 + Len(stDumps): d[i] = IF i <= 1 THEN <<s>>[i] ELSE stDumps[i - 1]
  BY <1>1, ConcatProperties DEF StTyped
<1>4. DOMAIN d = 1..1 + Len(stDumps)
  BY <1>3, LenProperties
<1>. HIDE DEF d
<1>5. d # <<>>
  BY <1>2, <1>3, EmptySeq
<1>6. d[1] = s
  BY <1>1, <1>2, <1>3
<1>7. ASSUME NEW i \in DOMAIN stDumps, stDumps[i] = "good" PROVE \E o \in DOMAIN d: d[o] = "good"
  <2>1. i + 1 \in 1..1 + Len(stDumps) /\ d[i + 1] = stDumps[i]
    BY <1>2, <1>3
  <2>. QED BY <1>4, <1>7, <2>1
<1>. QED BY <1>3, <1>5, <1>6, <1>7 DEF d, StGood
------------------------------------------------------------------------------
LEMMA StNoRowType == StNoRow \in StRowType
BY DEF StNoRow, StRowType, StTypes, StStatuses, StErrors

LEMMA StSeenType ==
  ASSUME NEW k \in StKinds \cup {"none"}, NEW row \in StRowType
  PROVE  /\ StSeen(k, row) \in [status: StStatuses, error: StErrors, pw: Nat, enabled: BOOLEAN]
         /\ k # "deprovision" => StSeen(k, row).pw = row.pw
BY DEF StSeen, StRowType, StStatuses, StErrors, StKinds

LEMMA StIdleType == StIdle \in StJobType /\ StIdle.pc = "idle"
<1>1. StSeen("none", StNoRow) \in [status: StStatuses, error: StErrors, pw: Nat, enabled: BOOLEAN]
  BY StNoRowType, StSeenType
<1>. QED BY <1>1 DEF StIdle, StJobType

LEMMA StInitInv == StInit => StInv
<1>. SUFFICES ASSUME StInit PROVE StInv
  OBVIOUS
<1>1. \A s \in StSlots: ~StBusy(s) /\ stJobs[s] = StIdle
  BY StIdleType DEF StInit, StBusy
<1>2. stJobs \in [StSlots -> StJobType]
  BY StIdleType DEF StInit
<1>3. stDumps = <<>> /\ stDumps \in Seq(StFiles)
  BY EmptySeq DEF StInit
<1>4. StTyped
  BY <1>1, <1>2, <1>3, StNoRowType DEF StInit, StTyped
<1>5. ~StLeaving /\ \A k \in StKinds: stQueue[k] = 0
  BY <1>1 DEF StInit, StLeaving, StKinds
<1>6. stRow.status = "none" /\ stRow.last = "none"
  BY DEF StInit, StNoRow
<1>. QED BY <1>1, <1>4, <1>5, <1>6 DEF StInit, StInv, StUnborn, StWanted, StSafe, StSolo, StAgrees

(* A request that stores something and leaves the server, the files, the     *)
(* jobs and the password alone.                                              *)
LEMMA StRequestInv ==
  ASSUME StInv, UNCHANGED <<stServer, stDumps, stJobs, stWeb>>,
         stRow' \in StRowType, stQueue' \in [StKinds -> Nat], stTorn' \in BOOLEAN, stAsked' \in BOOLEAN,
         stTorn => stTorn', stAsked => stAsked',
         stRow'.status # "none", stRow'.status = "gone" <=> stRow.status = "gone",
         stRow'.pw = stRow.pw, stRow'.last = stRow.last,
         stQueue["deprovision"] > 0 => stQueue'["deprovision"] > 0,
         stQueue'["deprovision"] > 0 => stQueue["deprovision"] > 0 \/ stAsked',
         ~stTorn' /\ stRow.status \in {"resetting", "deleted"} => stRow'.status \in {"resetting", "deleted"},
         ~stTorn' /\ stRow'.status = "active" /\ stRow'.error = "none" =>
                    stRow.status = "active" /\ stRow.error = "none"
  PROVE  StInv'
<1>1. StTyped' /\ StUnborn'
  BY DEF StInv, StTyped, StUnborn, StBusy
<1>2. StLeaving => StLeaving'
  BY DEF StLeaving, StBusy
<1>3. StWanted'
  BY DEF StInv, StWanted, StLeaving, StBusy
<1>4. ASSUME ~stTorn' PROVE StSafe'
  <2>1. StSafe /\ (StGood <=> StGood')
    BY <1>4 DEF StInv, StTyped, StGood
  <2>2. StSolo'
    BY <2>1 DEF StSafe, StSolo, StBusy
  <2>3. ASSUME NEW s \in StSlots, StBusy(s)' PROVE StJobFine(s)'
    BY <1>4, <2>1, <2>3 DEF StSafe, StBusy, StJobFine, StEmpty
  <2>4. StAgrees'
    BY <1>2, <1>4, <2>1 DEF StSafe, StAgrees
  <2>. QED BY <2>1, <2>2, <2>3, <2>4 DEF StSafe, StEmpty, StBusy
<1>. QED BY <1>1, <1>3, <1>4 DEF StInv

LEMMA StEnqueueType ==
  ASSUME StTyped, NEW k \in StKinds, StEnqueue(k)
  PROVE  /\ stQueue' \in [StKinds -> Nat]
         /\ \A o \in StKinds: stQueue'[o] = IF o = k THEN 1 ELSE stQueue[o]
BY DEF StTyped, StEnqueue

LEMMA StCreateInv == ASSUME StInv, NEW t \in StTypes, StCreate(t) PROVE StInv'
<1>1. /\ UNCHANGED <<stServer, stDumps, stJobs, stWeb, stTorn, stAsked>>
      /\ stRow.status = "none" /\ stRow' = StNewRow(t)
      /\ StEnqueue("provision") \/ UNCHANGED stQueue
  BY DEF StCreate
<1>2. stRow' \in StRowType /\ stRow'.status = "pending" /\ stRow'.last = "none"
  BY <1>1, StNoRowType DEF StNewRow, StRowType, StNoRow, StStatuses
<1>3. stQueue' \in [StKinds -> Nat] /\ stQueue'["deprovision"] = stQueue["deprovision"]
  BY <1>1, StEnqueueType DEF StInv, StTyped, StKinds
<1>4. \A s \in StSlots: ~StBusy(s) /\ ~StBusy(s)'
  BY <1>1 DEF StInv, StUnborn, StBusy
<1>5. stQueue["deprovision"] = 0
  BY <1>1 DEF StInv, StUnborn, StKinds
<1>6. StTyped' /\ StUnborn' /\ StWanted'
  BY <1>1, <1>2, <1>3, <1>4, <1>5 DEF StInv, StTyped, StUnborn, StWanted, StLeaving, StBusy
<1>7. StSafe'
  BY <1>2, <1>4 DEF StSafe, StSolo, StAgrees
<1>. QED BY <1>6, <1>7 DEF StInv

LEMMA StRetryInv == ASSUME StInv, StRetry PROVE StInv'
<1>1. /\ UNCHANGED <<stServer, stDumps, stJobs, stWeb, stTorn, stAsked>>
      /\ stRow.status = "pending" /\ stRow' = [stRow EXCEPT !.error = "none"]
      /\ StEnqueue("provision")
  BY DEF StRetry, StRetryDue
<1>2. /\ stRow' \in StRowType /\ stRow'.status = "pending"
      /\ stRow'.pw = stRow.pw /\ stRow'.last = stRow.last
  BY <1>1 DEF StInv, StTyped, StRowType, StErrors
<1>3. stQueue' \in [StKinds -> Nat] /\ stQueue'["deprovision"] = stQueue["deprovision"]
  BY <1>1, StEnqueueType DEF StInv, StKinds
<1>4. stTorn' \in BOOLEAN /\ stAsked' \in BOOLEAN
  BY <1>1 DEF StInv, StTyped
<1>. QED BY <1>1, <1>2, <1>3, <1>4, StRequestInv

LEMMA StResetRequestInv == ASSUME StInv, StResetRequest PROVE StInv'
<1>1. /\ UNCHANGED <<stServer, stDumps, stJobs, stWeb, stAsked>>
      /\ StVisible
      /\ \/ /\ StEnqueue("reset") /\ UNCHANGED stTorn
            /\ stRow' = [stRow EXCEPT !.status = "resetting", !.error = "none"]
         \/ /\ stRow' = [stRow EXCEPT !.status = "active", !.error = "none"]
            /\ stTorn' = TRUE /\ UNCHANGED stQueue
  BY DEF StResetRequest
<1>2. /\ stRow' \in StRowType /\ stRow'.status \in {"resetting", "active"}
      /\ stRow'.pw = stRow.pw /\ stRow'.last = stRow.last
      /\ stRow'.status = "active" => stTorn'
  BY <1>1 DEF StInv, StTyped, StRowType, StErrors, StStatuses
<1>3. stQueue' \in [StKinds -> Nat] /\ stQueue'["deprovision"] = stQueue["deprovision"]
  BY <1>1, StEnqueueType DEF StInv, StTyped, StKinds
<1>4. stTorn' \in BOOLEAN /\ stAsked' \in BOOLEAN
  BY <1>1 DEF StInv, StTyped
<1>5. stTorn => stTorn'
  BY <1>1
<1>. QED BY <1>1, <1>2, <1>3, <1>4, <1>5, StRequestInv DEF StVisible

LEMMA StDeleteRequestInv == ASSUME StInv, StDeleteRequest PROVE StInv'
<1>1. /\ UNCHANGED <<stServer, stDumps, stJobs, stWeb, stTorn>>
      /\ StVisible /\ stRow' = [stRow EXCEPT !.status = "deleted"] /\ stAsked' = TRUE
      /\ StEnqueue("deprovision") \/ UNCHANGED stQueue
  BY DEF StDeleteRequest
<1>2. /\ stRow' \in StRowType /\ stRow'.status = "deleted"
      /\ stRow'.pw = stRow.pw /\ stRow'.last = stRow.last
  BY <1>1 DEF StInv, StTyped, StRowType, StStatuses
<1>3. stQueue' \in [StKinds -> Nat] /\ (stQueue["deprovision"] > 0 => stQueue'["deprovision"] > 0)
  BY <1>1, StEnqueueType DEF StInv, StTyped, StKinds
<1>4. stTorn' \in BOOLEAN
  BY <1>1 DEF StInv, StTyped
<1>. QED BY <1>1, <1>2, <1>3, <1>4, StRequestInv DEF StVisible

LEMMA StBackupSettingsInv == ASSUME StInv, StBackupSettings PROVE StInv'
<1>1. /\ UNCHANGED <<stServer, stDumps, stJobs, stWeb, stTorn, stAsked, stQueue>>
      /\ StVisible /\ stRow' = [stRow EXCEPT !.enabled = ~stRow.enabled]
  BY DEF StBackupSettings
<1>2. /\ stRow' \in StRowType /\ stRow'.status = stRow.status /\ stRow'.error = stRow.error
      /\ stRow'.pw = stRow.pw /\ stRow'.last = stRow.last
  BY <1>1 DEF StInv, StTyped, StRowType
<1>3. stTorn' \in BOOLEAN /\ stAsked' \in BOOLEAN /\ stQueue' \in [StKinds -> Nat]
  BY <1>1 DEF StInv, StTyped
<1>. QED BY <1>1, <1>2, <1>3, StRequestInv DEF StVisible

LEMMA StBackupEnqueueInv == ASSUME StInv, StBackupEnqueue PROVE StInv'
<1>1. /\ UNCHANGED <<stServer, stDumps, stJobs, stWeb, stTorn, stAsked, stRow>>
      /\ stRow.status = "active" /\ StEnqueue("backup")
  BY DEF StBackupEnqueue
<1>2. stQueue' \in [StKinds -> Nat] /\ stQueue'["deprovision"] = stQueue["deprovision"]
  BY <1>1, StEnqueueType DEF StInv, StKinds
<1>3. stTorn' \in BOOLEAN /\ stAsked' \in BOOLEAN /\ stRow' \in StRowType
  BY <1>1 DEF StInv, StTyped
<1>. QED BY <1>1, <1>2, <1>3, StRequestInv

LEMMA StRotateInv == ASSUME StInv, StRotate PROVE StInv'
<1>. DEFINE new == 1 + (IF stRow.pw > stServer.pw THEN stRow.pw ELSE stServer.pw)
<1>1. /\ UNCHANGED <<stRow, stServer, stDumps, stQueue, stJobs, stAsked>>
      /\ StVisible /\ stWeb.pc = "idle"
      /\ stWeb' = [pc |-> IF stRow.status = "active" THEN "grant" ELSE "commit", pw |-> new]
      /\ stTorn' = (stTorn \/ \E s \in StSlots: StBusy(s))
  BY DEF StRotate, StBusy
<1>2. new \in Nat
  BY DEF StInv, StTyped, StRowType
<1>. HIDE DEF new
<1>3. stWeb' \in [pc: {"idle", "grant", "commit"}, pw: Nat] /\ (stRow.status = "active" => stWeb'.pc = "grant")
  BY <1>1, <1>2
<1>4. stTorn' \in BOOLEAN
  BY <1>1 DEF StInv, StTyped
<1>5. StTyped' /\ StUnborn' /\ StWanted'
  BY <1>1, <1>3, <1>4 DEF StInv, StTyped, StUnborn, StWanted, StLeaving, StBusy
<1>6. ASSUME ~stTorn' PROVE StSafe'
  <2>1. StSafe /\ (StGood <=> StGood') /\ (StLeaving <=> StLeaving')
    BY <1>1, <1>6 DEF StInv, StTyped, StGood, StLeaving, StBusy
  <2>2. \A s \in StSlots: ~StBusy(s)'
    BY <1>1, <1>6 DEF StBusy
  <2>3. StAgrees'
    BY <1>1, <1>3, <2>1 DEF StSafe, StAgrees
  <2>. QED BY <1>1, <2>1, <2>2, <2>3 DEF StSafe, StSolo, StVisible
<1>. QED BY <1>5, <1>6 DEF StInv

(* The server changes and the password follows, unless the database is gone, *)
(* and then the storage is not active without an error.                      *)
LEMMA StRotateServerInv == ASSUME StInv, StRotateServer PROVE StInv'
<1>1. /\ UNCHANGED <<stRow, stDumps, stQueue, stJobs, stTorn, stAsked>>
      /\ stWeb.pc = "grant" /\ stServer' = [stServer EXCEPT !.pw = stWeb.pw]
      /\ \E pc \in {"idle", "commit"}: /\ stWeb' = [stWeb EXCEPT !.pc = pc]
                                       /\ stServer.db => pc = "commit"
  BY DEF StRotateServer
<1>2. /\ stWeb' \in [pc: {"idle", "grant", "commit"}, pw: Nat] /\ stWeb'.pw = stWeb.pw
      /\ stWeb'.pc # "grant" /\ (stServer.db => stWeb'.pc = "commit")
      /\ stServer' \in [db: BOOLEAN, pw: Nat] /\ stServer'.db = stServer.db /\ stServer'.pw = stWeb.pw
  BY <1>1 DEF StInv, StTyped
<1>3. StTyped' /\ StUnborn' /\ StWanted'
  BY <1>1, <1>2 DEF StInv, StTyped, StUnborn, StWanted, StLeaving, StBusy
<1>4. ASSUME ~stTorn' PROVE StSafe'
  <2>1. StSafe /\ (StGood <=> StGood') /\ (StLeaving <=> StLeaving')
    BY <1>1, <1>4 DEF StInv, StTyped, StGood, StLeaving, StBusy
  <2>2. \A s \in StSlots: ~StBusy(s) /\ ~StBusy(s)'
    BY <1>1, <2>1 DEF StSafe, StSolo, StBusy
  <2>3. StAgrees'
    BY <1>1, <1>2, <2>1 DEF StSafe, StAgrees
  <2>. QED BY <1>1, <2>1, <2>2, <2>3 DEF StSafe, StSolo
<1>. QED BY <1>3, <1>4 DEF StInv

LEMMA StRotateCommitInv == ASSUME StInv, StRotateCommit PROVE StInv'
<1>1. /\ UNCHANGED <<stServer, stDumps, stQueue, stJobs, stTorn, stAsked>>
      /\ stWeb.pc = "commit" /\ stWeb' = [stWeb EXCEPT !.pc = "idle"]
      /\ stRow' = IF stRow.status = "gone" THEN stRow ELSE [stRow EXCEPT !.pw = stWeb.pw]
  BY DEF StRotateCommit
<1>2. /\ stRow' \in StRowType /\ stRow'.status = stRow.status /\ stRow'.error = stRow.error
      /\ stRow'.last = stRow.last /\ (stRow.status # "gone" => stRow'.pw = stWeb.pw)
      /\ stWeb' \in [pc: {"idle", "grant", "commit"}, pw: Nat] /\ stWeb'.pc = "idle"
  BY <1>1 DEF StInv, StTyped, StRowType
<1>3. StTyped' /\ StUnborn' /\ StWanted'
  BY <1>1, <1>2 DEF StInv, StTyped, StUnborn, StWanted, StLeaving, StBusy
<1>4. ASSUME ~stTorn' PROVE StSafe'
  <2>1. StSafe /\ (StGood <=> StGood') /\ (StLeaving <=> StLeaving') /\ (StEmpty <=> StEmpty')
    BY <1>1, <1>4 DEF StInv, StTyped, StGood, StLeaving, StBusy, StEmpty
  <2>2. \A s \in StSlots: ~StBusy(s)'
    BY <1>1, <2>1 DEF StSafe, StSolo, StBusy
  <2>3. StAgrees'
    BY <1>1, <1>2, <2>1 DEF StSafe, StAgrees
  <2>. QED BY <1>1, <1>2, <2>1, <2>2, <2>3 DEF StSafe, StSolo
<1>. QED BY <1>3, <1>4 DEF StInv

LEMMA StRotateCrashInv == ASSUME StInv, StRotateCrash PROVE StInv'
<1>1. /\ UNCHANGED <<stRow, stServer, stDumps, stQueue, stJobs, stAsked>>
      /\ stTorn' = (stTorn \/ stWeb.pc = "commit") /\ stWeb' = [stWeb EXCEPT !.pc = "idle"]
  BY DEF StRotateCrash
<1>2. stWeb' \in [pc: {"idle", "grant", "commit"}, pw: Nat] /\ stWeb'.pc = "idle" /\ stTorn' \in BOOLEAN
  BY <1>1 DEF StInv, StTyped
<1>3. StTyped' /\ StUnborn' /\ StWanted'
  BY <1>1, <1>2 DEF StInv, StTyped, StUnborn, StWanted, StLeaving, StBusy
<1>4. ASSUME ~stTorn' PROVE StSafe'
  <2>1. StSafe /\ (StGood <=> StGood') /\ (StLeaving <=> StLeaving') /\ (StEmpty <=> StEmpty') /\ stWeb.pc # "commit"
    BY <1>1, <1>4 DEF StInv, StTyped, StGood, StLeaving, StBusy, StEmpty
  <2>2. StAgrees'
    BY <1>1, <1>2, <2>1 DEF StSafe, StAgrees
  <2>3. \A s \in StSlots: (StBusy(s) <=> StBusy(s)') /\ (StJobFine(s) <=> StJobFine(s)')
    BY <1>1, <2>1 DEF StBusy, StJobFine
  <2>. QED BY <1>1, <1>2, <2>1, <2>2, <2>3 DEF StSafe, StSolo
<1>. QED BY <1>3, <1>4 DEF StInv
------------------------------------------------------------------------------
(* Jobs. One that loads the row is alone, or the overlap is on record.       *)
LEMMA StLoadInv == ASSUME StInv, NEW s \in StSlots, NEW k \in StKinds, StLoad(s, k) PROVE StInv'
<1>. DEFINE row == IF k = "reset" THEN [stRow EXCEPT !.status = "resetting", !.error = "none"] ELSE stRow
            job == [job |-> k, pc |-> "work", seen |-> StSeen(k, row)]
<1>1. /\ UNCHANGED <<stServer, stDumps, stWeb, stAsked>>
      /\ ~StBusy(s) /\ stQueue[k] > 0 /\ stQueue' = [stQueue EXCEPT ![k] = stQueue[k] - 1]
      /\ \/ /\ stRow.status # "gone" /\ stRow' = row
            /\ stJobs' = [stJobs EXCEPT ![s] = job]
            /\ stTorn' = (stTorn \/ stWeb.pc # "idle" \/ \E o \in StSlots: StBusy(o))
         \/ stRow.status = "gone" /\ UNCHANGED <<stRow, stJobs, stTorn>>
  BY DEF StLoad, StFound, StBusy
<1>2. /\ row \in StRowType /\ row.pw = stRow.pw /\ row.last = stRow.last
      /\ k = "reset" => row.status = "resetting"
      /\ k # "reset" => row = stRow
  BY DEF StInv, StTyped, StRowType, StStatuses, StErrors
<1>3. job \in StJobType /\ job.pc = "work" /\ job.job = k /\ (k # "deprovision" => job.seen.pw = stRow.pw)
  BY <1>2, StSeenType, ZenonT(60) DEF StJobType
<1>. HIDE DEF row, job
<1>4. stQueue' \in [StKinds -> Nat] /\ \A o \in StKinds: stQueue'[o] = IF o = k THEN stQueue[o] - 1 ELSE stQueue[o]
  BY <1>1 DEF StInv, StTyped
<1>5. stRow.status # "none"
  BY <1>1 DEF StInv, StUnborn
<1>6. CASE stRow.status = "gone" /\ UNCHANGED <<stRow, stJobs, stTorn>>
  <2>1. StTyped' /\ StUnborn'
    BY <1>1, <1>4, <1>5, <1>6 DEF StInv, StTyped, StUnborn, StBusy
  <2>2. StWanted'
    BY <1>1, <1>4, <1>6 DEF StInv, StTyped, StWanted, StLeaving, StBusy, StKinds
  <2>3. ASSUME ~stTorn' PROVE StSafe'
    <3>1. StSafe /\ (StGood <=> StGood')
      BY <1>1, <1>6, <2>3 DEF StInv, StGood
    <3>2. StAgrees'
      BY <1>6 DEF StAgrees
    <3>. QED BY <1>1, <1>6, <3>1, <3>2 DEF StSafe, StSolo, StEmpty, StBusy
  <2>. QED BY <2>1, <2>2, <2>3 DEF StInv
<1>7. CASE /\ stRow.status # "gone" /\ stRow' = row
           /\ stJobs' = [stJobs EXCEPT ![s] = job]
           /\ stTorn' = (stTorn \/ stWeb.pc # "idle" \/ \E o \in StSlots: StBusy(o))
  <2>1. \A o \in StSlots: stJobs'[o] = IF o = s THEN job ELSE stJobs[o]
    BY <1>7 DEF StInv, StTyped
  <2>2. StTyped'
    <3>1. stTorn' \in BOOLEAN
      BY <1>7 DEF StInv, StTyped
    <3>. QED BY <1>1, <1>2, <1>3, <1>4, <1>7, <2>1, <3>1 DEF StInv, StTyped, StBusy
  <2>3. row.status # "none" /\ row.status # "gone"
    BY <1>2, <1>5, <1>7
  <2>4. StUnborn'
    BY <1>7, <2>3 DEF StUnborn
  <2>5. StWanted'
    BY <1>1, <1>3, <1>4, <2>1 DEF StInv, StTyped, StWanted, StLeaving, StBusy, StKinds
  <2>6. ASSUME ~stTorn' PROVE StSafe'
    <3>1. StSafe /\ (StGood <=> StGood') /\ stWeb.pc = "idle" /\ \A o \in StSlots: ~StBusy(o)
      BY <1>1, <1>7, <2>6 DEF StInv, StGood
    <3>2. \A o \in StSlots: StBusy(o)' => o = s
      BY <2>1, <3>1 DEF StBusy
    <3>3. StJobFine(s)'
      BY <1>2, <1>3, <1>7, <2>1 DEF StJobFine
    <3>4. StAgrees'
      <4>1. SUFFICES ASSUME stRow'.status = "active", stRow'.error = "none", ~StLeaving'
                     PROVE  stServer'.db /\ stServer'.pw = IF stWeb'.pc = "commit" THEN stWeb'.pw ELSE stRow'.pw
        BY DEF StAgrees
      <4>2. k # "reset" /\ stRow' = stRow
        BY <1>2, <1>7, <4>1
      <4>3. k # "deprovision"
        BY <1>3, <2>1, <4>1 DEF StLeaving, StBusy
      <4>4. stQueue["deprovision"] = stQueue'["deprovision"]
        BY <1>4, <4>3 DEF StKinds
      <4>5. ~StLeaving
        BY <3>1, <4>1, <4>4 DEF StLeaving
      <4>. QED BY <1>1, <3>1, <4>1, <4>2, <4>5 DEF StSafe, StAgrees
    <3>. QED BY <1>1, <1>2, <1>7, <2>3, <3>1, <3>2, <3>3, <3>4 DEF StSafe, StSolo
  <2>. QED BY <2>2, <2>4, <2>5, <2>6 DEF StInv
<1>. QED BY <1>1, <1>6, <1>7

(* A job goes on: what it changes on the server and of the files.            *)
LEMMA StWorkInv ==
  ASSUME StInv, NEW s \in StSlots, StBusy(s), NEW pc \in {"dump", "commit", "fail"}, StGoto(s, pc),
         UNCHANGED <<stRow, stQueue, stWeb, stTorn, stAsked>>,
         stServer' \in [db: BOOLEAN, pw: Nat], stDumps' \in Seq(StFiles),
         ~stTorn /\ StSafe => StJobFine(s)' /\ StAgrees' /\ (StGood => stAsked \/ StGood')
  PROVE  StInv'
<1>. DEFINE job == [stJobs[s] EXCEPT !.pc = pc]
<1>1. stJobs' = [stJobs EXCEPT ![s] = job]
  BY DEF StGoto
<1>2. job \in StJobType /\ job.pc # "idle" /\ job.job = stJobs[s].job
  BY DEF StInv, StTyped, StJobType
<1>. HIDE DEF job
<1>3. \A o \in StSlots: stJobs'[o] = IF o = s THEN job ELSE stJobs[o]
  BY <1>1 DEF StInv, StTyped
<1>4. \A o \in StSlots: StBusy(o)' <=> StBusy(o)
  BY <1>2, <1>3 DEF StBusy
<1>5. StTyped'
  BY <1>1, <1>2, <1>3, <1>4 DEF StInv, StTyped
<1>6. StUnborn' /\ StWanted'
  BY <1>2, <1>3, <1>4 DEF StInv, StUnborn, StWanted, StLeaving
<1>7. ASSUME ~stTorn' PROVE StSafe'
  <2>1. StSafe
    BY <1>7 DEF StInv
  <2>2. stRow.status # "gone"
    BY <2>1 DEF StSafe
  <2>3. StSolo'
    BY <1>4, <2>1 DEF StSafe, StSolo
  <2>4. \A o \in StSlots: StBusy(o)' => o = s
    BY <1>4, <2>1 DEF StSafe, StSolo
  <2>. QED BY <1>7, <2>1, <2>2, <2>3, <2>4 DEF StSafe
<1>. QED BY <1>5, <1>6, <1>7 DEF StInv

(* The job at work, and how its state looks after the step.                  *)
LEMMA StGoing ==
  ASSUME StTyped, NEW s \in StSlots, NEW pc, StGoto(s, pc)
  PROVE  /\ stJobs'[s].pc = pc /\ stJobs'[s].job = stJobs[s].job /\ stJobs'[s].seen = stJobs[s].seen
         /\ stJobs[s] \in StJobType
BY DEF StTyped, StGoto, StJobType

(* A job that is not "deprovision", alone, is not waiting for one to end.    *)
LEMMA StAgreesKept ==
  ASSUME StTyped, StAgrees, NEW s \in StSlots, NEW pc, pc # "idle", StBusy(s), StGoto(s, pc),
         UNCHANGED <<stRow, stQueue, stWeb, stServer>>
  PROVE  StAgrees'
<1>1. \A o \in StSlots: stJobs'[o] = IF o = s THEN [stJobs[s] EXCEPT !.pc = pc] ELSE stJobs[o]
  BY DEF StTyped, StGoto
<1>2. stJobs'[s].pc = pc /\ stJobs'[s].job = stJobs[s].job
  BY StGoing
<1>3. StLeaving => StLeaving'
  BY <1>1, <1>2 DEF StLeaving, StBusy
<1>. QED BY <1>3 DEF StAgrees

LEMMA StProvisionInv == ASSUME StInv, NEW s \in StSlots, StProvision(s) PROVE StInv'
<1>1. /\ UNCHANGED <<stRow, stQueue, stWeb, stTorn, stAsked, stDumps>>
      /\ stJobs[s].job = "provision" /\ stJobs[s].pc = "work"
      /\ \/ stServer' = [db |-> TRUE, pw |-> stJobs[s].seen.pw] /\ StGoto(s, "commit")
         \/ UNCHANGED stServer /\ StGoto(s, "fail")
  BY DEF StProvision, StAt, StEnsured
<1>2. PICK pc \in {"commit", "fail"}:
           /\ StGoto(s, pc)
           /\ \/ pc = "commit" /\ stServer' = [db |-> TRUE, pw |-> stJobs[s].seen.pw]
              \/ pc = "fail" /\ UNCHANGED stServer
  BY <1>1
<1>3. /\ stJobs'[s].pc = pc /\ stJobs'[s].job = "provision" /\ stJobs'[s].seen = stJobs[s].seen
      /\ stJobs[s].seen.pw \in Nat
  BY <1>1, <1>2, StGoing DEF StInv, StJobType
<1>4. stServer' \in [db: BOOLEAN, pw: Nat] /\ stDumps' \in Seq(StFiles)
  <2>1. stServer' \in [db: BOOLEAN, pw: Nat]
    <3>1. [db |-> TRUE, pw |-> stJobs[s].seen.pw] \in [db: BOOLEAN, pw: Nat]
      BY <1>3
    <3>2. stServer \in [db: BOOLEAN, pw: Nat] /\ [stServer EXCEPT !.db = FALSE] \in [db: BOOLEAN, pw: Nat]
      BY DEF StInv, StTyped
    <3>. QED BY <1>2, <3>1, <3>2
  <2>. QED BY <1>1, <2>1 DEF StInv, StTyped
<1>5. StBusy(s)
  BY <1>1 DEF StBusy
<1>6. ASSUME ~stTorn, StSafe PROVE StJobFine(s)' /\ StAgrees' /\ (StGood => StGood')
  <2>1. StJobFine(s) /\ stWeb.pc = "idle" /\ StAgrees
    BY <1>5, <1>6 DEF StSafe, StSolo
  <2>2. StJobFine(s)'
    BY <1>1, <1>2, <1>3, <2>1 DEF StJobFine
  <2>3. StAgrees'
    <3>1. CASE pc = "commit"
      BY <1>1, <1>2, <2>1, <3>1 DEF StAgrees, StJobFine
    <3>2. CASE pc = "fail"
      BY <1>1, <1>2, <1>5, <2>1, <3>2, StAgreesKept DEF StInv
    <3>. QED BY <3>1, <3>2
  <2>. QED BY <1>1, <2>2, <2>3 DEF StGood
<1>. QED BY <1>1, <1>2, <1>4, <1>5, <1>6, StWorkInv

LEMMA StResetInv == ASSUME StInv, NEW s \in StSlots, StReset(s) PROVE StInv'
<1>1. /\ UNCHANGED <<stRow, stQueue, stWeb, stTorn, stAsked, stDumps>>
      /\ stJobs[s].job = "reset" /\ stJobs[s].pc = "work"
      /\ \/ stServer' = [db |-> TRUE, pw |-> stJobs[s].seen.pw] /\ StGoto(s, "commit")
         \/ stServer' \in {stServer, [stServer EXCEPT !.db = FALSE]} /\ StGoto(s, "fail")
  BY DEF StReset, StAt, StEnsured, StDropped
<1>2. PICK pc \in {"commit", "fail"}:
           /\ StGoto(s, pc)
           /\ \/ pc = "commit" /\ stServer' = [db |-> TRUE, pw |-> stJobs[s].seen.pw]
              \/ pc = "fail" /\ stServer' \in {stServer, [stServer EXCEPT !.db = FALSE]}
  BY <1>1
<1>3. /\ stJobs'[s].pc = pc /\ stJobs'[s].job = "reset" /\ stJobs'[s].seen = stJobs[s].seen
      /\ stJobs[s].seen.pw \in Nat
  BY <1>1, <1>2, StGoing DEF StInv, StJobType
<1>4. stServer' \in [db: BOOLEAN, pw: Nat] /\ stDumps' \in Seq(StFiles)
  <2>1. stServer' \in [db: BOOLEAN, pw: Nat]
    <3>1. [db |-> TRUE, pw |-> stJobs[s].seen.pw] \in [db: BOOLEAN, pw: Nat]
      BY <1>3
    <3>2. stServer \in [db: BOOLEAN, pw: Nat] /\ [stServer EXCEPT !.db = FALSE] \in [db: BOOLEAN, pw: Nat]
      BY DEF StInv, StTyped
    <3>. QED BY <1>2, <3>1, <3>2
  <2>. QED BY <1>1, <2>1 DEF StInv, StTyped
<1>5. StBusy(s)
  BY <1>1 DEF StBusy
<1>6. ASSUME ~stTorn, StSafe PROVE StJobFine(s)' /\ StAgrees' /\ (StGood => StGood')
  <2>1. StJobFine(s)
    BY <1>5, <1>6 DEF StSafe
  <2>2. StJobFine(s)'
    BY <1>1, <1>2, <1>3, <2>1 DEF StJobFine
  <2>3. StAgrees'
    BY <1>1, <2>1 DEF StAgrees, StJobFine
  <2>. QED BY <1>1, <2>2, <2>3 DEF StGood
<1>. QED BY <1>1, <1>2, <1>4, <1>5, <1>6, StWorkInv

(* Everything goes, or the job fails and is tried again or given up.         *)
LEMMA StDeprovisionInv == ASSUME StInv, NEW s \in StSlots, StDeprovision(s) PROVE StInv'
<1>1. /\ UNCHANGED <<stRow, stQueue, stWeb, stTorn, stAsked>>
      /\ stJobs[s].job = "deprovision" /\ stJobs[s].pc = "work"
      /\ \/ stServer' = [db |-> FALSE, pw |-> 0] /\ stDumps' = <<>> /\ StGoto(s, "commit")
         \/ stServer' \in {stServer, [stServer EXCEPT !.db = FALSE]} /\ UNCHANGED stDumps /\ StGoto(s, "fail")
  BY DEF StDeprovision, StAt, StDropped
<1>2. PICK pc \in {"commit", "fail"}:
           /\ StGoto(s, pc)
           /\ \/ pc = "commit" /\ stServer' = [db |-> FALSE, pw |-> 0] /\ stDumps' = <<>>
              \/ pc = "fail" /\ stServer' \in {stServer, [stServer EXCEPT !.db = FALSE]} /\ UNCHANGED stDumps
  BY <1>1
<1>3. stJobs'[s].pc = pc /\ stJobs'[s].job = "deprovision"
  BY <1>1, <1>2, StGoing DEF StInv
<1>4. stServer' \in [db: BOOLEAN, pw: Nat] /\ stDumps' \in Seq(StFiles)
  <2>1. stServer' \in [db: BOOLEAN, pw: Nat]
    <3>1. [db |-> FALSE, pw |-> 0] \in [db: BOOLEAN, pw: Nat]
      OBVIOUS
    <3>2. stServer \in [db: BOOLEAN, pw: Nat] /\ [stServer EXCEPT !.db = FALSE] \in [db: BOOLEAN, pw: Nat]
      BY DEF StInv, StTyped
    <3>. QED BY <1>2, <3>1, <3>2
  <2>2. stDumps' = <<>> \/ stDumps' = stDumps
    BY <1>2
  <2>. QED BY <2>1, <2>2, EmptySeq, ZenonT(60) DEF StInv, StTyped
<1>5. StBusy(s) /\ StBusy(s)'
  BY <1>1, <1>3 DEF StBusy
<1>6. stAsked
  BY <1>1, <1>5 DEF StInv, StWanted, StLeaving
<1>7. StJobFine(s)'
  BY <1>2, <1>3 DEF StJobFine, StEmpty
<1>8. StAgrees'
  BY <1>3, <1>5 DEF StAgrees, StLeaving
<1>. QED BY <1>1, <1>2, <1>4, <1>5, <1>6, <1>7, <1>8, StWorkInv

LEMMA StDumpStartInv == ASSUME StInv, NEW s \in StSlots, StDumpStart(s) PROVE StInv'
<1>1. /\ UNCHANGED <<stRow, stServer, stQueue, stWeb, stTorn, stAsked>>
      /\ stJobs[s].job = "backup" /\ stJobs[s].pc = "work"
      /\ \/ stDumps' = <<s>> \o stDumps /\ StGoto(s, "dump")
         \/ UNCHANGED stDumps /\ StGoto(s, "fail")
  BY DEF StDumpStart, StAt
<1>2. PICK pc \in {"dump", "fail"}:
           /\ StGoto(s, pc)
           /\ \/ pc = "dump" /\ stDumps' = <<s>> \o stDumps
              \/ pc = "fail" /\ UNCHANGED stDumps
  BY <1>1
<1>3. stJobs'[s].pc = pc /\ stJobs'[s].job = "backup" /\ stJobs'[s].seen = stJobs[s].seen
  BY <1>1, <1>2, StGoing DEF StInv
<1>4. /\ stServer' \in [db: BOOLEAN, pw: Nat] /\ stDumps' \in Seq(StFiles)
      /\ pc = "dump" => stDumps' # <<>> /\ stDumps'[1] = s
      /\ StGood => StGood'
  <2>1. stServer' \in [db: BOOLEAN, pw: Nat]
    BY <1>1 DEF StInv, StTyped
  <2>2. CASE pc = "dump"
    BY <1>2, <2>1, <2>2, StOpenedFiles, ZenonT(60) DEF StInv, StGood
  <2>3. CASE pc = "fail"
    BY <1>2, <2>1, <2>3 DEF StInv, StTyped, StGood
  <2>. QED BY <2>2, <2>3
<1>5. StBusy(s)
  BY <1>1 DEF StBusy
<1>6. ASSUME ~stTorn, StSafe PROVE StJobFine(s)' /\ StAgrees'
  <2>1. StJobFine(s) /\ StAgrees
    BY <1>5, <1>6 DEF StSafe
  <2>2. StJobFine(s)'
    BY <1>1, <1>2, <1>3, <1>4, <2>1 DEF StJobFine
  <2>3. StAgrees'
    BY <1>1, <1>2, <1>5, <2>1, StAgreesKept DEF StInv
  <2>. QED BY <2>2, <2>3
<1>. QED BY <1>1, <1>2, <1>4, <1>5, <1>6, StWorkInv

(* Nobody opened a file after this dump's, so pruning keeps it.              *)
LEMMA StDumpInv == ASSUME StInv, NEW s \in StSlots, StDump(s) PROVE StInv'
<1>1. /\ UNCHANGED <<stRow, stServer, stQueue, stWeb, stTorn, stAsked>>
      /\ stJobs[s].job = "backup" /\ stJobs[s].pc = "dump"
      /\ \/ stDumps' = StPruned(StDumped(s, "good")) /\ StGoto(s, "commit")
         \/ stDumps' = StDumped(s, "partial") /\ StGoto(s, "fail")
  BY DEF StDump, StAt
<1>2. PICK pc \in {"commit", "fail"}:
           /\ StGoto(s, pc)
           /\ \/ pc = "commit" /\ stDumps' = StPruned(StDumped(s, "good"))
              \/ pc = "fail" /\ stDumps' = StDumped(s, "partial")
  BY <1>1
<1>3. stJobs'[s].pc = pc /\ stJobs'[s].job = "backup" /\ stJobs'[s].seen = stJobs[s].seen
  BY <1>1, <1>2, StGoing DEF StInv
<1>4. StDumped(s, "good") \in Seq(StFiles) /\ StDumped(s, "partial") \in Seq(StFiles)
  BY StDumpedFiles DEF StInv
<1>5. stDumps' \in Seq(StFiles) /\ stServer' \in [db: BOOLEAN, pw: Nat]
  <2>1. CASE StDumped(s, "good") = <<>>
    <3>1. StPruned(<<>>) = <<>>
      BY StAssumption, EmptySeq, SubSeqEmpty DEF StPruned
    <3>. QED BY <1>1, <1>2, <1>4, <2>1, <3>1 DEF StInv, StTyped
  <2>2. CASE StDumped(s, "good") # <<>>
    BY <1>1, <1>2, <1>4, <2>2, StPrunedFiles DEF StInv, StTyped
  <2>. QED BY <2>1, <2>2
<1>6. StBusy(s)
  BY <1>1 DEF StBusy
<1>7. ASSUME ~stTorn, StSafe PROVE StJobFine(s)' /\ StAgrees' /\ (StGood => StGood')
  <2>1. StJobFine(s) /\ StAgrees
    BY <1>6, <1>7 DEF StSafe
  <2>2. stDumps # <<>> /\ stDumps[1] = s /\ stDumps \in Seq(StFiles)
    BY <1>1, <2>1 DEF StJobFine, StInv, StTyped
  <2>3. Len(stDumps) \in Nat \ {0} /\ DOMAIN stDumps = 1..Len(stDumps)
    BY <2>2, EmptySeq, LenProperties
  <2>4. CASE pc = "commit"
    <3>1. StDumped(s, "good")[1] = "good"
      BY <2>2, <2>3, StDumpedFiles DEF StInv
    <3>2. StDumped(s, "good") # <<>>
      BY <2>3, EmptySeq, StDumpedFiles DEF StInv
    <3>3. StGood'
      BY <1>2, <1>4, <2>4, <3>1, <3>2, StPrunedFiles DEF StGood
    <3>4. StJobFine(s)'
      BY <1>1, <1>2, <1>3, <2>1, <2>4, <3>3 DEF StJobFine
    <3>. QED BY <1>1, <1>2, <1>6, <2>1, <3>3, <3>4, StAgreesKept DEF StInv
  <2>5. CASE pc = "fail"
    <3>1. ASSUME NEW i \in DOMAIN stDumps, stDumps[i] = "good" PROVE StGood'
      <4>1. StDumped(s, "partial")[i] = "good"
        BY <2>3, <3>1, StAssumption, StDumpedFiles DEF StInv
      <4>2. DOMAIN StDumped(s, "partial") = DOMAIN stDumps
        BY DEF StDumped
      <4>. QED BY <1>2, <2>5, <4>1, <4>2 DEF StGood
    <3>2. StJobFine(s)'
      BY <1>1, <1>2, <1>3, <2>1, <2>5 DEF StJobFine
    <3>. QED BY <1>1, <1>2, <1>6, <2>1, <3>1, <3>2, StAgreesKept DEF StInv, StGood
  <2>. QED BY <2>4, <2>5
<1>. QED BY <1>1, <1>2, <1>5, <1>6, <1>7, StWorkInv

(* A job that ends leaves nobody busy, or the overlap is on record.          *)
LEMMA StEndInv ==
  ASSUME StInv, NEW s \in StSlots, StBusy(s), stJobs' = [stJobs EXCEPT ![s] = StIdle],
         UNCHANGED <<stServer, stDumps, stQueue, stWeb, stTorn, stAsked>>,
         stRow' \in StRowType, stRow'.status # "none",
         ~stTorn /\ StSafe =>
            /\ stRow'.status = "active" /\ stRow'.error = "none" /\ stQueue["deprovision"] = 0
                  => stServer.db /\ stServer.pw = stRow'.pw
            /\ stRow'.status = "gone" => StEmpty
            /\ stRow'.last = "ok" => stAsked \/ StGood
  PROVE  StInv'
<1>1. \A o \in StSlots: stJobs'[o] = IF o = s THEN StIdle ELSE stJobs[o]
  BY DEF StInv, StTyped
<1>2. \A o \in StSlots: StBusy(o)' <=> StBusy(o) /\ o # s
  BY <1>1, StIdleType DEF StBusy
<1>3. StTyped'
  BY <1>1, <1>2, StIdleType DEF StInv, StTyped
<1>4. StUnborn' /\ StWanted'
  BY <1>1, <1>2 DEF StInv, StUnborn, StWanted, StLeaving
<1>5. ASSUME ~stTorn' PROVE StSafe'
  <2>1. StSafe /\ (StGood <=> StGood') /\ stWeb'.pc = "idle" /\ (StEmpty <=> StEmpty')
    BY <1>5 DEF StInv, StSafe, StSolo, StGood, StEmpty
  <2>2. \A o \in StSlots: ~StBusy(o)'
    BY <1>2, <2>1 DEF StSafe, StSolo
  <2>3. StAgrees'
    BY <1>5, <2>1 DEF StAgrees, StLeaving, StInv, StTyped, StKinds
  <2>. QED BY <1>5, <2>1, <2>2, <2>3 DEF StSafe, StSolo
<1>. QED BY <1>3, <1>4, <1>5 DEF StInv

LEMMA StCommitInv == ASSUME StInv, NEW s \in StSlots, StCommit(s) PROVE StInv'
<1>. DEFINE job == stJobs[s]
<1>1. /\ stJobs' = [stJobs EXCEPT ![s] = StIdle]
      /\ UNCHANGED <<stServer, stDumps, stQueue, stWeb, stTorn, stAsked>>
      /\ job.pc = "commit" /\ StBusy(s) /\ job.job \in StKinds /\ job \in StJobType
      /\ stRow \in StRowType
      /\ stRow' = StCommitted(s)
  BY DEF StCommit, StBusy, StInv, StTyped
<1>2. stRow.status # "none"
  BY <1>1 DEF StInv, StUnborn
<1>3. CASE stRow.status = "gone"
  <2>1. stRow' = stRow
    BY <1>1, <1>3 DEF StCommitted
  <2>2. ~stTorn => ~StSafe
    BY <1>1, <1>3 DEF StSafe
  <2>. QED BY <1>1, <1>2, <2>1, <2>2, StEndInv
<1>4. CASE stRow.status # "gone" /\ job.job \in {"provision", "reset"}
  <2>1. stRow' = [stRow EXCEPT !.status = StWrite(job.seen, "status", "active", stRow),
                               !.error = StWrite(job.seen, "error", "none", stRow)]
    BY <1>1, <1>4 DEF StCommitted
  <2>2. /\ StWrite(job.seen, "status", "active", stRow) \in {"active", stRow.status}
        /\ StWrite(job.seen, "error", "none", stRow) \in {"none", stRow.error}
    BY DEF StWrite
  <2>3. /\ stRow' \in StRowType /\ stRow'.status \in {"active", stRow.status}
        /\ stRow'.pw = stRow.pw /\ stRow'.last = stRow.last
    BY <1>1, <2>1, <2>2 DEF StRowType, StStatuses, StErrors
  <2>4. ~stTorn /\ StSafe => stServer.db /\ stServer.pw = stRow.pw
    BY <1>1, <1>4 DEF StSafe, StJobFine
  <2>5. ~stTorn /\ StSafe => (stRow.last = "ok" => stAsked \/ StGood)
    BY DEF StSafe
  <2>. QED BY <1>1, <1>2, <1>4, <2>3, <2>4, <2>5, StEndInv
<1>5. CASE stRow.status # "gone" /\ job.job = "deprovision"
  <2>1. stRow' = [stRow EXCEPT !.status = "gone", !.pw = 0]
    BY <1>1, <1>5 DEF StCommitted
  <2>2. stRow' \in StRowType /\ stRow'.status = "gone" /\ stRow'.last = stRow.last
    <3>1. stRow \in StRowType
      BY <1>1
    <3>. QED BY <2>1, <3>1 DEF StRowType, StStatuses
  <2>3. ~stTorn /\ StSafe => StEmpty /\ (stRow.last = "ok" => stAsked \/ StGood)
    BY <1>1, <1>5 DEF StSafe, StJobFine
  <2>. QED BY <1>1, <2>2, <2>3, StEndInv
<1>6. CASE stRow.status # "gone" /\ job.job = "backup"
  <2>1. stRow' = [stRow EXCEPT !.enabled = job.seen.enabled, !.last = "ok"]
    BY <1>1, <1>6 DEF StCommitted
  <2>2. /\ stRow' \in StRowType /\ stRow'.status = stRow.status /\ stRow'.error = stRow.error
        /\ stRow'.pw = stRow.pw
    BY <1>1, <2>1 DEF StRowType, StJobType
  <2>3. ASSUME ~stTorn, StSafe
        PROVE  /\ stAsked \/ StGood
               /\ stRow.status = "active" /\ stRow.error = "none" /\ stQueue["deprovision"] = 0
                    => stServer.db /\ stServer.pw = stRow.pw
    <3>1. stAsked \/ StGood
      BY <1>1, <1>6, <2>3 DEF StSafe, StJobFine
    <3>2. stQueue["deprovision"] = 0 => ~StLeaving
      BY <1>1, <1>6, <2>3 DEF StSafe, StSolo, StLeaving
    <3>3. stWeb.pc = "idle"
      BY <1>1, <2>3 DEF StSafe, StSolo, StInv, StTyped
    <3>. QED BY <2>3, <3>1, <3>2, <3>3 DEF StSafe, StAgrees
  <2>. QED BY <1>1, <1>2, <1>6, <2>2, <2>3, StEndInv
<1>. QED BY <1>1, <1>3, <1>4, <1>5, <1>6 DEF StKinds

LEMMA StFailInv == ASSUME StInv, NEW s \in StSlots, StFail(s) PROVE StInv'
<1>. DEFINE job == stJobs[s]
<1>1. /\ stJobs' = [stJobs EXCEPT ![s] = StIdle]
      /\ UNCHANGED <<stServer, stDumps, stQueue, stWeb, stTorn, stAsked>>
      /\ job.pc = "fail" /\ StBusy(s) /\ job.job \in StKinds /\ job \in StJobType
      /\ stRow \in StRowType
      /\ stRow' = StFailed(s)
  BY DEF StFail, StBusy, StInv, StTyped
<1>2. stRow.status # "none"
  BY <1>1 DEF StInv, StUnborn
<1>3. CASE stRow.status = "gone"
  <2>1. stRow' = stRow
    BY <1>1, <1>3 DEF StFailed
  <2>2. ~stTorn => ~StSafe
    BY <1>1, <1>3 DEF StSafe
  <2>. QED BY <1>1, <1>2, <2>1, <2>2, StEndInv
<1>4. CASE stRow.status # "gone" /\ job.job = "backup"
  <2>1. stRow' = [stRow EXCEPT !.enabled = job.seen.enabled, !.last = "failed"]
    BY <1>1, <1>4 DEF StFailed
  <2>2. /\ stRow' \in StRowType /\ stRow'.status = stRow.status /\ stRow'.error = stRow.error
        /\ stRow'.pw = stRow.pw /\ stRow'.last = "failed"
    BY <1>1, <2>1 DEF StRowType, StJobType
  <2>3. ASSUME ~stTorn, StSafe
        PROVE  stRow.status = "active" /\ stRow.error = "none" /\ stQueue["deprovision"] = 0
                 => stServer.db /\ stServer.pw = stRow.pw
    <3>1. stQueue["deprovision"] = 0 => ~StLeaving
      BY <1>1, <1>4, <2>3 DEF StSafe, StSolo, StLeaving
    <3>2. stWeb.pc = "idle"
      BY <1>1, <2>3 DEF StSafe, StSolo, StInv, StTyped
    <3>. QED BY <2>3, <3>1, <3>2 DEF StSafe, StAgrees
  <2>. QED BY <1>1, <1>2, <1>4, <2>2, <2>3, StEndInv
<1>5. CASE stRow.status # "gone" /\ job.job # "backup"
  <2>1. \/ stRow' = [stRow EXCEPT !.status = "active", !.error = "reset"]
        \/ job.job \in {"provision", "deprovision"} /\ stRow' = [stRow EXCEPT !.error = job.job]
    BY <1>1, <1>5 DEF StFailed, StKinds
  <2>2. /\ stRow' \in StRowType /\ stRow'.error # "none" /\ stRow'.status \in {"active", stRow.status}
        /\ stRow'.last = stRow.last
    BY <1>1, <2>1 DEF StRowType, StStatuses, StErrors
  <2>3. ~stTorn /\ StSafe => (stRow.last = "ok" => stAsked \/ StGood)
    BY DEF StSafe
  <2>. QED BY <1>1, <1>2, <1>5, <2>2, <2>3, StEndInv
<1>. QED BY <1>3, <1>4, <1>5

(* The job is queued again, or lost for good.                                *)
LEMMA StInterruptInv == ASSUME StInv, NEW s \in StSlots, StInterrupt(s) PROVE StInv'
<1>. DEFINE k == stJobs[s].job
<1>1. /\ UNCHANGED <<stRow, stServer, stWeb, stAsked>>
      /\ StBusy(s) /\ stDumps' = StDumped(s, "partial") /\ stJobs' = [stJobs EXCEPT ![s] = StIdle]
      /\ \/ stQueue' = [stQueue EXCEPT ![k] = stQueue[k] + 1] /\ UNCHANGED stTorn
         \/ stTorn' = TRUE /\ UNCHANGED stQueue
      /\ k \in StKinds
  BY DEF StInterrupt, StBusy, StInv, StTyped
<1>2. \A o \in StSlots: stJobs'[o] = IF o = s THEN StIdle ELSE stJobs[o]
  BY <1>1 DEF StInv, StTyped
<1>3. \A o \in StSlots: StBusy(o)' <=> StBusy(o) /\ o # s
  BY <1>2, StIdleType DEF StBusy
<1>4. stDumps' \in Seq(StFiles)
  BY <1>1, StDumpedFiles DEF StInv
<1>5. stTorn' \in BOOLEAN
  BY <1>1 DEF StInv, StTyped
<1>6. stQueue' \in [StKinds -> Nat]
  BY <1>1 DEF StInv, StTyped
<1>7. StTyped'
  BY <1>1, <1>2, <1>3, <1>4, <1>5, <1>6, StIdleType DEF StInv, StTyped
<1>8. StUnborn'
  BY <1>1 DEF StInv, StUnborn
<1>9. StLeaving' => StLeaving
  BY <1>1, <1>2, <1>3 DEF StLeaving, StInv, StTyped, StKinds
<1>10. StWanted'
  BY <1>1, <1>9 DEF StInv, StWanted
<1>11. ASSUME ~stTorn' PROVE StSafe'
  <2>1. ~stTorn /\ StSafe /\ stQueue' = [stQueue EXCEPT ![k] = stQueue[k] + 1]
    BY <1>1, <1>11 DEF StInv
  <2>2. \A o \in StSlots: ~StBusy(o)'
    BY <1>1, <1>3, <2>1 DEF StSafe, StSolo
  <2>3. StLeaving => StLeaving'
    <3>1. stQueue'[k] > 0 /\ (stQueue["deprovision"] > 0 => stQueue'["deprovision"] > 0)
      BY <1>1, <2>1 DEF StInv, StTyped, StKinds
    <3>. QED BY <1>1, <2>1, <3>1 DEF StLeaving, StSafe, StSolo
  <2>4. StAgrees'
    BY <1>1, <2>1, <2>3 DEF StSafe, StAgrees
  <2>5. stRow.status # "gone"
    BY <1>1, <2>1 DEF StSafe
  <2>6. ASSUME StGood PROVE StGood'
    <3>1. PICK i \in DOMAIN stDumps: stDumps[i] = "good"
      BY <2>6 DEF StGood
    <3>2. DOMAIN stDumps = 1..Len(stDumps) /\ DOMAIN StDumped(s, "partial") = DOMAIN stDumps
      BY LenProperties DEF StInv, StTyped, StDumped
    <3>3. StDumped(s, "partial")[i] = "good"
      BY <3>1, <3>2, StAssumption, StDumpedFiles DEF StInv
    <3>. QED BY <1>1, <3>1, <3>2, <3>3 DEF StGood
  <2>. QED BY <1>1, <2>1, <2>2, <2>4, <2>5, <2>6 DEF StSafe, StSolo
<1>. QED BY <1>7, <1>8, <1>10, <1>11 DEF StInv

LEMMA StIdleInv == ASSUME StInv, UNCHANGED stVars PROVE StInv'
BY DEF stVars, StInv, StTyped, StUnborn, StWanted, StSafe, StSolo, StAgrees, StLeaving, StJobFine, StGood, StEmpty, StBusy

LEMMA StStepInv == StInv /\ [StNext]_stVars => StInv'
<1>. SUFFICES ASSUME StInv, [StNext]_stVars PROVE StInv'
  OBVIOUS
<1>1. ASSUME NEW t \in StTypes, StCreate(t) PROVE StInv'
  BY <1>1, StCreateInv
<1>2. CASE StRetry \/ StResetRequest \/ StDeleteRequest \/ StBackupSettings
  BY <1>2, StRetryInv, StResetRequestInv, StDeleteRequestInv, StBackupSettingsInv
<1>3. CASE StRotate \/ StRotateServer \/ StRotateCommit \/ StRotateCrash
  BY <1>3, StRotateInv, StRotateServerInv, StRotateCommitInv, StRotateCrashInv
<1>4. CASE StBackupEnqueue \/ StSchedule
  BY <1>4, StBackupEnqueueInv DEF StSchedule
<1>5. ASSUME NEW s \in StSlots, StStep(s) \/ StInterrupt(s) PROVE StInv'
  BY <1>5, StLoadInv, StProvisionInv, StResetInv, StDeprovisionInv, StDumpStartInv, StDumpInv, StCommitInv,
     StFailInv, StInterruptInv DEF StStep
<1>6. CASE UNCHANGED stVars
  BY <1>6, StIdleInv
<1>. QED BY <1>1, <1>2, <1>3, <1>4, <1>5, <1>6 DEF StNext

LEMMA StInvariant == StSpec => []StInv
BY StInitInv, StStepInv, PTL DEF StSpec

LEMMA StQuietIdle == StQuiet => (\A s \in StSlots: ~StBusy(s)) /\ stWeb.pc = "idle" /\ stQueue["deprovision"] = 0
BY DEF StQuiet, StBusy, StKinds

(* The stored password opens the database of every active storage once       *)
(* nothing is under way, after any rotations, resets, retries and failures.  *)
THEOREM StPasswordAgreesHolds == StSpec => []StPasswordAgrees
<1>1. StInv => StPasswordAgrees
  BY StQuietIdle DEF StInv, StSafe, StAgrees, StLeaving, StPasswordAgrees
<1>. QED BY <1>1, StInvariant, PTL

(* A storage that is gone left nothing on the server or the disk.            *)
THEOREM StNothingLeftHolds == StSpec => []StNothingLeft
<1>1. StInv => StNothingLeft
  BY DEF StInv, StSafe, StEmpty, StNothingLeft
<1>. QED BY <1>1, StInvariant, PTL

(* Pruning leaves a complete backup once one was recorded.                   *)
THEOREM StGoodKeptHolds == StSpec => []StGoodKept
<1>1. StInv => StGoodKept
  BY DEF StInv, StSafe, StGood, StGoodKept
<1>. QED BY <1>1, StInvariant, PTL
-------------------------------------------------------------------------------
(* Storage: what is left of a deletion. This is the part of StDeletionDone    *)
(* that does not depend on fairness.                                          *)

(* A deletion somebody asked for is queued or running until the storage is    *)
(* gone, whatever other jobs write over its row meanwhile; unless a server,   *)
(* Redis or a process failed.                                                 *)
StDeletionOwed == stAsked => stRow.status = "gone" \/ StLeaving \/ stFaults < StMaxFaults

(* Only a failure sends it to the branch that gives it up.                    *)
StGivenUp == \A s \in StSlots: StAt(s, "deprovision", "fail") => stFaults < StMaxFaults
StOwedInv == stFaults \in 0..StMaxFaults /\ StGivenUp /\ StDeletionOwed

LEMMA StFaultStep ==
  ASSUME StInv, stFaults \in 0..StMaxFaults, [StNext]_stVars
  PROVE  /\ stFaults' \in 0..StMaxFaults
         /\ stFaults' = stFaults \/ stFaults' < StMaxFaults
<1>1. stFaults' = stFaults \/ StFault
  <2>1. CASE \E t \in StTypes: StCreate(t)
    BY <2>1 DEF StCreate
  <2>2. CASE StRetry \/ StResetRequest \/ StDeleteRequest \/ StBackupSettings
    BY <2>2 DEF StRetry, StResetRequest, StDeleteRequest, StBackupSettings
  <2>3. CASE StRotate \/ StRotateServer \/ StRotateCommit \/ StRotateCrash \/ StBackupEnqueue \/ StSchedule
    BY <2>3 DEF StRotate, StRotateServer, StRotateCommit, StRotateCrash, StBackupEnqueue, StSchedule
  <2>4. ASSUME NEW s \in StSlots, StStep(s) \/ StInterrupt(s) PROVE stFaults' = stFaults \/ StFault
    BY <2>4 DEF StStep, StLoad, StProvision, StReset, StDeprovision, StDumpStart, StDump, StCommit, StFail,
                StInterrupt
  <2>5. CASE UNCHANGED stVars
    BY <2>5 DEF stVars
  <2>. QED BY <2>1, <2>2, <2>3, <2>4, <2>5 DEF StNext
<1>. QED BY <1>1, StAssumption DEF StFault

(* The row of a storage that is gone is never written again.                  *)
LEMMA StGoneStays ==
  ASSUME StInv, [StNext]_stVars, stRow.status = "gone"
  PROVE  stRow'.status = "gone"
<1>1. CASE \E t \in StTypes: StCreate(t)
  BY <1>1 DEF StCreate
<1>2. CASE StRetry \/ StResetRequest \/ StDeleteRequest \/ StBackupSettings \/ StRotate \/ StRotateServer
  BY <1>2 DEF StRetry, StRetryDue, StResetRequest, StDeleteRequest, StBackupSettings, StRotate, StRotateServer, StVisible
<1>3. CASE StRotateCommit \/ StRotateCrash \/ StBackupEnqueue \/ StSchedule
  BY <1>3 DEF StRotateCommit, StRotateCrash, StBackupEnqueue, StSchedule
<1>4. ASSUME NEW s \in StSlots, StStep(s) \/ StInterrupt(s) PROVE stRow' = stRow
  <2>1. CASE \E k \in StKinds: StLoad(s, k)
    BY <2>1 DEF StLoad, StFound
  <2>2. CASE StCommit(s) \/ StFail(s)
    BY <2>2 DEF StCommit, StFail, StCommitted, StFailed
  <2>3. CASE StProvision(s) \/ StReset(s) \/ StDeprovision(s) \/ StDumpStart(s) \/ StDump(s) \/ StInterrupt(s)
    BY <2>3 DEF StProvision, StReset, StDeprovision, StDumpStart, StDump, StInterrupt
  <2>. QED BY <1>4, <2>1, <2>2, <2>3 DEF StStep
<1>5. CASE UNCHANGED stVars
  BY <1>5 DEF stVars
<1>. QED BY <1>1, <1>2, <1>3, <1>4, <1>5 DEF StNext

(* A step within a job leaves it the job of its slot.                         *)
LEMMA StStays ==
  ASSUME StTyped, StLeaving, NEW s \in StSlots, NEW pc, pc # "idle", StGoto(s, pc), UNCHANGED stQueue
  PROVE  StLeaving'
<1>1. \A o \in StSlots: stJobs'[o].job = stJobs[o].job /\ (StBusy(o) => StBusy(o)')
  BY DEF StTyped, StGoto, StJobType, StBusy
<1>. QED BY <1>1 DEF StLeaving

(* Only its commit ends a deletion, or the branch for its failure.            *)
LEMMA StLeavingStep ==
  ASSUME StInv, StLeaving, [StNext]_stVars, stFaults \in Nat, stFaults' = stFaults
  PROVE  \/ StLeaving'
         \/ stRow'.status = "gone"
         \/ \E s \in StSlots: StAt(s, "deprovision", "fail")
<1>1. ASSUME UNCHANGED stJobs, stQueue["deprovision"] > 0 => stQueue'["deprovision"] > 0 PROVE StLeaving'
  BY <1>1 DEF StLeaving, StBusy
<1>2. ASSUME NEW k \in StKinds, StEnqueue(k), UNCHANGED stJobs PROVE StLeaving'
  BY <1>1, <1>2, StEnqueueType DEF StInv, StKinds
<1>3. CASE \E t \in StTypes: StCreate(t)
  BY <1>1, <1>2, <1>3 DEF StCreate, StKinds
<1>4. CASE StRetry \/ StResetRequest \/ StDeleteRequest \/ StBackupSettings
  BY <1>1, <1>2, <1>4 DEF StRetry, StResetRequest, StDeleteRequest, StBackupSettings, StKinds
<1>5. CASE StRotate \/ StRotateServer \/ StRotateCommit \/ StRotateCrash \/ StBackupEnqueue \/ StSchedule
  BY <1>1, <1>2, <1>5 DEF StRotate, StRotateServer, StRotateCommit, StRotateCrash, StBackupEnqueue, StSchedule, StKinds
<1>6. ASSUME NEW s \in StSlots, NEW k \in StKinds, StLoad(s, k)
      PROVE  StLeaving' \/ stRow'.status = "gone"
  <2>1. /\ ~StBusy(s) /\ stQueue[k] > 0 /\ stQueue' = [stQueue EXCEPT ![k] = stQueue[k] - 1]
        /\ \/ \E row: stJobs' = [stJobs EXCEPT ![s] = [job |-> k, pc |-> "work", seen |-> StSeen(k, row)]]
           \/ stRow' = stRow /\ stRow.status = "gone"
    BY <1>6 DEF StLoad, StFound, StBusy
  <2>2. CASE stRow' = stRow /\ stRow.status = "gone"
    BY <2>2
  <2>3. ASSUME NEW row, stJobs' = [stJobs EXCEPT ![s] = [job |-> k, pc |-> "work", seen |-> StSeen(k, row)]]
        PROVE  StLeaving'
    <3>1. \A o \in StSlots: StBusy(o) => stJobs'[o] = stJobs[o]
      BY <2>1, <2>3 DEF StBusy, StInv, StTyped
    <3>2. CASE k = "deprovision"
      <4>1. stJobs'[s].job = "deprovision" /\ StBusy(s)'
        BY <2>3, <3>2 DEF StBusy, StInv, StTyped
      <4>. QED BY <4>1 DEF StLeaving
    <3>3. CASE k # "deprovision"
      <4>1. stQueue'["deprovision"] = stQueue["deprovision"]
        BY <2>1, <3>3 DEF StInv, StTyped, StKinds
      <4>. QED BY <3>1, <4>1 DEF StLeaving, StBusy
    <3>. QED BY <3>2, <3>3
  <2>. QED BY <2>1, <2>2, <2>3
<1>7. ASSUME NEW s \in StSlots, StProvision(s) \/ StReset(s) \/ StDeprovision(s) \/ StDumpStart(s) \/ StDump(s)
      PROVE  StLeaving'
  <2>1. UNCHANGED stQueue /\ \E pc \in {"dump", "commit", "fail"}: StGoto(s, pc)
    BY <1>7 DEF StProvision, StReset, StDeprovision, StDumpStart, StDump
  <2>. QED BY <2>1, StStays DEF StInv
<1>8. ASSUME NEW s \in StSlots, StCommit(s) \/ StFail(s), ~StAt(s, "deprovision", "fail")
      PROVE  StLeaving' \/ stRow'.status = "gone"
  <2>1. /\ UNCHANGED stQueue /\ stJobs' = [stJobs EXCEPT ![s] = StIdle] /\ StBusy(s)
        /\ stRow' \in {StCommitted(s), StFailed(s)}
    BY <1>8 DEF StCommit, StFail, StBusy
  <2>2. CASE stJobs[s].job = "deprovision"
    <3>1. StCommit(s)
      BY <1>8, <2>2 DEF StFail, StAt
    <3>2. stRow' = IF stRow.status = "gone" THEN stRow ELSE [stRow EXCEPT !.status = "gone", !.pw = 0]
      BY <2>2, <3>1 DEF StCommit, StCommitted
    <3>. QED BY <3>2 DEF StInv, StTyped, StRowType
  <2>3. CASE stJobs[s].job # "deprovision"
    <3>1. \A o \in StSlots: o # s => stJobs'[o] = stJobs[o]
      BY <2>1 DEF StInv, StTyped
    <3>. QED BY <2>1, <2>3, <3>1 DEF StLeaving, StBusy
  <2>. QED BY <2>2, <2>3
<1>9. ASSUME NEW s \in StSlots PROVE ~StInterrupt(s)
  BY DEF StInterrupt, StFault
<1>10. CASE UNCHANGED stVars
  BY <1>1, <1>10 DEF stVars
<1>. QED BY <1>3, <1>4, <1>5, <1>6, <1>7, <1>8, <1>9, <1>10 DEF StNext, StStep

LEMMA StGivenUpStep ==
  ASSUME StInv, StOwedInv, [StNext]_stVars
  PROVE  StGivenUp'
<1>. SUFFICES ASSUME NEW s \in StSlots, StAt(s, "deprovision", "fail")', stFaults' = stFaults
              PROVE  stFaults < StMaxFaults
  BY StFaultStep DEF StGivenUp, StOwedInv
<1>1. CASE UNCHANGED stJobs
  BY <1>1 DEF StGivenUp, StOwedInv, StAt
<1>2. ASSUME NEW o \in StSlots, NEW j, j.pc # "fail", stJobs' = [stJobs EXCEPT ![o] = j]
      PROVE  stFaults < StMaxFaults
  BY <1>2 DEF StGivenUp, StOwedInv, StAt, StInv, StTyped
<1>3. ASSUME NEW o \in StSlots, NEW pc, StGoto(o, pc), pc = "fail" => stJobs[o].job # "deprovision"
      PROVE  stFaults < StMaxFaults
  <2>1. s = o => stJobs'[s].pc = pc /\ stJobs'[s].job = stJobs[s].job
    BY <1>3, StGoing DEF StInv
  <2>2. s # o => stJobs'[s] = stJobs[s]
    BY <1>3 DEF StGoto, StInv, StTyped
  <2>. QED BY <1>3, <2>1, <2>2 DEF StGivenUp, StOwedInv, StAt
<1>4. CASE (\E t \in StTypes: StCreate(t)) \/ StRetry \/ StResetRequest \/ StDeleteRequest \/ StBackupSettings
  BY <1>1, <1>4 DEF StCreate, StRetry, StResetRequest, StDeleteRequest, StBackupSettings
<1>5. CASE StRotate \/ StRotateServer \/ StRotateCommit \/ StRotateCrash \/ StBackupEnqueue \/ StSchedule \/ UNCHANGED stVars
  BY <1>1, <1>5 DEF StRotate, StRotateServer, StRotateCommit, StRotateCrash, StBackupEnqueue, StSchedule, stVars
<1>6. ASSUME NEW o \in StSlots, NEW k \in StKinds, StLoad(o, k) PROVE stFaults < StMaxFaults
  <2>1. UNCHANGED stJobs \/ \E j: j.pc # "fail" /\ stJobs' = [stJobs EXCEPT ![o] = j]
    BY <1>6 DEF StLoad
  <2>. QED BY <1>1, <1>2, <2>1
<1>7. ASSUME NEW o \in StSlots, StProvision(o) \/ StReset(o) \/ StDumpStart(o) \/ StDump(o)
      PROVE  stFaults < StMaxFaults
  <2>1. stJobs[o].job # "deprovision" /\ \E pc: StGoto(o, pc)
    BY <1>7 DEF StProvision, StReset, StDumpStart, StDump, StAt
  <2>. QED BY <1>3, <2>1
<1>8. ASSUME NEW o \in StSlots, StDeprovision(o) PROVE stFaults < StMaxFaults
  <2>1. StGoto(o, "commit")
    BY <1>8, StAssumption DEF StDeprovision, StFault, StOwedInv
  <2>. QED BY <1>3, <2>1
<1>9. ASSUME NEW o \in StSlots, StCommit(o) \/ StFail(o) \/ StInterrupt(o) PROVE stFaults < StMaxFaults
  <2>1. stJobs' = [stJobs EXCEPT ![o] = StIdle]
    BY <1>9 DEF StCommit, StFail, StInterrupt
  <2>. QED BY <1>2, <2>1, StIdleType
<1>. QED BY <1>4, <1>5, <1>6, <1>7, <1>8, <1>9 DEF StNext, StStep

LEMMA StDeletionOwedStep ==
  ASSUME StInv, StOwedInv, [StNext]_stVars
  PROVE  StDeletionOwed'
<1>. SUFFICES ASSUME stAsked', stFaults' = stFaults, ~(stFaults < StMaxFaults)
              PROVE  stRow'.status = "gone" \/ StLeaving'
  BY StFaultStep DEF StDeletionOwed, StOwedInv
<1>1. CASE stAsked
  <2>1. stRow.status = "gone" \/ StLeaving
    BY <1>1 DEF StDeletionOwed, StOwedInv
  <2>2. \A s \in StSlots: ~StAt(s, "deprovision", "fail")
    BY DEF StGivenUp, StOwedInv
  <2>3. stFaults \in Nat
    BY StAssumption DEF StOwedInv
  <2>. QED BY <2>1, <2>2, <2>3, StGoneStays, StLeavingStep
<1>2. CASE ~stAsked
  <2>1. StDeleteRequest
    <3>1. CASE (\E t \in StTypes: StCreate(t)) \/ StRetry \/ StResetRequest \/ StBackupSettings
      BY <1>2, <3>1 DEF StCreate, StRetry, StResetRequest, StBackupSettings
    <3>2. CASE StRotate \/ StRotateServer \/ StRotateCommit \/ StRotateCrash \/ StBackupEnqueue \/ StSchedule
      BY <1>2, <3>2 DEF StRotate, StRotateServer, StRotateCommit, StRotateCrash, StBackupEnqueue, StSchedule
    <3>3. ASSUME NEW s \in StSlots, StStep(s) \/ StInterrupt(s) PROVE FALSE
      BY <1>2, <3>3 DEF StStep, StLoad, StProvision, StReset, StDeprovision, StDumpStart, StDump, StCommit, StFail,
                        StInterrupt
    <3>4. CASE UNCHANGED stVars
      BY <1>2, <3>4 DEF stVars
    <3>. QED BY <3>1, <3>2, <3>3, <3>4 DEF StNext
  <2>2. StEnqueue("deprovision")
    BY <2>1, StAssumption DEF StDeleteRequest, StFault, StOwedInv
  <2>. QED BY <2>2, StEnqueueType DEF StInv, StKinds, StLeaving
<1>. QED BY <1>1, <1>2

(* For any number of workers and any failures: a deletion is not forgotten,   *)
(* though provision and reset jobs write "active" over its mark.              *)
THEOREM StDeletionOwedHolds == StSpec => []StDeletionOwed
<1>1. StInit => StOwedInv
  BY StAssumption DEF StInit, StOwedInv, StGivenUp, StDeletionOwed, StAt, StIdle
<1>2. StInv /\ StOwedInv /\ [StNext]_stVars => StOwedInv'
  BY StFaultStep, StGivenUpStep, StDeletionOwedStep DEF StOwedInv
<1>3. StOwedInv => StDeletionOwed
  BY DEF StOwedInv
<1>. QED BY <1>1, <1>2, <1>3, StInvariant, PTL DEF StSpec

(* A storage still pending has not been reset or asked to be deleted, and no  *)
(* error of such a job is in its row.                                         *)
StUntouched == stRow.status = "pending" =>
  /\ ~stAsked /\ stRow.error \in {"none", "provision"}
  /\ stQueue["reset"] = 0 /\ \A s \in StSlots: StBusy(s) => stJobs[s].job # "reset"

StAskedMade == stAsked => stRow.status # "none"

(* A pending MariaDB storage is always one that its page retries: no error    *)
(* another job has left in its row keeps the retry from being due. This is    *)
(* the part of StProvisioned that does not depend on fairness.                *)
StRetriable == stRow.type = "mariadb" /\ stRow.status = "pending" => StRetryDue

LEMMA StAskedMadeStep == ASSUME StInv, StAskedMade, [StNext]_stVars PROVE StAskedMade'
<1>0. stRow \in StRowType
  BY DEF StInv, StTyped
<1>1. CASE \E t \in StTypes: StCreate(t)
  BY <1>1 DEF StCreate, StAskedMade, StNewRow, StNoRow
<1>2. CASE StRetry \/ StResetRequest \/ StDeleteRequest \/ StBackupSettings
  BY <1>0, <1>2 DEF StRetry, StRetryDue, StResetRequest, StDeleteRequest, StBackupSettings, StVisible, StAskedMade,
                    StRowType
<1>3. CASE StRotate \/ StRotateServer \/ StRotateCommit \/ StRotateCrash \/ StBackupEnqueue \/ StSchedule \/ UNCHANGED stVars
  BY <1>0, <1>3 DEF StRotate, StRotateServer, StRotateCommit, StRotateCrash, StBackupEnqueue, StSchedule, stVars, StAskedMade,
                    StRowType
<1>4. ASSUME NEW s \in StSlots, StStep(s) \/ StInterrupt(s) PROVE StAskedMade'
  <2>1. ASSUME NEW k \in StKinds, StLoad(s, k) PROVE StAskedMade'
    BY <1>0, <2>1 DEF StLoad, StAskedMade, StRowType
  <2>2. CASE StCommit(s) \/ StFail(s)
    <3>1. /\ stJobs[s].pc \in {"commit", "fail"} /\ stRow' \in {StCommitted(s), StFailed(s)}
          /\ stAsked' = stAsked
      BY <2>2 DEF StCommit, StFail
    <3>2. stRow.status # "none" /\ stJobs[s].job \in StKinds
      BY <3>1 DEF StInv, StUnborn, StTyped, StBusy
    <3>3. stRow'.status \in {stRow.status, "active", "gone"}
      BY <1>0, <3>1, <3>2 DEF StCommitted, StFailed, StWrite, StRowType, StKinds
    <3>. QED BY <3>2, <3>3 DEF StAskedMade
  <2>3. CASE StProvision(s) \/ StReset(s) \/ StDeprovision(s) \/ StDumpStart(s) \/ StDump(s) \/ StInterrupt(s)
    BY <2>3 DEF StProvision, StReset, StDeprovision, StDumpStart, StDump, StInterrupt, StAskedMade
  <2>. QED BY <1>4, <2>1, <2>2, <2>3 DEF StStep
<1>. QED BY <1>1, <1>2, <1>3, <1>4 DEF StNext

LEMMA StUntouchedStep == ASSUME StInv, StAskedMade, StUntouched, [StNext]_stVars PROVE StUntouched'
<1>. SUFFICES ASSUME stRow'.status = "pending" PROVE StUntouched'
  BY DEF StUntouched
<1>0. stRow \in StRowType
  BY DEF StInv, StTyped
<1>1. ASSUME UNCHANGED <<stJobs, stAsked>>, stRow.status = "pending",
             stRow'.error \in {stRow.error, "none"}, stQueue'["reset"] = stQueue["reset"]
      PROVE  StUntouched'
  BY <1>1 DEF StUntouched, StBusy
<1>2. ASSUME NEW t \in StTypes, StCreate(t) PROVE StUntouched'
  <2>1. /\ stRow.status = "none" /\ stRow' = StNewRow(t) /\ UNCHANGED <<stJobs, stAsked>>
        /\ StEnqueue("provision") \/ UNCHANGED stQueue
    BY <1>2 DEF StCreate
  <2>2. stRow'.error = "none"
    BY <2>1 DEF StNewRow, StNoRow
  <2>3. /\ \A s \in StSlots: ~StBusy(s) /\ ~StBusy(s)'
        /\ stQueue'["reset"] = 0
    BY <2>1, StEnqueueType DEF StInv, StUnborn, StKinds, StBusy
  <2>4. ~stAsked'
    BY <2>1 DEF StAskedMade
  <2>. QED BY <2>2, <2>3, <2>4 DEF StUntouched
<1>3. CASE StRetry
  <2>1. /\ stRow' = [stRow EXCEPT !.error = "none"] /\ UNCHANGED <<stJobs, stAsked>> /\ StEnqueue("provision")
        /\ stRow.status = "pending"
    BY <1>3 DEF StRetry, StRetryDue
  <2>2. stQueue'["reset"] = stQueue["reset"]
    BY <2>1, StEnqueueType DEF StInv, StKinds
  <2>. QED BY <1>0, <1>1, <2>1, <2>2 DEF StRowType
<1>4. CASE StResetRequest \/ StDeleteRequest
  <2>1. stRow'.status \in {"resetting", "active", "deleted"}
    BY <1>0, <1>4 DEF StResetRequest, StDeleteRequest, StRowType
  <2>. QED BY <2>1
<1>5. CASE StBackupSettings
  BY <1>0, <1>1, <1>5 DEF StBackupSettings, StRowType
<1>6. CASE StRotate \/ StRotateServer \/ StRotateCrash \/ UNCHANGED stVars
  BY <1>1, <1>6 DEF StRotate, StRotateServer, StRotateCrash, stVars
<1>7. CASE StRotateCommit
  BY <1>0, <1>1, <1>7 DEF StRotateCommit, StRowType
<1>8. CASE StBackupEnqueue \/ StSchedule
  BY <1>8 DEF StBackupEnqueue, StSchedule
<1>9. ASSUME NEW s \in StSlots, NEW k \in StKinds, StLoad(s, k) PROVE StUntouched'
  <2>1. /\ stQueue' = [stQueue EXCEPT ![k] = stQueue[k] - 1] /\ stQueue[k] > 0 /\ UNCHANGED stAsked
        /\ \/ UNCHANGED <<stRow, stJobs>>
           \/ /\ stRow' = IF k = "reset" THEN [stRow EXCEPT !.status = "resetting", !.error = "none"] ELSE stRow
              /\ \E row: stJobs' = [stJobs EXCEPT ![s] = [job |-> k, pc |-> "work", seen |-> StSeen(k, row)]]
    BY <1>9 DEF StLoad
  <2>2. stRow' = stRow
    BY <1>0, <2>1 DEF StRowType
  <2>3. k # "reset"
    BY <2>1, <2>2 DEF StUntouched
  <2>4. stQueue'["reset"] = stQueue["reset"]
    BY <2>1, <2>3 DEF StInv, StTyped, StKinds
  <2>5. \A o \in StSlots: stJobs'[o] = stJobs[o] \/ stJobs'[o].job = k
    BY <2>1 DEF StInv, StTyped
  <2>. QED BY <2>1, <2>2, <2>3, <2>4, <2>5 DEF StUntouched, StBusy
<1>10. ASSUME NEW s \in StSlots, StProvision(s) \/ StReset(s) \/ StDeprovision(s) \/ StDumpStart(s) \/ StDump(s)
       PROVE  StUntouched'
  <2>1. UNCHANGED <<stRow, stQueue, stAsked>> /\ StBusy(s) /\ \E pc: StGoto(s, pc)
    BY <1>10 DEF StProvision, StReset, StDeprovision, StDumpStart, StDump, StAt, StBusy
  <2>2. \A o \in StSlots: stJobs'[o].job = stJobs[o].job /\ (StBusy(o)' => StBusy(o))
    BY <2>1 DEF StInv, StTyped, StGoto, StJobType, StBusy
  <2>. QED BY <2>1, <2>2 DEF StUntouched
<1>11. ASSUME NEW s \in StSlots, stJobs' = [stJobs EXCEPT ![s] = StIdle], UNCHANGED <<stAsked, stQueue>>,
              stRow.status = "pending", stRow'.error \in {stRow.error, "none", "provision"}
       PROVE  StUntouched'
  <2>1. \A o \in StSlots: StBusy(o)' => stJobs'[o] = stJobs[o]
    BY <1>11, StIdleType DEF StInv, StTyped, StBusy
  <2>. QED BY <1>11, <2>1 DEF StUntouched, StBusy
<1>12. ASSUME NEW s \in StSlots, stJobs[s].pc \in {"commit", "fail"}, stRow' \in {StCommitted(s), StFailed(s)}
       PROVE  stRow.status = "pending" /\ stRow'.error \in {stRow.error, "none", "provision"}
  <2>1. StBusy(s) /\ stJobs[s].job \in StKinds
    BY <1>12 DEF StInv, StTyped, StBusy
  <2>2. CASE stJobs[s].job = "backup"
    BY <1>0, <1>12, <2>2 DEF StCommitted, StFailed, StRowType
  <2>3. CASE stJobs[s].job = "provision"
    BY <1>0, <1>12, <2>3 DEF StCommitted, StFailed, StWrite, StRowType
  <2>4. CASE stJobs[s].job = "reset"
    <3>1. stRow'.status \in {"active", stRow.status}
      BY <1>0, <1>12, <2>4 DEF StCommitted, StFailed, StWrite, StRowType
    <3>. QED BY <2>1, <2>4, <3>1 DEF StUntouched
  <2>5. CASE stJobs[s].job = "deprovision"
    <3>1. stAsked
      BY <2>1, <2>5 DEF StInv, StWanted, StLeaving
    <3>2. stRow'.status \in {"gone", stRow.status}
      BY <1>0, <1>12, <2>5 DEF StCommitted, StFailed, StRowType
    <3>. QED BY <3>1, <3>2 DEF StUntouched
  <2>. QED BY <2>1, <2>2, <2>3, <2>4, <2>5 DEF StKinds
<1>13. ASSUME NEW s \in StSlots, StCommit(s) \/ StFail(s) PROVE StUntouched'
  <2>1. /\ stJobs[s].pc \in {"commit", "fail"} /\ stRow' \in {StCommitted(s), StFailed(s)}
        /\ stJobs' = [stJobs EXCEPT ![s] = StIdle] /\ UNCHANGED <<stAsked, stQueue>>
    BY <1>13 DEF StCommit, StFail
  <2>. QED BY <1>11, <1>12, <2>1
<1>14. ASSUME NEW s \in StSlots, StInterrupt(s) PROVE StUntouched'
  <2>1. /\ StBusy(s) /\ UNCHANGED <<stRow, stAsked>> /\ stJobs' = [stJobs EXCEPT ![s] = StIdle]
        /\ stQueue' = stQueue \/ stQueue' = [stQueue EXCEPT ![stJobs[s].job] = @ + 1]
    BY <1>14 DEF StInterrupt, StBusy
  <2>2. stJobs[s].job # "reset"
    BY <2>1 DEF StUntouched
  <2>3. stQueue'["reset"] = stQueue["reset"]
    BY <2>1, <2>2 DEF StInv, StTyped, StKinds
  <2>4. \A o \in StSlots: StBusy(o)' => stJobs'[o] = stJobs[o]
    BY <2>1, StIdleType DEF StInv, StTyped, StBusy
  <2>. QED BY <2>1, <2>3, <2>4 DEF StUntouched, StBusy
<1>. QED BY <1>2, <1>3, <1>4, <1>5, <1>6, <1>7, <1>8, <1>9, <1>10, <1>13, <1>14 DEF StNext, StStep

(* For any number of workers, requests and failures: nothing writes what       *)
(* would hide a pending storage from the retry of its page.                   *)
THEOREM StRetriableHolds == StSpec => []StRetriable
<1>1. StInit => StAskedMade /\ StUntouched
  BY DEF StInit, StAskedMade, StUntouched, StNoRow
<1>2. StInv /\ (StAskedMade /\ StUntouched) /\ [StNext]_stVars => (StAskedMade /\ StUntouched)'
  BY StAskedMadeStep, StUntouchedStep
<1>3. StUntouched => StRetriable
  BY DEF StUntouched, StRetriable, StRetryDue
<1>. QED BY <1>1, <1>2, <1>3, StInvariant, PTL DEF StSpec
-------------------------------------------------------------------------------
(* Links.                                                                    *)

LnContainer == [pc: {"idle", "grant", "paths", "mounts", "commit", "runs"}, passwords: [LnSql -> Nat],
                paths: SUBSET LnFiles, mounts: SUBSET LnFiles, touched: SUBSET LnStorages]

LnTyped ==
  /\ lnStatus \in [LnStorages -> {"pending", "active", "deleted", "gone"}]
  /\ lnLinks \in [LnStorages -> {LnUnlinked} \cup SUBSET LnEnvs]
  /\ lnPassword \in [LnSql -> Nat]
  /\ lnServer \in [LnSql -> Nat]
  /\ lnRotating \in [LnSql -> Nat]
  /\ lnEditing = LnNoEdit \/ lnEditing \in [storage: LnStorages, envs: SUBSET LnEnvs, update: BOOLEAN]
  /\ lnStarts \in [LnEnvs -> LnContainer]
  /\ lnRuns \in [LnEnvs -> LnContainer]

(* What a container of e, x, was given of a storage that has not changed     *)
(* since: the password that is stored and, once it was granted, known to the *)
(* server; and the path of every file it may use, later with a mount.        *)
LnSecretFine(x, e, s) ==
  x.passwords[s] # 0 =>
    /\ x.passwords[s] = lnPassword[s] /\ LnUsable(s) /\ LnReaches(s, e)
    /\ x.pc # "grant" => lnServer[s] = x.passwords[s]
LnFileFine(x, e, s) ==
  /\ x.pc \in {"mounts", "commit", "runs"} => (s \in x.paths <=> LnUsable(s) /\ LnReaches(s, e))
  /\ x.pc = "runs" => (s \in x.mounts <=> s \in x.paths)
LnFine(x, e) ==
  x.pc # "idle" => /\ \A s \in LnSql \ x.touched: LnSecretFine(x, e, s)
                   /\ \A s \in LnFiles \ x.touched: LnFileFine(x, e, s)

LnInv ==
  /\ LnTyped
  /\ \A e \in LnEnvs: /\ LnFine(lnStarts[e], e)
                      /\ LnFine(lnRuns[e], e)
                      /\ lnRuns[e].pc \in {"idle", "runs"}

LEMMA LnNothingType == LnNothing \in LnContainer /\ LnNothing.pc = "idle"
BY DEF LnNothing, LnContainer

LEMMA LnSorts == LnSql \subseteq LnStorages /\ LnFiles \subseteq LnStorages
BY DEF LnStorages

LEMMA LnInitInv == LnInit => LnInv
<1>. SUFFICES ASSUME LnInit PROVE LnInv
  OBVIOUS
<1>1. lnStarts \in [LnEnvs -> LnContainer] /\ lnRuns \in [LnEnvs -> LnContainer]
  BY LnNothingType DEF LnInit
<1>2. \A e \in LnEnvs: lnStarts[e].pc = "idle" /\ lnRuns[e].pc = "idle"
  BY LnNothingType DEF LnInit
<1>3. lnPassword \in [LnSql -> Nat] /\ lnServer \in [LnSql -> Nat] /\ lnRotating \in [LnSql -> Nat]
  BY DEF LnInit
<1>4. /\ lnStatus \in [LnStorages -> {"pending", "active", "deleted", "gone"}]
      /\ lnLinks \in [LnStorages -> {LnUnlinked} \cup SUBSET LnEnvs]
      /\ lnEditing = LnNoEdit
  BY DEF LnInit
<1>. QED BY <1>1, <1>2, <1>3, <1>4 DEF LnInv, LnTyped, LnFine

(* A step that changes no storages but those that are marked as touched; a   *)
(* password may be given to the server again.                                *)
LnOnly(changed) ==
  /\ changed \subseteq LnStorages
  /\ \A s \in LnStorages \ changed: lnStatus'[s] = lnStatus[s] /\ lnLinks'[s] = lnLinks[s]
  /\ \A s \in LnSql \ changed: lnPassword'[s] = lnPassword[s] /\ lnServer'[s] \in {lnServer[s], lnPassword[s]}

LEMMA LnFineKept ==
  ASSUME NEW changed, LnOnly(changed), NEW x \in LnContainer, NEW y \in LnContainer, NEW e \in LnEnvs,
         LnFine(x, e), y = [x EXCEPT !.touched = @ \cup changed]
  PROVE  LnFine(y, e)'
<1>1. /\ y.pc = x.pc /\ y.passwords = x.passwords /\ y.paths = x.paths /\ y.mounts = x.mounts
      /\ y.touched = x.touched \cup changed
  BY DEF LnContainer
<1>2. ASSUME x.pc # "idle", NEW s \in LnSql \ y.touched PROVE LnSecretFine(y, e, s)'
  <2>1. LnSecretFine(x, e, s) /\ s \in LnStorages \ changed
    BY <1>1, <1>2, LnSorts DEF LnFine
  <2>2. lnStatus'[s] = lnStatus[s] /\ lnLinks'[s] = lnLinks[s] /\ lnPassword'[s] = lnPassword[s]
        /\ lnServer'[s] \in {lnServer[s], lnPassword[s]}
    BY <1>2, <2>1 DEF LnOnly
  <2>. QED BY <1>1, <2>1, <2>2 DEF LnSecretFine, LnUsable, LnReaches
<1>3. ASSUME x.pc # "idle", NEW s \in LnFiles \ y.touched PROVE LnFileFine(y, e, s)'
  <2>1. LnFileFine(x, e, s) /\ s \in LnStorages \ changed
    BY <1>1, <1>3, LnSorts DEF LnFine
  <2>2. lnStatus'[s] = lnStatus[s] /\ lnLinks'[s] = lnLinks[s]
    BY <2>1 DEF LnOnly
  <2>. QED BY <1>1, <2>1, <2>2 DEF LnFileFine, LnUsable, LnReaches
<1>. QED BY <1>1, <1>2, <1>3 DEF LnFine

(* Such a step on preparations that are fine.                                *)
LEMMA LnTouchedInv ==
  ASSUME LnInv, NEW changed, LnOnly(changed), NEW starts \in [LnEnvs -> LnContainer],
         \A e \in LnEnvs: LnFine(starts[e], e), LnTouched(starts, changed)
  PROVE  /\ lnStarts' \in [LnEnvs -> LnContainer] /\ lnRuns' \in [LnEnvs -> LnContainer]
         /\ \A e \in LnEnvs: /\ LnFine(lnStarts[e], e)' /\ LnFine(lnRuns[e], e)'
                             /\ lnRuns'[e].pc \in {"idle", "runs"}
<1>1. ASSUME NEW x \in LnContainer
      PROVE  [x EXCEPT !.touched = @ \cup changed] \in LnContainer
             /\ [x EXCEPT !.touched = @ \cup changed].pc = x.pc
  BY DEF LnContainer, LnOnly
<1>2. /\ lnStarts' = [e \in LnEnvs |-> [starts[e] EXCEPT !.touched = @ \cup changed]]
      /\ lnRuns' = [e \in LnEnvs |-> [lnRuns[e] EXCEPT !.touched = @ \cup changed]]
  BY DEF LnTouched
<1>3. \A e \in LnEnvs: starts[e] \in LnContainer /\ lnRuns[e] \in LnContainer
  BY DEF LnInv, LnTyped
<1>4. ASSUME NEW e \in LnEnvs PROVE LnFine(lnStarts[e], e)'
  <2>1. lnStarts'[e] = [starts[e] EXCEPT !.touched = @ \cup changed] /\ lnStarts'[e] \in LnContainer
    BY <1>1, <1>2, <1>3
  <2>2. PICK y \in LnContainer: y = lnStarts'[e]
    BY <2>1
  <2>3. PICK x \in LnContainer: x = starts[e]
    BY <1>3
  <2>4. LnFine(x, e)
    BY <2>3
  <2>5. LnFine(y, e)'
    BY <2>1, <2>2, <2>3, <2>4, LnFineKept
  <2>. QED BY <2>2, <2>5 DEF LnFine, LnSecretFine, LnFileFine
<1>5. ASSUME NEW e \in LnEnvs PROVE LnFine(lnRuns[e], e)'
  <2>1. lnRuns'[e] = [lnRuns[e] EXCEPT !.touched = @ \cup changed] /\ lnRuns'[e] \in LnContainer
    BY <1>1, <1>2, <1>3
  <2>2. PICK y \in LnContainer: y = lnRuns'[e]
    BY <2>1
  <2>3. PICK x \in LnContainer: x = lnRuns[e]
    BY <1>3
  <2>4. LnFine(x, e)
    BY <2>3 DEF LnInv
  <2>5. LnFine(y, e)'
    BY <2>1, <2>2, <2>3, <2>4, LnFineKept
  <2>. QED BY <2>2, <2>5 DEF LnFine, LnSecretFine, LnFileFine
<1>6. ASSUME NEW e \in LnEnvs PROVE lnRuns'[e].pc \in {"idle", "runs"}
  BY <1>1, <1>2, <1>3 DEF LnInv
<1>7. lnStarts' \in [LnEnvs -> LnContainer] /\ lnRuns' \in [LnEnvs -> LnContainer]
  BY <1>1, <1>2, <1>3
<1>. QED BY <1>4, <1>5, <1>6, <1>7

(* The types of what does not concern containers.                            *)
LnTables ==
  /\ lnStatus \in [LnStorages -> {"pending", "active", "deleted", "gone"}]
  /\ lnLinks \in [LnStorages -> {LnUnlinked} \cup SUBSET LnEnvs]
  /\ lnPassword \in [LnSql -> Nat] /\ lnServer \in [LnSql -> Nat] /\ lnRotating \in [LnSql -> Nat]
  /\ lnEditing = LnNoEdit \/ lnEditing \in [storage: LnStorages, envs: SUBSET LnEnvs, update: BOOLEAN]

(* A step that changes one storage and touches it.                           *)
LEMMA LnStorageInv ==
  ASSUME LnInv, NEW s \in LnStorages, LnOnly({s}), LnTouch(s), LnTables'
  PROVE  LnInv'
<1>1. /\ lnStarts \in [LnEnvs -> LnContainer]
      /\ \A e \in LnEnvs: LnFine(lnStarts[e], e)
  BY DEF LnInv, LnTyped
<1>2. /\ lnStarts' = [e \in LnEnvs |-> [lnStarts[e] EXCEPT !.touched = @ \cup {s}]]
      /\ lnRuns' = [e \in LnEnvs |-> [lnRuns[e] EXCEPT !.touched = @ \cup {s}]]
  BY DEF LnTouch, LnTouched
<1>3. PICK starts \in [LnEnvs -> LnContainer]: starts = lnStarts
  BY <1>1
<1>4. LnTouched(starts, {s}) /\ \A e \in LnEnvs: LnFine(starts[e], e)
  BY <1>1, <1>2, <1>3 DEF LnTouched
<1>5. PICK changed: changed = {s}
  OBVIOUS
<1>6. LnOnly(changed) /\ LnTouched(starts, changed)
  BY <1>4, <1>5
<1>. QED BY <1>4, <1>6, LnTouchedInv DEF LnInv, LnTyped, LnTables

LEMMA LnTablesTyped == LnInv => LnTables
BY DEF LnInv, LnTyped, LnTables

LEMMA LnProvisionInv == ASSUME LnInv, NEW s \in LnStorages, LnProvision(s) PROVE LnInv'
<1>1. LnTables' /\ LnOnly({s})
  BY LnTablesTyped, LnSorts DEF LnProvision, LnTables, LnOnly
<1>. QED BY <1>1, LnStorageInv DEF LnProvision

LEMMA LnMarkInv == ASSUME LnInv, NEW s \in LnStorages, LnMark(s) PROVE LnInv'
<1>1. LnTables' /\ LnOnly({s})
  BY LnTablesTyped, LnSorts DEF LnMark, LnTables, LnOnly
<1>. QED BY <1>1, LnStorageInv DEF LnMark

LEMMA LnDeprovisionInv == ASSUME LnInv, NEW s \in LnStorages, LnDeprovision(s) PROVE LnInv'
<1>1. LnTables' /\ LnOnly({s})
  BY LnTablesTyped, LnSorts DEF LnDeprovision, LnUnlinkedFrom, LnTables, LnOnly
<1>. QED BY <1>1, LnStorageInv DEF LnDeprovision

LEMMA LnRotateInv == ASSUME LnInv, NEW s \in LnSql, LnRotate(s) PROVE LnInv'
<1>. DEFINE next == 1 + (IF lnPassword[s] > lnServer[s] THEN lnPassword[s] ELSE lnServer[s])
<1>1. PICK new \in Nat: lnServer' = [lnServer EXCEPT ![s] = new] /\ lnRotating' = [lnRotating EXCEPT ![s] = new]
  <2>1. lnPassword[s] \in Nat /\ lnServer[s] \in Nat
    BY LnTablesTyped DEF LnTables
  <2>2. next \in Nat
    BY <2>1
  <2>3. lnServer' = [lnServer EXCEPT ![s] = next] /\ lnRotating' = [lnRotating EXCEPT ![s] = next]
    BY Zenon DEF LnRotate
  <2>. QED BY <2>2, <2>3
<1>2. LnTables' /\ LnOnly({s})
  BY <1>1, LnTablesTyped, LnSorts DEF LnRotate, LnTables, LnOnly
<1>. QED BY <1>2, LnStorageInv, LnSorts DEF LnRotate

LEMMA LnRotatedInv == ASSUME LnInv, NEW s \in LnSql, LnRotated(s) PROVE LnInv'
<1>1. LnTables' /\ LnOnly({s})
  BY LnTablesTyped, LnSorts DEF LnRotated, LnTables, LnOnly
<1>. QED BY <1>1, LnStorageInv, LnSorts DEF LnRotated

LEMMA LnDisconnectInv == ASSUME LnInv, NEW s \in LnStorages, LnDisconnect(s) PROVE LnInv'
<1>1. LnTables' /\ LnOnly({s})
  BY LnTablesTyped, LnSorts DEF LnDisconnect, LnUnlinkedFrom, LnTables, LnOnly
<1>. QED BY <1>1, LnStorageInv DEF LnDisconnect

(* A step of the job of one environment, that changes no storage.            *)
LnSame == UNCHANGED <<lnStatus, lnLinks, lnPassword, lnServer>>

LEMMA LnFineSame ==
  ASSUME LnSame, NEW x, NEW e \in LnEnvs, LnFine(x, e)
  PROVE  LnFine(x, e)'
BY DEF LnSame, LnFine, LnSecretFine, LnFileFine, LnUsable, LnReaches

LEMMA LnPrepareInv ==
  ASSUME LnInv, LnSame, LnTables', NEW e \in LnEnvs, NEW x \in LnContainer, NEW r \in LnContainer,
         LnFine(x, e), LnFine(r, e), r.pc \in {"idle", "runs"},
         lnStarts' = [lnStarts EXCEPT ![e] = x], lnRuns' = [lnRuns EXCEPT ![e] = r]
  PROVE  LnInv'
<1>1. LnTyped'
  BY DEF LnInv, LnTyped, LnTables
<1>2. ASSUME NEW o \in LnEnvs PROVE LnFine(lnStarts[o], o)'
  <2>1. PICK y: y = lnStarts'[o]
    OBVIOUS
  <2>2. LnFine(y, o)
    BY <2>1 DEF LnInv, LnTyped
  <2>3. LnFine(y, o)'
    BY <2>2, LnFineSame
  <2>. QED BY <2>1, <2>2, <2>3 DEF LnFine, LnSecretFine, LnFileFine
<1>3. ASSUME NEW o \in LnEnvs PROVE LnFine(lnRuns[o], o)' /\ lnRuns'[o].pc \in {"idle", "runs"}
  <2>1. PICK y: y = lnRuns'[o]
    OBVIOUS
  <2>2. LnFine(y, o) /\ y.pc \in {"idle", "runs"}
    BY <2>1 DEF LnInv, LnTyped
  <2>3. LnFine(y, o)'
    BY <2>2, LnFineSame
  <2>. QED BY <2>1, <2>2, <2>3 DEF LnFine, LnSecretFine, LnFileFine
<1>. QED BY <1>1, <1>2, <1>3 DEF LnInv

LEMMA LnQuietInv ==
  ASSUME LnInv, LnSame, LnTables', UNCHANGED <<lnStarts, lnRuns>>
  PROVE  LnInv'
BY DEF LnInv, LnTyped, LnTables, LnSame, LnFine, LnSecretFine, LnFileFine, LnUsable, LnReaches

LEMMA LnEditInv == ASSUME LnInv, NEW s \in LnStorages, NEW envs \in SUBSET LnEnvs, LnEdit(s, envs) PROVE LnInv'
<1>1. (lnLinks[s] # LnUnlinked) \in BOOLEAN
  OBVIOUS
<1>2. lnEditing' \in [storage: LnStorages, envs: SUBSET LnEnvs, update: BOOLEAN]
  BY <1>1 DEF LnEdit
<1>3. LnSame /\ UNCHANGED <<lnStarts, lnRuns, lnRotating>>
  BY DEF LnEdit, LnSame
<1>4. LnTables'
  BY <1>2, <1>3, LnTablesTyped DEF LnTables, LnSame
<1>. QED BY <1>3, <1>4, LnQuietInv

LEMMA LnSaveInv == ASSUME LnInv, LnSave PROVE LnInv'
<1>1. lnEditing \in [storage: LnStorages, envs: SUBSET LnEnvs, update: BOOLEAN] /\ lnEditing' = LnNoEdit
  BY LnTablesTyped DEF LnSave, LnTables
<1>2. UNCHANGED <<lnStatus, lnPassword, lnServer, lnRotating>>
  BY DEF LnSave
<1>3. PICK s \in LnStorages: s = lnEditing.storage
  BY <1>1
<1>4. CASE LnSaveable
  <2>1. lnLinks' = [lnLinks EXCEPT ![s] = lnEditing.envs] /\ LnTouch(s)
    BY <1>3, <1>4 DEF LnSave, LnTouch
  <2>2. LnTables' /\ LnOnly({s})
    BY <1>1, <1>2, <2>1, LnTablesTyped, LnSorts DEF LnTables, LnOnly
  <2>. QED BY <2>1, <2>2, LnStorageInv
<1>5. CASE ~LnSaveable
  <2>1. LnSame /\ UNCHANGED <<lnStarts, lnRuns>>
    BY <1>2, <1>5 DEF LnSave, LnSame
  <2>2. LnTables'
    BY <1>1, <1>2, <2>1, LnTablesTyped DEF LnTables, LnSame
  <2>. QED BY <2>1, <2>2, LnQuietInv
<1>. QED BY <1>4, <1>5

LEMMA LnDeleteEnvironmentInv == ASSUME LnInv, NEW e \in LnEnvs, LnDeleteEnvironment(e) PROVE LnInv'
<1>1. LnSame /\ UNCHANGED <<lnStarts, lnRuns>> /\ LnTables'
  BY LnTablesTyped DEF LnDeleteEnvironment, LnSame, LnTables
<1>. QED BY <1>1, LnQuietInv

(* The environment's own preparation and container.                          *)
LEMMA LnOwn ==
  ASSUME LnInv, NEW e \in LnEnvs
  PROVE  /\ lnStarts[e] \in LnContainer /\ LnFine(lnStarts[e], e)
         /\ lnRuns[e] \in LnContainer /\ LnFine(lnRuns[e], e) /\ lnRuns[e].pc \in {"idle", "runs"}
         /\ lnStarts = [lnStarts EXCEPT ![e] = lnStarts[e]] /\ lnRuns = [lnRuns EXCEPT ![e] = lnRuns[e]]
BY DEF LnInv, LnTyped

LEMMA LnReadInv == ASSUME LnInv, NEW e \in LnEnvs, LnRead(e) PROVE LnInv'
<1>. DEFINE given == [s \in LnSql |-> LnPasswordFor(s, e)]
            x == [LnNothing EXCEPT !.pc = "grant", !.passwords = given]
<1>1. lnPassword \in [LnSql -> Nat]
  BY LnTablesTyped DEF LnTables
<1>2. given \in [LnSql -> Nat]
  BY <1>1 DEF LnPasswordFor
<1>3. \A s \in LnSql: given[s] # 0 => given[s] = lnPassword[s] /\ LnUsable(s) /\ LnReaches(s, e)
  BY DEF LnPasswordFor
<1>. HIDE DEF given
<1>4. x \in LnContainer /\ x.pc = "grant" /\ x.passwords = given
  BY <1>2 DEF LnNothing, LnContainer
<1>. HIDE DEF x
<1>5. LnFine(x, e)
  BY <1>3, <1>4 DEF LnFine, LnSecretFine, LnFileFine
<1>6. lnStarts' = [lnStarts EXCEPT ![e] = x] /\ lnRuns' = lnRuns
  BY DEF LnRead, x, given
<1>7. LnSame /\ UNCHANGED <<lnRotating, lnEditing>>
  BY DEF LnRead, LnSame
<1>8. LnTables'
  BY <1>7, LnTablesTyped DEF LnTables, LnSame
<1>. QED BY <1>4, <1>5, <1>6, <1>7, <1>8, LnOwn, LnPrepareInv

LEMMA LnAbortInv == ASSUME LnInv, NEW e \in LnEnvs, LnAbort(e) PROVE LnInv'
<1>1. lnStarts' = [lnStarts EXCEPT ![e] = LnNothing] /\ lnRuns' = lnRuns
  BY DEF LnAbort
<1>2. LnSame /\ UNCHANGED <<lnRotating, lnEditing>>
  BY DEF LnAbort, LnSame
<1>3. LnTables'
  BY <1>2, LnTablesTyped DEF LnTables, LnSame
<1>4. LnFine(LnNothing, e)
  BY LnNothingType DEF LnFine
<1>. QED BY <1>1, <1>2, <1>3, <1>4, LnOwn, LnNothingType, LnPrepareInv

LEMMA LnPathsInv == ASSUME LnInv, NEW e \in LnEnvs, LnPaths(e) PROVE LnInv'
<1>. DEFINE found == {s \in LnFiles: LnUsable(s) /\ LnReaches(s, e)}
            x == [lnStarts[e] EXCEPT !.pc = "mounts", !.paths = found]
<1>1. lnStarts[e].pc = "paths" /\ lnStarts[e] \in LnContainer /\ LnFine(lnStarts[e], e)
  BY LnOwn DEF LnPaths, LnAt
<1>2. /\ x \in LnContainer /\ x.pc = "mounts" /\ x.paths = found
      /\ x.passwords = lnStarts[e].passwords /\ x.touched = lnStarts[e].touched
  BY <1>1 DEF LnContainer
<1>3. \A s \in LnFiles: s \in found <=> LnUsable(s) /\ LnReaches(s, e)
  OBVIOUS
<1>4. LnSame /\ UNCHANGED <<lnRotating, lnEditing>> /\ lnRuns' = lnRuns
  BY DEF LnPaths, LnSame
<1>5. LnTables'
  BY <1>4, LnTablesTyped DEF LnTables, LnSame
<1>6. \/ lnStarts' = [lnStarts EXCEPT ![e] = LnNothing]
      \/ lnStarts' = [lnStarts EXCEPT ![e] = x]
  BY DEF LnPaths
<1>. HIDE DEF x, found
<1>7. LnFine(x, e)
  BY <1>1, <1>2, <1>3 DEF LnFine, LnSecretFine, LnFileFine
<1>8. LnFine(LnNothing, e)
  BY LnNothingType DEF LnFine
<1>9. CASE lnStarts' = [lnStarts EXCEPT ![e] = x]
  BY <1>2, <1>4, <1>5, <1>7, <1>9, LnOwn, LnPrepareInv
<1>10. CASE lnStarts' = [lnStarts EXCEPT ![e] = LnNothing]
  BY <1>4, <1>5, <1>8, <1>10, LnOwn, LnNothingType, LnPrepareInv
<1>. QED BY <1>6, <1>9, <1>10

LEMMA LnMountsInv == ASSUME LnInv, NEW e \in LnEnvs, LnMounts(e) PROVE LnInv'
<1>. DEFINE start == lnStarts[e]
            x == [start EXCEPT !.pc = "commit"]
            Found == {s \in LnFiles: LnMountable(s)}
            Sure == {s \in Found: s \in start.paths /\ LnReaches(s, e)}
            Maybe == {s \in Found: s \in start.paths \/ LnReaches(s, e)}
<1>1. start.pc = "mounts" /\ start \in LnContainer /\ LnFine(start, e)
  BY LnOwn DEF LnMounts, LnAt
<1>2. PICK mounts \in SUBSET Maybe:
        Sure \subseteq mounts /\ lnRuns' = [lnRuns EXCEPT ![e] = [start EXCEPT !.pc = "runs", !.mounts = mounts]]
  BY DEF LnMounts
<1>. DEFINE r == [start EXCEPT !.pc = "runs", !.mounts = mounts]
<1>3. /\ x \in LnContainer /\ x.pc = "commit" /\ x.paths = start.paths
      /\ x.passwords = start.passwords /\ x.touched = start.touched
  BY <1>1 DEF LnContainer
<1>4. /\ r \in LnContainer /\ r.pc = "runs" /\ r.paths = start.paths /\ r.mounts = mounts
      /\ r.passwords = start.passwords /\ r.touched = start.touched
  BY <1>1, <1>2 DEF LnContainer
<1>5. lnStarts' = [lnStarts EXCEPT ![e] = x] /\ lnRuns' = [lnRuns EXCEPT ![e] = r]
  <2>1. lnStarts' = [lnStarts EXCEPT ![e].pc = "commit"]
    BY DEF LnMounts
  <2>2. lnStarts' = [lnStarts EXCEPT ![e] = x]
    BY <2>1
  <2>. QED BY <1>2, <2>2
<1>6. ASSUME NEW s \in LnFiles \ start.touched PROVE s \in mounts <=> s \in start.paths
  <2>1. s \in start.paths <=> LnUsable(s) /\ LnReaches(s, e)
    BY <1>1 DEF LnFine, LnFileFine
  <2>. QED BY <1>2, <2>1 DEF LnMountable, LnReaches
<1>. HIDE DEF x, r, start
<1>7. LnFine(x, e)
  BY <1>1, <1>3 DEF LnFine, LnSecretFine, LnFileFine
<1>8. LnFine(r, e)
  BY <1>1, <1>4, <1>6 DEF LnFine, LnSecretFine, LnFileFine
<1>9. LnSame /\ UNCHANGED <<lnRotating, lnEditing>>
  BY DEF LnMounts, LnSame
<1>10. LnTables'
  BY <1>9, LnTablesTyped DEF LnTables, LnSame
<1>. QED BY <1>3, <1>4, <1>5, <1>7, <1>8, <1>9, <1>10, LnPrepareInv

(* The server is given the passwords read, which are the stored ones of      *)
(* databases that have not changed since.                                    *)
LEMMA LnGrantInv == ASSUME LnInv, NEW e \in LnEnvs, LnGrant(e) PROVE LnInv'
<1>. DEFINE start == lnStarts[e]
            given == {s \in LnSql: start.passwords[s] # 0 /\ lnStatus[s] # "gone"}
            Touch(x) == [x EXCEPT !.touched = @ \cup (given \cap start.touched)]
<1>1. start.pc = "grant" /\ start \in LnContainer /\ LnFine(start, e)
  BY LnOwn DEF LnGrant, LnAt
<1>2. /\ lnServer' = [s \in LnSql |-> IF s \in given THEN start.passwords[s] ELSE lnServer[s]]
      /\ lnStarts' = [o \in LnEnvs |-> Touch([lnStarts EXCEPT ![e].pc = "paths"][o])]
      /\ lnRuns' = [o \in LnEnvs |-> Touch(lnRuns[o])]
      /\ UNCHANGED <<lnStatus, lnLinks, lnPassword, lnRotating, lnEditing>>
  BY DEF LnGrant, LnGranted, LnTouched
<1>3. start.passwords \in [LnSql -> Nat] /\ lnServer \in [LnSql -> Nat]
  BY <1>1, LnTablesTyped DEF LnContainer, LnTables
<1>4. LnTables'
  <2>1. lnServer' \in [LnSql -> Nat]
    BY <1>2, <1>3
  <2>. QED BY <1>2, <2>1, LnTablesTyped DEF LnTables
<1>5. ASSUME NEW s \in LnSql \ start.touched, start.passwords[s] # 0
      PROVE  start.passwords[s] = lnPassword[s] /\ s \in given /\ LnUsable(s) /\ LnReaches(s, e)
  BY <1>1, <1>5 DEF LnFine, LnSecretFine, LnUsable
<1>6. PICK changed: changed = given \cap start.touched
  OBVIOUS
<1>7. LnOnly(changed)
  <2>1. ASSUME NEW s \in LnSql \ changed PROVE lnServer'[s] \in {lnServer[s], lnPassword[s]}
    BY <1>2, <1>5, <1>6
  <2>. QED BY <1>2, <1>6, <2>1, LnSorts DEF LnOnly
<1>8. ASSUME NEW x \in LnContainer
      PROVE  Touch(x) \in LnContainer /\ Touch(x).pc = x.pc
  BY LnSorts DEF LnContainer
<1>9. ASSUME NEW o \in LnEnvs PROVE LnFine(lnRuns[o], o)' /\ lnRuns'[o].pc \in {"idle", "runs"}
                                    /\ lnRuns'[o] \in LnContainer
  <2>1. PICK x \in LnContainer: x = lnRuns[o] /\ LnFine(x, o) /\ x.pc \in {"idle", "runs"}
    BY LnOwn
  <2>2. PICK y: y = Touch(x)
    OBVIOUS
  <2>3. y \in LnContainer /\ y.pc = x.pc /\ y = [x EXCEPT !.touched = @ \cup changed]
    BY <1>6, <1>8, <2>2
  <2>4. LnFine(y, o)'
    BY <1>7, <2>1, <2>3, LnFineKept
  <2>5. lnRuns'[o] = y
    BY <1>2, <2>1, <2>2
  <2>. QED BY <2>1, <2>3, <2>4, <2>5 DEF LnFine, LnSecretFine, LnFileFine
<1>10. ASSUME NEW o \in LnEnvs, o # e PROVE LnFine(lnStarts[o], o)' /\ lnStarts'[o] \in LnContainer
  <2>1. PICK x \in LnContainer: x = lnStarts[o] /\ LnFine(x, o)
    BY LnOwn
  <2>2. PICK y: y = Touch(x)
    OBVIOUS
  <2>3. y \in LnContainer /\ y = [x EXCEPT !.touched = @ \cup changed]
    BY <1>6, <1>8, <2>2
  <2>4. LnFine(y, o)'
    BY <1>7, <2>1, <2>3, LnFineKept
  <2>5. [lnStarts EXCEPT ![e].pc = "paths"][o] = lnStarts[o]
    BY <1>10 DEF LnInv, LnTyped
  <2>6. lnStarts'[o] = y
    BY <1>2, <2>1, <2>2, <2>5
  <2>. QED BY <2>3, <2>4, <2>6 DEF LnFine, LnSecretFine, LnFileFine
<1>11. LnFine(lnStarts[e], e)' /\ lnStarts'[e] \in LnContainer
  <2>1. PICK x: x = [start EXCEPT !.pc = "paths"]
    OBVIOUS
  <2>2. x \in LnContainer /\ x.pc = "paths" /\ x.passwords = start.passwords /\ x.touched = start.touched
    BY <1>1, <2>1 DEF LnContainer
  <2>3. PICK y: y = Touch(x)
    OBVIOUS
  <2>4. /\ y \in LnContainer /\ y.pc = "paths" /\ y.passwords = start.passwords
        /\ start.touched \subseteq y.touched
    BY <1>8, <2>2, <2>3 DEF LnContainer
  <2>5. [lnStarts EXCEPT ![e].pc = "paths"][e] = x
    BY <2>1 DEF LnInv, LnTyped
  <2>6. lnStarts'[e] = y
    BY <1>2, <2>3, <2>5
  <2>7. ASSUME NEW s \in LnSql \ y.touched PROVE LnSecretFine(y, e, s)'
    BY <1>2, <1>5, <2>4, <2>7 DEF LnSecretFine, LnUsable, LnReaches
  <2>8. \A s \in LnFiles: LnFileFine(y, e, s)'
    BY <2>4 DEF LnFileFine
  <2>. QED BY <2>4, <2>6, <2>7, <2>8 DEF LnFine, LnSecretFine, LnFileFine
<1>12. lnStarts' \in [LnEnvs -> LnContainer] /\ lnRuns' \in [LnEnvs -> LnContainer]
  BY <1>2, <1>9, <1>10, <1>11
<1>. QED BY <1>4, <1>9, <1>10, <1>11, <1>12 DEF LnInv, LnTyped, LnTables

(* What is stored is what was stored, but for databases that have changed.   *)
LEMMA LnCommitInv == ASSUME LnInv, NEW e \in LnEnvs, LnCommit(e) PROVE LnInv'
<1>. DEFINE start == lnStarts[e]
            starts == [lnStarts EXCEPT ![e] = LnNothing]
            changed == LnHolds(e) \cap start.touched
<1>1. start.pc = "commit" /\ start \in LnContainer /\ LnFine(start, e)
  BY LnOwn DEF LnCommit, LnAt
<1>2. /\ lnPassword' = [s \in LnSql |-> IF s \in LnHolds(e) THEN start.passwords[s] ELSE lnPassword[s]]
      /\ LnTouched(starts, changed)
      /\ UNCHANGED <<lnStatus, lnLinks, lnServer, lnRotating, lnEditing>>
  BY DEF LnCommit
<1>3. LnTables'
  <2>1. lnPassword' \in [LnSql -> Nat]
    BY <1>1, <1>2, LnTablesTyped DEF LnContainer, LnTables
  <2>. QED BY <1>2, <2>1, LnTablesTyped DEF LnTables
<1>4. LnOnly(changed)
  <2>1. ASSUME NEW s \in LnHolds(e), s \notin changed PROVE s \in LnSql /\ start.passwords[s] = lnPassword[s]
    BY <1>1, <2>1 DEF LnHolds, LnFine, LnSecretFine
  <2>2. ASSUME NEW s \in LnSql \ changed PROVE lnPassword'[s] = lnPassword[s]
    BY <1>2, <2>1
  <2>3. changed \subseteq LnStorages
    BY LnSorts DEF LnHolds
  <2>. QED BY <1>2, <2>2, <2>3 DEF LnOnly
<1>5. starts \in [LnEnvs -> LnContainer] /\ \A o \in LnEnvs: LnFine(starts[o], o)
  <2>1. LnFine(LnNothing, e)
    BY LnNothingType DEF LnFine
  <2>. QED BY <2>1, LnNothingType DEF LnInv, LnTyped
<1>6. PICK z \in [LnEnvs -> LnContainer]: z = starts
  BY <1>5
<1>7. PICK c: c = changed
  OBVIOUS
<1>8. LnOnly(c) /\ LnTouched(z, c) /\ \A o \in LnEnvs: LnFine(z[o], o)
  BY <1>2, <1>4, <1>5, <1>6, <1>7
<1>. QED BY <1>3, <1>8, LnTouchedInv DEF LnInv, LnTyped, LnTables

LEMMA LnStepInv == LnInv /\ [LnNext]_lnVars => LnInv'
<1>. SUFFICES ASSUME LnInv, [LnNext]_lnVars PROVE LnInv'
  OBVIOUS
<1>1. ASSUME NEW s \in LnStorages,
             \/ LnProvision(s) \/ LnMark(s) \/ LnDeprovision(s) \/ LnDisconnect(s)
             \/ \E envs \in SUBSET LnEnvs: LnEdit(s, envs)
      PROVE  LnInv'
  BY <1>1, LnProvisionInv, LnMarkInv, LnDeprovisionInv, LnDisconnectInv, LnEditInv
<1>2. ASSUME NEW s \in LnSql, LnRotate(s) \/ LnRotated(s) PROVE LnInv'
  BY <1>2, LnRotateInv, LnRotatedInv
<1>3. CASE LnSave
  BY <1>3, LnSaveInv
<1>4. ASSUME NEW e \in LnEnvs,
             \/ LnDeleteEnvironment(e) \/ LnRead(e) \/ LnGrant(e) \/ LnPaths(e)
             \/ LnMounts(e) \/ LnCommit(e) \/ LnAbort(e)
      PROVE  LnInv'
  BY <1>4, LnDeleteEnvironmentInv, LnReadInv, LnGrantInv, LnPathsInv, LnMountsInv, LnCommitInv, LnAbortInv
<1>5. CASE UNCHANGED lnVars
  <2>1. LnSame /\ UNCHANGED <<lnStarts, lnRuns>> /\ LnTables'
    BY <1>5, LnTablesTyped DEF lnVars, LnSame, LnTables
  <2>. QED BY <2>1, LnQuietInv
<1>. QED BY <1>1, <1>2, <1>3, <1>4, <1>5 DEF LnNext

LEMMA LnInvariant == LnSpec => []LnInv
BY LnInitInv, LnStepInv, PTL DEF LnSpec

LEMMA LnSettledFine ==
  ASSUME LnInv, NEW e \in LnEnvs, NEW s \in LnSettled(e)
  PROVE  /\ lnRuns[e].pc = "runs" /\ s \in LnStorages
         /\ s \in LnSql => LnSecretFine(lnRuns[e], e, s)
         /\ s \in LnFiles => LnFileFine(lnRuns[e], e, s)
BY DEF LnSettled, LnInv, LnFine

(* A container logs in to its databases, whatever rotations and other        *)
(* deployments did before and after.                                         *)
THEOREM LnSecretsWorkHolds == LnSpec => []LnSecretsWork
<1>1. ASSUME LnInv, NEW e \in LnEnvs, NEW s \in LnSql \cap LnSettled(e) \cap LnHas(e)
      PROVE  lnRuns[e].passwords[s] = lnServer[s]
  <2>1. lnRuns[e].pc = "runs" /\ LnSecretFine(lnRuns[e], e, s)
    BY <1>1, LnSettledFine
  <2>2. s \notin LnFiles /\ lnRuns[e] \in LnContainer
    BY LnAssumption, LnOwn, <1>1
  <2>3. lnRuns[e].passwords[s] # 0
    BY <2>2 DEF LnHas, LnContainer
  <2>. QED BY <2>1, <2>3 DEF LnSecretFine
<1>2. LnInv => LnSecretsWork
  BY <1>1 DEF LnSecretsWork
<1>. QED BY <1>2, LnInvariant, PTL

(* The variables and the mounts of a container agree.                        *)
THEOREM LnPathsMountedHolds == LnSpec => []LnPathsMounted
<1>1. ASSUME LnInv, NEW e \in LnEnvs, NEW s \in LnSettled(e)
      PROVE  s \in lnRuns[e].paths <=> s \in lnRuns[e].mounts
  <2>1. lnRuns[e].pc = "runs" /\ (s \in LnFiles => LnFileFine(lnRuns[e], e, s))
    BY <1>1, LnSettledFine
  <2>2. lnRuns[e].paths \subseteq LnFiles /\ lnRuns[e].mounts \subseteq LnFiles
    BY <1>1, LnOwn DEF LnContainer
  <2>. QED BY <2>1, <2>2 DEF LnFileFine
<1>2. LnInv => LnPathsMounted
  BY <1>1 DEF LnPathsMounted
<1>. QED BY <1>2, LnInvariant, PTL

(* A storage reaches the environments it is connected to and no others.      *)
THEOREM LnFencedHolds == LnSpec => []LnFenced
<1>1. ASSUME LnInv, NEW e \in LnEnvs, NEW s \in LnSettled(e) \cap LnHas(e)
      PROVE  LnReaches(s, e)
  <2>1. /\ lnRuns[e].pc = "runs"
        /\ s \in LnSql => LnSecretFine(lnRuns[e], e, s)
        /\ s \in LnFiles => LnFileFine(lnRuns[e], e, s)
    BY <1>1, LnSettledFine
  <2>2. lnRuns[e].paths \subseteq LnFiles /\ lnRuns[e].mounts \subseteq LnFiles
    BY <1>1, LnOwn DEF LnContainer
  <2>. QED BY <2>1, <2>2 DEF LnHas, LnSecretFine, LnFileFine
<1>2. ASSUME LnInv, NEW e \in LnEnvs, NEW s \in LnSettled(e) \cap LnHas(e)
      PROVE  lnLinks[s] # LnUnlinked /\ \A o \in LnEnvs: o \in lnLinks[s] => e \in lnLinks[s]
  BY <1>1, <1>2 DEF LnReaches
<1>3. LnInv => LnFenced
  BY <1>2 DEF LnFenced
<1>. QED BY <1>3, LnInvariant, PTL
===============================================================================
