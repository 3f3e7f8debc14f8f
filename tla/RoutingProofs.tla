---------------------------- MODULE RoutingProofs -----------------------------
(* Theorems about Routing for any deployments, requests and crashes.         *)
EXTENDS Routing, TLAPS

FinType == [pc : FinSteps, branch : Maybe, env : Alias, found : [AliasTypes -> Maybe]]
ReqType == [pc : {"idle", "rollback", "committed", "queried"}, env : Alias, found : [AliasTypes -> Maybe]]

LEMMA Idles == NoAlias \in Alias /\ NoRoutes \in [AliasTypes -> Maybe] /\ IdleFin \in FinType /\ IdleReq \in ReqType
               /\ IdleFin.pc = "idle" /\ IdleReq.pc = "idle"
BY DEF NoAlias, Alias, Maybe, NoRoutes, IdleFin, FinType, FinSteps, IdleReq, ReqType

LEMMA MovedType ==
  ASSUME NEW a \in Alias, NEW t, NEW d \in Deployments
  PROVE  Moved(a, t, d) \in Alias
BY DEF Moved, Alias, Maybe

LEMMA QueryType ==
  ASSUME TypeOK, NEW include
  PROVE  Query(include) \in [AliasTypes -> Maybe]
BY DEF TypeOK, Query, Alias, Maybe

LEMMA ContentType ==
  ASSUME NEW found \in [AliasTypes -> Maybe]
  PROVE  Content(found) \in [Hosts -> Maybe]
BY DEF Content, Hosts, AliasTypes, Maybe

LEMMA InitType == Init => TypeOK
<1>. SUFFICES ASSUME Init PROVE TypeOK
  OBVIOUS
<1>1. /\ conclusion \in [Deployments -> {"none", "succeeded", "failed"}]
      /\ gone \subseteq Deployments /\ domain \in {"pending", "active"} /\ overlapped \in BOOLEAN
      /\ cleanups \in Nat
  BY DEF Init
<1>5. crashes \in 0 .. MaxCrashes
  BY CrashAssumption DEF Init
<1>2. alias \in [AliasTypes -> Alias] /\ file \in [Hosts -> Maybe]
  BY Idles DEF Init, Maybe
<1>3. fin \in [Deployments -> FinType] /\ req \in [Requests -> ReqType]
  BY Idles DEF Init
<1>4. clean \in [pc : {"idle", "scanning"}, todo : SUBSET Deployments]
  BY DEF Init, IdleClean
<1>. QED BY <1>1, <1>2, <1>3, <1>4, <1>5 DEF TypeOK, FinType, ReqType

(* The job of a deployment does not touch what the requests do.              *)
LEMMA FinalizeType == ASSUME TypeOK, NEW d \in Deployments, Ready(d) \/ Finalize(d) PROVE TypeOK'
<1>. USE Idles
<1>1. fin[d] \in FinType /\ fin \in [Deployments -> FinType]
  BY DEF TypeOK, FinType
<1>2. CASE Ready(d)
  BY <1>1, <1>2 DEF Ready, TypeOK, FinType, FinSteps
<1>3. CASE FinalizeLookup(d)
  <2>1. alias["branch"].cur \in Maybe
    BY DEF TypeOK, AliasTypes, Alias
  <2>2. fin' \in [Deployments -> FinType]
    BY <1>1, <1>3, <2>1 DEF FinalizeLookup, FinType, FinSteps
  <2>. QED BY <1>3, <2>2 DEF FinalizeLookup, TypeOK, FinType, ReqType
<1>4. CASE FinalizeLock(d)
  <2>1. alias["environment"] \in Alias
    BY DEF TypeOK, AliasTypes
  <2>2. fin' \in [Deployments -> FinType]
    BY <1>1, <1>4, <2>1 DEF FinalizeLock, FinType, FinSteps
  <2>. QED BY <1>4, <2>2 DEF FinalizeLock, TypeOK, FinType, ReqType
<1>5. CASE FinalizeAliases(d)
  <2>1. fin' \in [Deployments -> FinType]
    BY <1>1, <1>5 DEF FinalizeAliases, FinType, FinSteps, Maybe
  <2>2. alias' \in [AliasTypes -> Alias]
    <3>1. Moved(fin[d].env, "environment", d) \in Alias /\ fin[d].env \in Alias
      BY <1>1, MovedType DEF FinType
    <3>2. \A t \in AliasTypes : alias[t] \in Alias /\ Moved(alias[t], t, d) \in Alias
      BY MovedType DEF TypeOK
    <3>3. alias["environment"] \in Alias
      BY <3>2 DEF AliasTypes
    <3>. DEFINE row == alias["environment"]
                new == Moved(fin[d].env, "environment", d)
                env == [cur |-> IF new.cur # fin[d].env.cur THEN new.cur ELSE row.cur,
                        prev |-> IF new.prev # fin[d].env.prev THEN new.prev ELSE row.prev]
    <3>4. env \in Alias
      BY <3>1, <3>3 DEF Alias
    <3>5. alias' = [t \in AliasTypes |->
                      CASE t = "branch" -> IF fin[d].branch = d THEN alias[t] ELSE Moved(alias[t], t, d)
                        [] t = "environment" -> env
                        [] t = "environment_id" -> Moved(alias[t], t, d)]
      BY <1>5 DEF FinalizeAliases
    <3>. QED BY <3>2, <3>4, <3>5 DEF AliasTypes
  <2>3. overlapped' \in BOOLEAN
    BY <1>5 DEF FinalizeAliases, Change
  <2>. QED BY <1>5, <2>1, <2>2, <2>3 DEF FinalizeAliases, TypeOK, FinType, ReqType
<1>6. CASE FinalizeQuery(d)
  <2>1. fin' \in [Deployments -> FinType]
    BY <1>1, <1>6, QueryType DEF FinalizeQuery, FinType, FinSteps
  <2>. QED BY <1>6, <2>1 DEF FinalizeQuery, TypeOK, FinType, ReqType
<1>7. CASE FinalizeWrite(d)
  <2>1. fin' \in [Deployments -> FinType]
    BY <1>1, <1>7 DEF FinalizeWrite, FinType, FinSteps
  <2>2. file' \in [Hosts -> Maybe]
    BY <1>1, <1>7, ContentType DEF FinalizeWrite, FinType
  <2>. QED BY <1>7, <2>1, <2>2 DEF FinalizeWrite, TypeOK, FinType, ReqType
<1>8. CASE FinalizeConclude(d)
  <2>1. fin' \in [Deployments -> FinType]
    BY <1>1, <1>8 DEF FinalizeConclude, FinType, FinSteps
  <2>. QED BY <1>8, <2>1 DEF FinalizeConclude, TypeOK, FinType, ReqType
<1>9. CASE FinalizeDone(d)
  <2>1. fin' \in [Deployments -> FinType]
    BY <1>1, <1>9 DEF FinalizeDone
  <2>. QED BY <1>9, <2>1 DEF FinalizeDone, TypeOK, FinType, ReqType
<1>10. CASE Fail(d)
  <2>1. fin' \in [Deployments -> FinType]
    BY <1>1, <1>10 DEF Fail
  <2>. QED BY <1>10, <2>1 DEF Fail, TypeOK, FinType, ReqType
<1>. QED BY <1>2, <1>3, <1>4, <1>5, <1>6, <1>7, <1>8, <1>9, <1>10 DEF Finalize

LEMMA WorkerType ==
  ASSUME TypeOK, CleanupLoad \/ CleanupDone \/ WorkerCrash \/ \E d \in Deployments : CleanupOne(d)
  PROVE  TypeOK'
<1>1. CASE CleanupLoad
  BY <1>1 DEF CleanupLoad, TypeOK
<1>2. CASE CleanupDone
  BY <1>2 DEF CleanupDone, IdleClean, TypeOK
<1>3. CASE \E d \in Deployments : CleanupOne(d)
  BY <1>3 DEF CleanupOne, TypeOK
<1>4. CASE WorkerCrash
  <2>1. [IdleFin EXCEPT !.pc = "queued"] \in FinType
    BY Idles DEF FinType, FinSteps
  <2>2. fin' \in [Deployments -> FinType]
    BY <1>4, <2>1 DEF WorkerCrash, TypeOK, FinType
  <2>3. crashes' \in 0 .. MaxCrashes /\ cleanups' \in Nat
    BY <1>4, CrashAssumption DEF WorkerCrash, TypeOK
  <2>. QED BY <1>4, <2>2, <2>3 DEF WorkerCrash, IdleClean, TypeOK, FinType
<1>. QED BY <1>1, <1>2, <1>3, <1>4

LEMMA RequestType == ASSUME TypeOK, NEW r \in Requests, Request(r) PROVE TypeOK'
<1>. USE Idles
<1>1. req[r] \in ReqType /\ req \in [Requests -> ReqType] /\ alias["environment"] \in Alias
  BY DEF TypeOK, ReqType, AliasTypes
<1>2. CASE RollbackLoad(r)
  BY <1>1, <1>2 DEF RollbackLoad, TypeOK, ReqType
<1>3. CASE RollbackCommit(r)
  <2>1. [cur |-> req[r].env.prev, prev |-> req[r].env.cur] \in Alias
    BY <1>1 DEF ReqType, Alias
  <2>2. req' \in [Requests -> ReqType] /\ alias' \in [AliasTypes -> Alias]
    BY <1>1, <1>3, <2>1 DEF RollbackCommit, ReqType, TypeOK
  <2>. QED BY <1>3, <2>2 DEF RollbackCommit, Change, TypeOK, ReqType
<1>4. CASE ChangeSecurity(r)
  BY <1>1, <1>4 DEF ChangeSecurity, Change, TypeOK, ReqType
<1>5. CASE VerifyDomain(r)
  BY <1>1, <1>5 DEF VerifyDomain, Change, TypeOK, ReqType
<1>6. CASE RemoveDomain(r)
  BY <1>1, <1>6 DEF RemoveDomain, Change, TypeOK, ReqType
<1>7. CASE EditDomain(r)
  BY <1>7 DEF EditDomain, TypeOK
<1>8. CASE RewriteQuery(r)
  <2>1. req' \in [Requests -> ReqType]
    BY <1>1, <1>8, QueryType DEF RewriteQuery, ReqType
  <2>. QED BY <1>8, <2>1 DEF RewriteQuery, TypeOK, ReqType
<1>9. CASE RewriteWrite(r)
  <2>1. req' \in [Requests -> ReqType] /\ file' \in [Hosts -> Maybe]
    BY <1>1, <1>9, ContentType DEF RewriteWrite, ReqType
  <2>. QED BY <1>9, <2>1 DEF RewriteWrite, TypeOK, ReqType
<1>. QED BY <1>2, <1>3, <1>4, <1>5, <1>6, <1>7, <1>8, <1>9 DEF Request

LEMMA StepType == TypeOK /\ [Next]_vars => TypeOK'
<1>. SUFFICES ASSUME TypeOK, [Next]_vars PROVE TypeOK'
  OBVIOUS
<1>1. CASE UNCHANGED vars
  BY <1>1 DEF vars, TypeOK
<1>. QED BY <1>1, FinalizeType, WorkerType, RequestType DEF Next

(* Every variable has its type in every reachable state.                     *)
THEOREM TypeOKHolds == Spec => []TypeOK
BY InitType, StepType, PTL DEF Spec
-----------------------------------------------------------------------------
(* There is somewhere else to roll back to.                                  *)

(* The environment alias has a previous deployment only beside a current one, *)
(* a different one, and in production; it and the branch alias come together. *)
RowsDiffer ==
  LET env == alias["environment"] IN
  /\ env.cur = None => env.prev = None
  /\ env.cur # None => env.prev # env.cur
  /\ env.cur = None <=> alias["branch"].cur = None
  /\ ~Production => env.prev = None

(* The same of what a job has read of it under the lock of the branch alias, *)
(* and while a job has read that there is none, none comes about.            *)
JobDiffers(d) ==
  LET env == fin[d].env IN
  /\ fin[d].branch # None => alias["branch"].cur # None
  /\ fin[d].pc = "locked" =>
       /\ env.cur # None => env.prev # env.cur /\ alias["environment"].cur # None
       /\ env.cur = None => env.prev = None /\ fin[d].branch = None /\ alias["branch"].cur = None
       /\ ~Production => env.prev = None

(* And of what a rollback has read.                                          *)
RollbackDiffers(r) ==
  req[r].pc = "rollback" => /\ Production /\ alias["environment"].cur # None
                            /\ req[r].env.prev # None /\ req[r].env.prev # req[r].env.cur

OneLock == \A d, e \in Deployments : Locking(d) /\ Locking(e) => d = e

DiffInv ==
  /\ TypeOK /\ RowsDiffer /\ OneLock
  /\ \A d \in Deployments : JobDiffers(d)
  /\ \A r \in Requests : RollbackDiffers(r)

LEMMA DiffInit == Init => DiffInv
<1>. SUFFICES ASSUME Init PROVE DiffInv
  OBVIOUS
<1>1. TypeOK
  BY InitType
<1>2. alias["environment"] = NoAlias /\ alias["branch"] = NoAlias
  BY DEF Init, AliasTypes
<1>3. \A d \in Deployments : fin[d].pc = "idle" /\ fin[d].branch = None
  BY DEF Init, IdleFin
<1>4. \A r \in Requests : req[r].pc = "idle"
  BY DEF Init, IdleReq
<1>. QED BY <1>1, <1>2, <1>3, <1>4 DEF DiffInv, RowsDiffer, OneLock, Locking, JobDiffers, RollbackDiffers, NoAlias

(* Steps that leave the aliases alone, and of a job or request at most what  *)
(* it has read.                                                              *)
LEMMA DiffKept ==
  ASSUME DiffInv, TypeOK', alias' = alias,
         \A d \in Deployments : \/ fin'[d] = fin[d]
                                \/ fin'[d].pc # "locked" /\ fin'[d].branch \in {None, fin[d].branch},
         \A r \in Requests : req'[r] = req[r] \/ req'[r].pc # "rollback"
  PROVE  DiffInv'
<1>1. RowsDiffer'
  BY DEF DiffInv, RowsDiffer
<1>2. OneLock'
  BY DEF DiffInv, OneLock, Locking
<1>3. ASSUME NEW d \in Deployments PROVE JobDiffers(d)'
  BY DEF DiffInv, JobDiffers
<1>4. ASSUME NEW r \in Requests PROVE RollbackDiffers(r)'
  BY DEF DiffInv, RollbackDiffers
<1>. QED BY <1>1, <1>2, <1>3, <1>4 DEF DiffInv

LEMMA DiffLookup == ASSUME DiffInv, NEW d \in Deployments, FinalizeLookup(d), TypeOK' PROVE DiffInv'
<1>1. /\ alias' = alias /\ req' = req
      /\ fin'[d].pc = "looked" /\ fin'[d].branch = alias["branch"].cur
      /\ \A e \in Deployments \ {d} : fin'[e] = fin[e]
  BY DEF FinalizeLookup, DiffInv, TypeOK
<1>2. RowsDiffer' /\ \A r \in Requests : RollbackDiffers(r)'
  BY <1>1 DEF DiffInv, RowsDiffer, RollbackDiffers
<1>3. OneLock'
  BY <1>1 DEF DiffInv, OneLock, Locking
<1>4. ASSUME NEW e \in Deployments PROVE JobDiffers(e)'
  BY <1>1 DEF DiffInv, JobDiffers
<1>. QED BY <1>2, <1>3, <1>4 DEF DiffInv

LEMMA DiffLock == ASSUME DiffInv, NEW d \in Deployments, FinalizeLock(d), TypeOK' PROVE DiffInv'
<1>1. CASE fin[d].branch = None /\ alias["branch"].cur # None
  <2>1. /\ alias' = alias /\ req' = req /\ fin'[d].pc = "failing" /\ fin'[d].branch = fin[d].branch
        /\ \A e \in Deployments \ {d} : fin'[e] = fin[e]
    BY <1>1 DEF FinalizeLock, DiffInv, TypeOK
  <2>. QED BY <2>1, DiffKept
<1>2. CASE ~(fin[d].branch = None /\ alias["branch"].cur # None)
  <2>1. /\ alias' = alias /\ req' = req
        /\ fin'[d].pc = "locked" /\ fin'[d].branch = fin[d].branch /\ fin'[d].env = alias["environment"]
        /\ \A e \in Deployments \ {d} : fin'[e] = fin[e]
        /\ fin[d].branch = d \/ \A e \in Deployments : ~Locking(e)
    BY <1>2 DEF FinalizeLock, DiffInv, TypeOK
  <2>2. RowsDiffer' /\ \A r \in Requests : RollbackDiffers(r)'
    BY <2>1 DEF DiffInv, RowsDiffer, RollbackDiffers
  <2>3. OneLock'
    BY <2>1 DEF DiffInv, OneLock, Locking
  <2>4. JobDiffers(d)'
    BY <1>2, <2>1 DEF DiffInv, RowsDiffer, JobDiffers
  <2>5. ASSUME NEW e \in Deployments \ {d} PROVE JobDiffers(e)'
    BY <2>1 DEF DiffInv, JobDiffers
  <2>. QED BY <2>2, <2>3, <2>4, <2>5 DEF DiffInv
<1>. QED BY <1>1, <1>2

(* A job moves the environment alias to its deployment and keeps as previous *)
(* what it has read, whatever a rollback has made of the row meanwhile.      *)
LEMMA DiffAliases == ASSUME DiffInv, NEW d \in Deployments, FinalizeAliases(d), TypeOK' PROVE DiffInv'
<1>. DEFINE read == fin[d].env
            row == alias["environment"]
            new == Moved(read, "environment", d)
            env == alias'["environment"]
<1>1. /\ env.cur = IF new.cur # read.cur THEN new.cur ELSE row.cur
      /\ env.prev = IF new.prev # read.prev THEN new.prev ELSE row.prev
      /\ alias'["branch"] = IF fin[d].branch = d THEN alias["branch"] ELSE Moved(alias["branch"], "branch", d)
  BY DEF FinalizeAliases, AliasTypes
<1>2. /\ req' = req /\ fin[d].pc = "locked"
      /\ fin'[d].pc = "aliased" /\ fin'[d].branch = None
      /\ \A e \in Deployments \ {d} : fin'[e] = fin[e]
  BY DEF FinalizeAliases, DiffInv, TypeOK
<1>3. JobDiffers(d) /\ RowsDiffer /\ d # None
  BY NoneAssumption DEF DiffInv
<1>4. alias'["branch"].cur # None
  BY <1>1, <1>3 DEF JobDiffers, Moved
<1>5. env.cur # None /\ env.prev # env.cur /\ (~Production => env.prev = None)
  <2>1. CASE read.cur = d
    <3>1. env.cur = row.cur /\ env.prev = row.prev
      BY <1>1, <2>1 DEF Moved
    <3>. QED BY <1>2, <1>3, <2>1, <3>1 DEF JobDiffers, RowsDiffer
  <2>2. CASE read.cur # d
    <3>1. new.cur = d /\ new.prev = IF Production THEN read.cur ELSE None
      BY <2>2 DEF Moved
    <3>2. env.cur = d
      BY <1>1, <2>2, <3>1
    <3>3. CASE ~Production
      BY <1>1, <1>2, <1>3, <3>1, <3>2, <3>3 DEF JobDiffers, RowsDiffer
    <3>4. CASE Production /\ read.cur = None
      <4>1. env.prev = row.prev
        BY <1>1, <1>2, <1>3, <3>1, <3>4 DEF JobDiffers
      <4>. QED BY <1>2, <1>3, <3>2, <3>4, <4>1 DEF JobDiffers, RowsDiffer
    <3>5. CASE Production /\ read.cur # None
      <4>1. env.prev = read.cur
        BY <1>1, <1>2, <1>3, <3>1, <3>5 DEF JobDiffers
      <4>. QED BY <1>3, <2>2, <3>2, <3>5, <4>1
    <3>6. Production \in BOOLEAN
      BY ProductionAssumption
    <3>. QED BY <3>3, <3>4, <3>5, <3>6
  <2>. QED BY <2>1, <2>2
<1>6. RowsDiffer'
  BY <1>4, <1>5 DEF RowsDiffer
<1>7. OneLock'
  BY <1>2 DEF DiffInv, OneLock, Locking
<1>8. JobDiffers(d)'
  BY <1>2 DEF JobDiffers
<1>9. ASSUME NEW e \in Deployments \ {d} PROVE JobDiffers(e)'
  <2>1. fin[e].pc = "locked" => fin[e].env.cur # None
    <3>1. SUFFICES ASSUME fin[e].pc = "locked", fin[e].env.cur = None PROVE FALSE
      OBVIOUS
    <3>2. fin[e].branch = None /\ alias["branch"].cur = None
      BY <3>1 DEF DiffInv, JobDiffers
    <3>3. fin[d].branch = None
      BY <1>3, <3>2 DEF JobDiffers
    <3>4. e # None
      BY NoneAssumption
    <3>5. Locking(d) /\ Locking(e)
      BY <1>2, <1>3, <3>1, <3>2, <3>3, <3>4 DEF Locking
    <3>. QED BY <3>5 DEF DiffInv, OneLock
  <2>. QED BY <1>2, <1>4, <1>5, <2>1 DEF DiffInv, JobDiffers
<1>10. ASSUME NEW r \in Requests PROVE RollbackDiffers(r)'
  BY <1>2, <1>5 DEF DiffInv, RollbackDiffers
<1>. QED BY <1>6, <1>7, <1>8, <1>9, <1>10 DEF DiffInv

LEMMA DiffRollback ==
  ASSUME DiffInv, NEW r \in Requests, RollbackLoad(r) \/ RollbackCommit(r), TypeOK'
  PROVE  DiffInv'
<1>1. CASE RollbackLoad(r)
  <2>1. /\ alias' = alias /\ fin' = fin /\ alias["environment"].prev # None
        /\ req'[r].env = alias["environment"]
        /\ \A q \in Requests \ {r} : req'[q] = req[q]
    BY <1>1 DEF RollbackLoad, DiffInv, TypeOK
  <2>2. RowsDiffer' /\ OneLock' /\ \A d \in Deployments : JobDiffers(d)'
    BY <2>1 DEF DiffInv, RowsDiffer, OneLock, Locking, JobDiffers
  <2>3. ASSUME NEW q \in Requests PROVE RollbackDiffers(q)'
    BY <2>1 DEF DiffInv, RowsDiffer, RollbackDiffers
  <2>. QED BY <2>2, <2>3 DEF DiffInv
<1>2. CASE RollbackCommit(r)
  <2>1. /\ alias'["environment"] = [cur |-> req[r].env.prev, prev |-> req[r].env.cur]
        /\ alias'["branch"] = alias["branch"] /\ fin' = fin
        /\ req'[r].pc = "committed"
        /\ \A q \in Requests \ {r} : req'[q] = req[q]
    BY <1>2 DEF RollbackCommit, DiffInv, TypeOK, AliasTypes
  <2>2. Production /\ alias["environment"].cur # None /\ req[r].env.prev # None /\ req[r].env.prev # req[r].env.cur
    BY <1>2 DEF RollbackCommit, DiffInv, RollbackDiffers
  <2>3. RowsDiffer' /\ OneLock'
    BY <2>1, <2>2 DEF DiffInv, RowsDiffer, OneLock, Locking
  <2>4. ASSUME NEW d \in Deployments PROVE JobDiffers(d)'
    BY <2>1, <2>2 DEF DiffInv, RowsDiffer, JobDiffers
  <2>5. ASSUME NEW q \in Requests PROVE RollbackDiffers(q)'
    BY <2>1, <2>2 DEF DiffInv, RollbackDiffers
  <2>. QED BY <2>3, <2>4, <2>5 DEF DiffInv
<1>. QED BY <1>1, <1>2

LEMMA DiffStep == DiffInv /\ [Next]_vars => DiffInv'
<1>. SUFFICES ASSUME DiffInv, [Next]_vars PROVE DiffInv'
  OBVIOUS
<1>1. TypeOK /\ TypeOK'
  BY StepType DEF DiffInv
<1>. USE <1>1
<1>2. ASSUME NEW d \in Deployments, Ready(d) \/ Finalize(d) PROVE DiffInv'
  <2>1. CASE FinalizeLookup(d) \/ FinalizeLock(d) \/ FinalizeAliases(d)
    BY <2>1, DiffLookup, DiffLock, DiffAliases
  <2>2. CASE \/ Ready(d) \/ FinalizeQuery(d) \/ FinalizeWrite(d) \/ FinalizeConclude(d)
             \/ FinalizeDone(d) \/ Fail(d)
    <3>1. /\ alias' = alias /\ req' = req
          /\ \A e \in Deployments \ {d} : fin'[e] = fin[e]
          /\ fin'[d].pc # "locked" /\ fin'[d].branch \in {None, fin[d].branch}
      BY <2>2 DEF Ready, FinalizeQuery, FinalizeWrite, FinalizeConclude, FinalizeDone, Fail, IdleFin, TypeOK
    <3>. QED BY <3>1, DiffKept
  <2>. QED BY <1>2, <2>1, <2>2 DEF Finalize
<1>3. ASSUME NEW r \in Requests, Request(r) PROVE DiffInv'
  <2>1. CASE RollbackLoad(r) \/ RollbackCommit(r)
    BY <2>1, DiffRollback
  <2>2. CASE \/ ChangeSecurity(r) \/ VerifyDomain(r) \/ RemoveDomain(r) \/ EditDomain(r)
             \/ RewriteQuery(r) \/ RewriteWrite(r)
    <3>1. /\ alias' = alias /\ fin' = fin
          /\ \A q \in Requests : req'[q] = req[q] \/ req'[q].pc # "rollback"
      BY <2>2 DEF ChangeSecurity, VerifyDomain, RemoveDomain, EditDomain, RewriteQuery, RewriteWrite,
                  IdleReq, TypeOK
    <3>. QED BY <3>1, DiffKept
  <2>. QED BY <1>3, <2>1, <2>2 DEF Request
<1>4. CASE WorkerCrash
  <2>1. /\ alias' = alias /\ req' = req
        /\ \A d \in Deployments : fin'[d] = fin[d] \/ (fin'[d].pc # "locked" /\ fin'[d].branch = None)
    BY <1>4 DEF WorkerCrash, IdleFin, TypeOK
  <2>. QED BY <2>1, DiffKept
<1>5. CASE CleanupLoad \/ CleanupDone \/ \E d \in Deployments : CleanupOne(d)
  BY <1>5, DiffKept DEF CleanupLoad, CleanupDone, CleanupOne
<1>6. CASE UNCHANGED vars
  BY <1>6, DiffKept DEF vars
<1>. QED BY <1>2, <1>3, <1>4, <1>5, <1>6 DEF Next

(* Whatever crashes and races, the deployment to roll back to is another one *)
(* than the current one.                                                     *)
THEOREM PreviousDiffersHolds == Spec => []PreviousDiffers
<1>1. DiffInv => PreviousDiffers
  BY DEF DiffInv, RowsDiffer, PreviousDiffers
<1>. QED BY <1>1, DiffInit, DiffStep, PTL DEF Spec
-----------------------------------------------------------------------------
(* Without rollbacks and crashes.                                            *)

Calm == ~UserRollbacks /\ MaxCrashes = 0

(* Until its job has moved the aliases no alias has ever named a deployment, *)
(* and under the lock they are as the job has read them.                     *)
JobCalm(d) ==
  /\ fin[d].pc \in {"queued", "looked", "locked", "failing", "aliased", "queried", "written"} =>
       conclusion[d] = "none"
  /\ fin[d].pc \in {"idle", "queued", "looked", "locked", "failing"} /\ conclusion[d] = "none" =>
       d \notin Referenced
  /\ fin[d].pc = "concluded" => conclusion[d] # "none"
  /\ fin[d].pc \in {"looked", "locked"} => fin[d].branch # d
  /\ fin[d].pc = "locked" => fin[d].env = alias["environment"]

(* What was or will be stopped is concluded and referred to by no alias.     *)
Stopped ==
  /\ \A d \in gone \cup clean.todo : conclusion[d] # "none"
  /\ Referenced \cap (gone \cup clean.todo) = {}

CalmInv ==
  /\ DiffInv /\ AliasesTogether /\ Stopped
  /\ \A d \in Deployments : JobCalm(d)
  /\ \A r \in Requests : req[r].pc # "rollback"

LEMMA ReferencedRows ==
  Referenced = {d \in {alias["branch"].cur, alias["branch"].prev, alias["environment"].cur,
                       alias["environment"].prev, alias["environment_id"].cur, alias["environment_id"].prev} : d # None}
BY DEF Referenced, AliasTypes

LEMMA CalmInit == Init => CalmInv
<1>. SUFFICES ASSUME Init PROVE CalmInv
  OBVIOUS
<1>1. DiffInv
  BY DiffInit
<1>2. \A t \in AliasTypes : alias[t].cur = None /\ alias[t].prev = None
  BY DEF Init, NoAlias
<1>3. Referenced = {}
  BY <1>2 DEF Referenced
<1>4. gone = {} /\ clean.todo = {}
  BY DEF Init, IdleClean
<1>5. \A d \in Deployments : fin[d].pc = "idle"
  BY DEF Init, IdleFin
<1>6. \A r \in Requests : req[r].pc = "idle"
  BY DEF Init, IdleReq
<1>7. AliasesTogether
  BY <1>2 DEF AliasesTogether, AliasTypes
<1>. QED BY <1>1, <1>3, <1>4, <1>5, <1>6, <1>7 DEF CalmInv, Stopped, JobCalm

(* Steps that leave the aliases alone.                                       *)
LEMMA CalmKept ==
  ASSUME CalmInv, DiffInv', alias' = alias, Stopped', \A d \in Deployments : JobCalm(d)',
         \A r \in Requests : req'[r].pc # "rollback"
  PROVE  CalmInv'
<1>1. AliasesTogether'
  BY DEF CalmInv, AliasesTogether
<1>. QED BY <1>1 DEF CalmInv

(* A job's aliases: all of them name its deployment, the environment's also  *)
(* the one before.                                                           *)
LEMMA CalmAliases ==
  ASSUME CalmInv, NEW d \in Deployments, FinalizeAliases(d), DiffInv'
  PROVE  CalmInv'
<1>1. /\ TypeOK /\ JobCalm(d) /\ fin[d].pc = "locked" /\ d # None
      /\ conclusion[d] = "none" /\ d \notin Referenced /\ fin[d].branch # d /\ fin[d].env = alias["environment"]
  BY NoneAssumption DEF CalmInv, DiffInv, JobCalm, FinalizeAliases
<1>2. alias["branch"].cur # d /\ alias["environment"].cur # d /\ alias["environment_id"].cur # d
  BY <1>1, ReferencedRows
<1>3. /\ alias'["branch"] = Moved(alias["branch"], "branch", d)
      /\ alias'["environment_id"] = Moved(alias["environment_id"], "environment_id", d)
      /\ alias'["environment"].cur = d
      /\ alias'["environment"].prev \in {alias["environment"].cur, None}
  <2>. DEFINE read == fin[d].env
              new == Moved(read, "environment", d)
  <2>1. new.cur = d /\ new.prev \in {read.cur, None}
    BY <1>1, <1>2 DEF Moved
  <2>2. /\ alias'["branch"] = Moved(alias["branch"], "branch", d)
        /\ alias'["environment_id"] = Moved(alias["environment_id"], "environment_id", d)
        /\ alias'["environment"].cur = IF new.cur # read.cur THEN new.cur ELSE alias["environment"].cur
        /\ alias'["environment"].prev = IF new.prev # read.prev THEN new.prev ELSE alias["environment"].prev
    BY <1>1 DEF FinalizeAliases, AliasTypes
  <2>. QED BY <1>1, <1>2, <2>1, <2>2
<1>4. /\ alias'["branch"].cur = d /\ alias'["branch"].prev = None
      /\ alias'["environment_id"].cur = d /\ alias'["environment_id"].prev = None
  BY <1>2, <1>3 DEF Moved
<1>5. Referenced' \subseteq Referenced \cup {d}
  <2>1. alias["environment"].cur # None => alias["environment"].cur \in Referenced
    BY ReferencedRows
  <2>2. Referenced' = {x \in {alias'["branch"].cur, alias'["branch"].prev, alias'["environment"].cur,
                             alias'["environment"].prev, alias'["environment_id"].cur,
                             alias'["environment_id"].prev} : x # None}
    BY DEF Referenced, AliasTypes
  <2>. QED BY <1>3, <1>4, <2>1, <2>2
<1>6. AliasesTogether'
  BY <1>3, <1>4 DEF AliasesTogether, AliasTypes
<1>7. /\ UNCHANGED <<conclusion, gone, clean, req>>
      /\ fin'[d].pc = "aliased"
      /\ \A e \in Deployments \ {d} : fin'[e] = fin[e]
  BY <1>1 DEF FinalizeAliases, TypeOK
<1>8. Stopped'
  BY <1>1, <1>5, <1>7 DEF CalmInv, Stopped
<1>9. JobCalm(d)'
  BY <1>1, <1>7 DEF JobCalm
<1>10. ASSUME NEW e \in Deployments \ {d} PROVE JobCalm(e)'
  <2>1. fin[e].pc # "locked"
    <3>1. fin[e].pc = "locked" => Locking(e) /\ Locking(d)
      BY <1>1 DEF CalmInv, JobCalm, Locking
    <3>. QED BY <3>1 DEF CalmInv, DiffInv, OneLock
  <2>. QED BY <1>5, <1>7, <2>1 DEF CalmInv, JobCalm
<1>11. \A r \in Requests : req'[r].pc # "rollback"
  BY <1>7 DEF CalmInv
<1>. QED BY <1>6, <1>8, <1>9, <1>10, <1>11 DEF CalmInv

LEMMA CalmFinalize ==
  ASSUME CalmInv, NEW d \in Deployments, Ready(d) \/ Finalize(d), ~FinalizeAliases(d), DiffInv'
  PROVE  CalmInv'
<1>1. TypeOK /\ JobCalm(d)
  BY DEF CalmInv, DiffInv
<1>2. alias' = alias /\ req' = req /\ clean' = clean /\ \A e \in Deployments \ {d} : fin'[e] = fin[e]
  BY <1>1 DEF Ready, Finalize, FinalizeLookup, FinalizeLock, FinalizeQuery, FinalizeWrite,
              FinalizeConclude, FinalizeDone, Fail, TypeOK
<1>3. Referenced' = Referenced
  BY <1>2 DEF Referenced
<1>4. \A r \in Requests : req'[r].pc # "rollback"
  BY <1>2 DEF CalmInv
<1>5. CASE Ready(d) \/ FinalizeLookup(d) \/ FinalizeLock(d)
  <2>1. conclusion' = conclusion /\ gone' = gone
    BY <1>5 DEF Ready, FinalizeLookup, FinalizeLock
  <2>2. ASSUME Ready(d) PROVE JobCalm(d)'
    BY <1>1, <1>3, <2>1, <2>2 DEF Ready, JobCalm, TypeOK
  <2>3. ASSUME FinalizeLookup(d) PROVE JobCalm(d)'
    <3>1. alias["branch"].cur # None => alias["branch"].cur \in Referenced
      BY ReferencedRows
    <3>2. fin[d].pc = "queued" /\ fin'[d].pc = "looked" /\ fin'[d].branch = alias["branch"].cur /\ d # None
      BY <1>1, <2>3, NoneAssumption DEF FinalizeLookup, TypeOK
    <3>. QED BY <1>1, <1>3, <2>1, <3>1, <3>2 DEF JobCalm
  <2>4. ASSUME FinalizeLock(d) PROVE JobCalm(d)'
    <3>1. /\ fin[d].pc = "looked" /\ fin'[d].branch = fin[d].branch
          /\ fin'[d].pc = "failing" \/ (fin'[d].pc = "locked" /\ fin'[d].env = alias["environment"])
      BY <1>1, <2>4 DEF FinalizeLock, TypeOK
    <3>. QED BY <1>1, <1>2, <1>3, <2>1, <3>1 DEF JobCalm
  <2>5. JobCalm(d)'
    BY <1>5, <2>2, <2>3, <2>4
  <2>6. ASSUME NEW e \in Deployments \ {d} PROVE JobCalm(e)'
    BY <1>2, <1>3, <2>1 DEF CalmInv, JobCalm
  <2>7. Stopped'
    BY <1>2, <1>3, <2>1 DEF CalmInv, Stopped
  <2>. QED BY <1>2, <1>4, <2>5, <2>6, <2>7, CalmKept
<1>6. CASE FinalizeQuery(d) \/ FinalizeWrite(d) \/ FinalizeConclude(d) \/ FinalizeDone(d) \/ Fail(d)
  <2>1. JobCalm(d)'
    <3>1. ASSUME FinalizeQuery(d) \/ FinalizeWrite(d) PROVE JobCalm(d)'
      BY <1>1, <3>1 DEF FinalizeQuery, FinalizeWrite, JobCalm, TypeOK
    <3>2. ASSUME FinalizeConclude(d) PROVE JobCalm(d)'
      <4>1. fin'[d].pc = "concluded" /\ conclusion'[d] = "succeeded"
        BY <1>1, <3>2 DEF FinalizeConclude, TypeOK
      <4>. QED BY <4>1 DEF JobCalm
    <3>3. ASSUME FinalizeDone(d) \/ Fail(d) PROVE JobCalm(d)'
      <4>1. fin'[d].pc = "idle"
        BY <1>1, <3>3 DEF FinalizeDone, Fail, IdleFin, TypeOK
      <4>2. conclusion'[d] # "none"
        BY <1>1, <3>3 DEF FinalizeDone, Fail, JobCalm, TypeOK
      <4>. QED BY <4>1, <4>2 DEF JobCalm
    <3>. QED BY <1>6, <3>1, <3>2, <3>3
  <2>2. \A e \in Deployments \ {d} : conclusion'[e] = conclusion[e]
    BY <1>1, <1>6 DEF FinalizeQuery, FinalizeWrite, FinalizeConclude, FinalizeDone, Fail, TypeOK
  <2>3. ASSUME NEW e \in Deployments \ {d} PROVE JobCalm(e)'
    BY <1>2, <1>3, <2>2 DEF CalmInv, JobCalm
  <2>4. Stopped'
    <3>1. /\ gone' = gone \/ (gone' = gone \cup {d} /\ d \notin Referenced /\ conclusion'[d] # "none")
          /\ conclusion[d] # "none" => conclusion'[d] # "none"
      BY <1>1, <1>6
         DEF FinalizeQuery, FinalizeWrite, FinalizeConclude, FinalizeDone, Fail, JobCalm, TypeOK
    <3>2. gone \cup clean.todo \subseteq Deployments
      BY <1>1 DEF TypeOK
    <3>. QED BY <1>2, <1>3, <2>2, <3>1, <3>2 DEF CalmInv, Stopped
  <2>. QED BY <1>2, <1>4, <2>1, <2>3, <2>4, CalmKept
<1>. QED BY <1>5, <1>6 DEF Finalize

LEMMA CalmCleanup ==
  ASSUME CalmInv, CleanupLoad \/ CleanupDone \/ \E d \in Deployments : CleanupOne(d), DiffInv'
  PROVE  CalmInv'
<1>1. UNCHANGED <<conclusion, alias, fin, req>>
  BY DEF CleanupLoad, CleanupDone, CleanupOne
<1>2. Referenced' = Referenced
  BY <1>1 DEF Referenced
<1>3. \A d \in Deployments : JobCalm(d)'
  BY <1>1, <1>2 DEF CalmInv, JobCalm
<1>4. Stopped'
  <2>1. TypeOK
    BY DEF CalmInv, DiffInv
  <2>2. CASE CleanupLoad
    BY <1>1, <1>2, <2>2 DEF CleanupLoad, CalmInv, Stopped
  <2>3. CASE CleanupDone
    BY <1>1, <1>2, <2>3 DEF CleanupDone, IdleClean, CalmInv, Stopped
  <2>4. CASE \E d \in Deployments : CleanupOne(d)
    BY <1>1, <1>2, <2>1, <2>4 DEF CleanupOne, CalmInv, Stopped, TypeOK
  <2>. QED BY <2>2, <2>3, <2>4
<1>. QED BY <1>1, <1>3, <1>4, CalmKept DEF CalmInv

LEMMA CalmRequest ==
  ASSUME Calm, CalmInv, NEW r \in Requests, Request(r), DiffInv'
  PROVE  CalmInv'
<1>1. ~RollbackLoad(r) /\ ~RollbackCommit(r)
  BY DEF Calm, RollbackLoad, RollbackCommit, CalmInv
<1>2. /\ UNCHANGED <<conclusion, gone, alias, fin, clean>>
      /\ \A q \in Requests : req'[q] = req[q] \/ req'[q].pc # "rollback"
  BY <1>1 DEF Request, ChangeSecurity, VerifyDomain, RemoveDomain, EditDomain, RewriteQuery, RewriteWrite,
              IdleReq, CalmInv, DiffInv, TypeOK
<1>3. Referenced' = Referenced
  BY <1>2 DEF Referenced
<1>4. Stopped' /\ \A d \in Deployments : JobCalm(d)'
  BY <1>2, <1>3 DEF CalmInv, Stopped, JobCalm
<1>. QED BY <1>2, <1>4, CalmKept DEF CalmInv

LEMMA CalmStep == ASSUME Calm PROVE CalmInv /\ [Next]_vars => CalmInv'
<1>. SUFFICES ASSUME CalmInv, [Next]_vars PROVE CalmInv'
  OBVIOUS
<1>1. DiffInv'
  BY DiffStep DEF CalmInv
<1>2. ~WorkerCrash
  BY DEF Calm, WorkerCrash, CalmInv, DiffInv, TypeOK
<1>3. CASE UNCHANGED vars
  <2>1. Referenced' = Referenced
    BY <1>3 DEF vars, Referenced
  <2>2. Stopped' /\ \A d \in Deployments : JobCalm(d)'
    BY <1>3, <2>1 DEF vars, CalmInv, Stopped, JobCalm
  <2>. QED BY <1>1, <1>3, <2>2, CalmKept DEF vars, CalmInv
<1>. QED BY <1>1, <1>2, <1>3, CalmAliases, CalmFinalize, CalmCleanup, CalmRequest DEF Next

(* As long as nobody rolls back and no worker dies, the aliases of an        *)
(* environment name one deployment.                                          *)
THEOREM AliasesTogetherHolds == ASSUME Calm PROVE Spec => []AliasesTogether
<1>1. CalmInv => AliasesTogether
  BY DEF CalmInv
<1>. QED BY <1>1, CalmInit, CalmStep, PTL DEF Spec

(* Nor does the worker then stop a container that an alias refers to.        *)
THEOREM ReferencedKeptHolds == ASSUME Calm PROVE Spec => []ReferencedKept
<1>1. CalmInv => ReferencedKept
  BY DEF CalmInv, Stopped, ReferencedKept
<1>. QED BY <1>1, CalmInit, CalmStep, PTL DEF Spec
-----------------------------------------------------------------------------
(* When no two changes of the routes have overlapped.                        *)

Rewriting(d) == fin[d].pc \in {"aliased", "queried", "written"}
Asking(r) == req[r].pc \in {"committed", "queried"}

OneChange ==
  /\ \A d, e \in Deployments : Rewriting(d) /\ Rewriting(e) => d = e
  /\ \A r, q \in Requests : Asking(r) /\ Asking(q) => r = q
  /\ \A d \in Deployments, r \in Requests : ~(Rewriting(d) /\ Asking(r))

(* The file is what a rewrite would make of the tables now, but for a domain *)
(* that is routed until the next rewrite after its hostname was edited.      *)
FileSays(include) ==
  \A h \in Hosts : h # "domain" \/ domain = "active" => file[h] = Content(Query(include))[h]

(* A job that still has to rewrite the file and can no longer fail: once     *)
(* there is a branch alias, no job that looks it up tries to insert it.      *)
Owes(d) ==
  /\ fin[d].pc \in {"queued", "looked", "locked"}
  /\ alias["branch"].cur # None
  /\ fin[d].pc = "looked" => fin[d].branch # None

(* What a rewrite has read is still true when it writes; between two changes *)
(* the file is right, unless a job that died half way is to come back.       *)
Settled ==
  /\ OneChange
  /\ \A d \in Deployments : /\ fin[d].pc = "queried" => fin[d].found = Query({d})
                            /\ fin[d].pc = "written" => FileSays({d})
  /\ \A r \in Requests : req[r].pc = "queried" => req[r].found = Query({})
  /\ (\A d \in Deployments : ~Rewriting(d) /\ ~Owes(d)) /\ (\A r \in Requests : ~Asking(r)) => FileSays({})

SerialInv ==
  /\ DiffInv
  /\ \A d \in Deployments : Rewriting(d) => alias["branch"].cur # None
  /\ ~overlapped => Settled

LEMMA QuerySame ==
  ASSUME NEW include, alias' = alias,
         \A d \in Deployments : conclusion'[d] = "succeeded" <=> conclusion[d] = "succeeded"
  PROVE  Query(include)' = Query(include)
BY DEF Query

LEMMA FileSame ==
  ASSUME NEW include, FileSays(include), Query(include)' = Query(include), file' = file,
         domain' \in {domain, "pending"}
  PROVE  FileSays(include)'
<1>1. ASSUME NEW h \in Hosts, h # "domain" \/ domain' = "active" PROVE file'[h] = Content(Query(include))'[h]
  <2>1. Content(Query(include))'[h] = Content(Query(include))[h]
    BY <1>1 DEF Content
  <2>2. h # "domain" \/ domain = "active"
    BY <1>1
  <2>. QED BY <2>1, <2>2 DEF FileSays
<1>. QED BY <1>1 DEF FileSays

LEMMA SerialInit == Init => SerialInv
<1>. SUFFICES ASSUME Init PROVE SerialInv
  OBVIOUS
<1>1. DiffInv
  BY DiffInit
<1>2. \A d \in Deployments : fin[d].pc = "idle"
  BY DEF Init, IdleFin
<1>3. \A r \in Requests : req[r].pc = "idle"
  BY DEF Init, IdleReq
<1>4. FileSays({})
  <2>1. \A t \in AliasTypes : Query({})[t] = None
    BY DEF Init, Query, NoAlias
  <2>2. \A h \in Hosts : h = "domain" \/ h \in AliasTypes
    BY DEF Hosts
  <2>. QED BY <2>1, <2>2 DEF Init, FileSays, Content, AliasTypes
<1>. QED BY <1>1, <1>2, <1>3, <1>4 DEF SerialInv, Settled, OneChange, Rewriting, Asking

(* Steps outside the rewrites: a rewrite goes on as it was or is cut short   *)
(* with its job to come back, and who owes a rewrite still does.             *)
LEMMA SerialKept ==
  ASSUME SerialInv, DiffInv', UNCHANGED <<alias, file, overlapped>>, domain' \in {domain, "pending"},
         \A d \in Deployments : conclusion'[d] = "succeeded" <=> conclusion[d] = "succeeded",
         \A d \in Deployments : /\ Rewriting(d)' => fin'[d] = fin[d]
                                /\ Rewriting(d) \/ Owes(d) => fin'[d] = fin[d] \/ Owes(d)',
         \A r \in Requests : /\ Asking(r)' => req'[r] = req[r]
                             /\ Asking(r) => req'[r] = req[r]
  PROVE  SerialInv'
<1>1. \A d \in Deployments : Rewriting(d)' => Rewriting(d) /\ alias'["branch"].cur # None
  BY DEF SerialInv, Rewriting
<1>2. \A r \in Requests : Asking(r)' <=> Asking(r)
  BY DEF Asking
<1>3. ASSUME ~overlapped' PROVE Settled'
  <2>1. Settled
    BY <1>3 DEF SerialInv
  <2>2. OneChange'
    BY <1>1, <1>2, <2>1 DEF Settled, OneChange
  <2>3. ASSUME NEW d \in Deployments
        PROVE  /\ fin'[d].pc = "queried" => fin'[d].found = Query({d})'
               /\ fin'[d].pc = "written" => FileSays({d})'
    <3>1. Query({d})' = Query({d})
      BY QuerySame
    <3>2. fin'[d].pc \in {"queried", "written"} => fin'[d] = fin[d]
      BY DEF Rewriting
    <3>3. FileSays({d}) => FileSays({d})'
      BY <3>1, FileSame
    <3>. QED BY <2>1, <3>1, <3>2, <3>3 DEF Settled
  <2>4. ASSUME NEW r \in Requests PROVE req'[r].pc = "queried" => req'[r].found = Query({})'
    <3>1. Query({})' = Query({})
      BY QuerySame
    <3>2. req'[r].pc = "queried" => req'[r] = req[r]
      BY DEF Asking
    <3>. QED BY <2>1, <3>1, <3>2 DEF Settled
  <2>5. ASSUME \A d \in Deployments : ~Rewriting(d)' /\ ~Owes(d)', \A r \in Requests : ~Asking(r)'
        PROVE  FileSays({})'
    <3>1. ASSUME NEW d \in Deployments PROVE ~Rewriting(d) /\ ~Owes(d)
      <4>1. fin'[d] = fin[d] => (Rewriting(d)' <=> Rewriting(d)) /\ (Owes(d)' <=> Owes(d))
        BY DEF Rewriting, Owes
      <4>. QED BY <2>5, <4>1
    <3>2. FileSays({})
      BY <1>2, <2>1, <2>5, <3>1 DEF Settled
    <3>. QED BY <3>2, QuerySame, FileSame
  <2>. QED BY <2>2, <2>3, <2>4, <2>5 DEF Settled
<1>. QED BY <1>1, <1>3 DEF SerialInv

(* A change of what is routed: it overlaps unless it is the only one.        *)
LEMMA SerialChange ==
  ASSUME SerialInv, DiffInv', Change,
         \A d \in Deployments : Rewriting(d)' => alias'["branch"].cur # None,
         \/ /\ fin' = fin
            /\ \E r \in Requests : /\ req'[r].pc = "committed"
                                   /\ \A q \in Requests \ {r} : req'[q] = req[q]
         \/ /\ req' = req
            /\ \E d \in Deployments : /\ fin'[d].pc = "aliased"
                                      /\ \A e \in Deployments \ {d} : fin'[e] = fin[e]
  PROVE  SerialInv'
<1>1. ASSUME ~overlapped' PROVE Settled'
  <2>1. (\A d \in Deployments : ~Rewriting(d)) /\ \A r \in Requests : ~Asking(r)
    BY <1>1 DEF Change, Changing, Rewriting, Asking
  <2>2. CASE /\ fin' = fin
             /\ \E r \in Requests : /\ req'[r].pc = "committed"
                                    /\ \A q \in Requests \ {r} : req'[q] = req[q]
    <3>1. PICK r \in Requests : /\ req'[r].pc = "committed"
                                /\ \A q \in Requests \ {r} : req'[q] = req[q]
      BY <2>2
    <3>2. \A d \in Deployments : ~Rewriting(d)'
      BY <2>1, <2>2 DEF Rewriting
    <3>3. Asking(r)' /\ \A q \in Requests \ {r} : ~Asking(q)'
      BY <2>1, <3>1 DEF Asking
    <3>. QED BY <3>1, <3>2, <3>3 DEF Settled, OneChange, Rewriting, Asking
  <2>3. CASE /\ req' = req
             /\ \E d \in Deployments : /\ fin'[d].pc = "aliased"
                                       /\ \A e \in Deployments \ {d} : fin'[e] = fin[e]
    <3>1. PICK d \in Deployments : /\ fin'[d].pc = "aliased"
                                   /\ \A e \in Deployments \ {d} : fin'[e] = fin[e]
      BY <2>3
    <3>2. \A r \in Requests : ~Asking(r)'
      BY <2>1, <2>3 DEF Asking
    <3>3. Rewriting(d)' /\ \A e \in Deployments \ {d} : ~Rewriting(e)'
      BY <2>1, <3>1 DEF Rewriting
    <3>. QED BY <3>1, <3>2, <3>3 DEF Settled, OneChange, Rewriting, Asking
  <2>. QED BY <2>2, <2>3
<1>. QED BY <1>1 DEF SerialInv

(* The rewrite of a job.                                                     *)
LEMMA SerialFinalize ==
  ASSUME SerialInv, DiffInv', NEW d \in Deployments,
         FinalizeQuery(d) \/ FinalizeWrite(d) \/ FinalizeConclude(d)
  PROVE  SerialInv'
<1>1. TypeOK /\ Rewriting(d)
  BY DEF SerialInv, DiffInv, Rewriting, FinalizeQuery, FinalizeWrite, FinalizeConclude
<1>2. /\ UNCHANGED <<alias, domain, req, overlapped>>
      /\ \A e \in Deployments \ {d} : fin'[e] = fin[e]
  BY <1>1 DEF FinalizeQuery, FinalizeWrite, FinalizeConclude, TypeOK
<1>3. \A e \in Deployments : Rewriting(e)' => alias'["branch"].cur # None
  <2>1. \A e \in Deployments \ {d} : Rewriting(e)' => Rewriting(e)
    BY <1>2 DEF Rewriting
  <2>. QED BY <1>1, <1>2, <2>1 DEF SerialInv
<1>4. ASSUME ~overlapped' PROVE Settled'
  <2>1. Settled /\ \A r \in Requests : ~Asking(r)
    BY <1>1, <1>2, <1>4 DEF SerialInv, Settled, OneChange
  <2>2. /\ \A e \in Deployments \ {d} : ~Rewriting(e) /\ ~Rewriting(e)'
        /\ \A r \in Requests : ~Asking(r)'
    BY <1>1, <1>2, <2>1 DEF Settled, OneChange, Rewriting, Asking
  <2>3. CASE FinalizeQuery(d)
    <3>1. UNCHANGED conclusion /\ fin'[d].pc = "queried" /\ fin'[d].found = Query({d})
      BY <1>1, <2>3 DEF FinalizeQuery, TypeOK
    <3>2. Query({d})' = Query({d})
      BY <1>2, <3>1, QuerySame
    <3>. QED BY <2>2, <3>1, <3>2 DEF Settled, OneChange, Rewriting, Asking
  <2>4. CASE FinalizeWrite(d)
    <3>1. UNCHANGED conclusion /\ fin'[d].pc = "written" /\ file' = Content(fin[d].found)
          /\ fin[d].found = Query({d})
      BY <1>1, <2>1, <2>4 DEF FinalizeWrite, TypeOK, Settled
    <3>2. Query({d})' = Query({d})
      BY <1>2, <3>1, QuerySame
    <3>3. FileSays({d})'
      BY <1>2, <3>1, <3>2 DEF FileSays, Content
    <3>. QED BY <2>2, <3>1, <3>3 DEF Settled, OneChange, Rewriting, Asking
  <2>5. CASE FinalizeConclude(d)
    <3>1. /\ fin[d].pc = "written" /\ fin'[d].pc = "concluded" /\ file' = file
          /\ conclusion'[d] = "succeeded"
          /\ \A e \in Deployments \ {d} : conclusion'[e] = conclusion[e]
      BY <1>1, <2>5 DEF FinalizeConclude, TypeOK
    <3>2. Query({})' = Query({d})
      BY <1>2, <3>1 DEF Query
    <3>3. FileSays({d})
      BY <2>1, <3>1 DEF Settled
    <3>4. FileSays({})'
      BY <1>2, <3>1, <3>2, <3>3 DEF FileSays, Content
    <3>. QED BY <2>2, <3>1, <3>4 DEF Settled, OneChange, Rewriting, Asking
  <2>. QED BY <2>3, <2>4, <2>5
<1>. QED BY <1>3, <1>4 DEF SerialInv

(* The rewrite of a request.                                                 *)
LEMMA SerialRewrite ==
  ASSUME SerialInv, DiffInv', NEW r \in Requests, RewriteQuery(r) \/ RewriteWrite(r)
  PROVE  SerialInv'
<1>1. TypeOK /\ Asking(r)
  BY DEF SerialInv, DiffInv, Asking, RewriteQuery, RewriteWrite
<1>2. /\ UNCHANGED <<alias, domain, fin, conclusion, overlapped>>
      /\ \A q \in Requests \ {r} : req'[q] = req[q]
  BY <1>1 DEF RewriteQuery, RewriteWrite, TypeOK
<1>3. \A e \in Deployments : (Rewriting(e)' <=> Rewriting(e)) /\ (Owes(e)' <=> Owes(e))
  BY <1>2 DEF Rewriting, Owes
<1>4. Query({})' = Query({})
  BY <1>2, QuerySame
<1>5. ASSUME ~overlapped' PROVE Settled'
  <2>1. Settled /\ \A d \in Deployments : ~Rewriting(d) /\ ~Rewriting(d)'
    BY <1>1, <1>2, <1>3, <1>5 DEF SerialInv, Settled, OneChange
  <2>2. \A q \in Requests \ {r} : ~Asking(q) /\ ~Asking(q)'
    BY <1>1, <1>2, <2>1 DEF Settled, OneChange, Asking
  <2>3. CASE RewriteQuery(r)
    <3>1. req'[r].pc = "queried" /\ req'[r].found = Query({})
      BY <1>1, <2>3 DEF RewriteQuery, TypeOK
    <3>. QED BY <1>4, <2>1, <2>2, <3>1 DEF Settled, OneChange, Rewriting, Asking
  <2>4. CASE RewriteWrite(r)
    <3>1. req'[r].pc = "idle" /\ file' = Content(Query({}))
      BY <1>1, <2>1, <2>4, Idles DEF RewriteWrite, TypeOK, Settled
    <3>2. FileSays({})'
      BY <1>2, <1>4, <3>1 DEF FileSays, Content
    <3>. QED BY <2>1, <2>2, <3>1, <3>2 DEF Settled, OneChange, Rewriting, Asking
  <2>. QED BY <2>3, <2>4
<1>. QED BY <1>2, <1>3, <1>5 DEF SerialInv

(* The steps of a job before and after its rewrite.                          *)
LEMMA SerialJob ==
  ASSUME SerialInv, DiffInv', NEW d \in Deployments,
         Ready(d) \/ FinalizeLookup(d) \/ FinalizeLock(d) \/ FinalizeDone(d) \/ Fail(d)
  PROVE  SerialInv'
<1>1. TypeOK
  BY DEF SerialInv, DiffInv
<1>2. /\ UNCHANGED <<alias, domain, file, req, overlapped>>
      /\ \A e \in Deployments \ {d} : fin'[e] = fin[e]
      /\ ~Rewriting(d) /\ ~Rewriting(d)'
      /\ \A e \in Deployments : conclusion'[e] = "succeeded" <=> conclusion[e] = "succeeded"
  BY <1>1 DEF Ready, FinalizeLookup, FinalizeLock, FinalizeDone, Fail, TypeOK, Rewriting, IdleFin
<1>3. Owes(d) => Owes(d)'
  <2>1. CASE Ready(d) \/ FinalizeDone(d) \/ Fail(d)
    BY <2>1 DEF Ready, FinalizeDone, Fail, Owes
  <2>2. CASE FinalizeLookup(d)
    BY <1>1, <2>2 DEF FinalizeLookup, Owes, TypeOK
  <2>3. CASE FinalizeLock(d)
    BY <1>1, <2>3 DEF FinalizeLock, Owes, TypeOK
  <2>. QED BY <2>1, <2>2, <2>3
<1>. QED BY <1>2, <1>3, SerialKept

LEMMA SerialAliases ==
  ASSUME SerialInv, DiffInv', NEW d \in Deployments, FinalizeAliases(d)
  PROVE  SerialInv'
<1>1. TypeOK /\ d # None /\ fin[d].pc = "locked" /\ JobDiffers(d)
  BY NoneAssumption DEF SerialInv, DiffInv, FinalizeAliases
<1>2. /\ req' = req /\ Change /\ fin'[d].pc = "aliased"
      /\ \A e \in Deployments \ {d} : fin'[e] = fin[e]
  BY <1>1 DEF FinalizeAliases, TypeOK
<1>3. alias'["branch"].cur # None
  BY <1>1 DEF FinalizeAliases, AliasTypes, JobDiffers, Moved
<1>. QED BY <1>2, <1>3, SerialChange

LEMMA SerialRequest == ASSUME SerialInv, DiffInv', NEW r \in Requests, Request(r) PROVE SerialInv'
<1>1. TypeOK
  BY DEF SerialInv, DiffInv
<1>2. CASE RewriteQuery(r) \/ RewriteWrite(r)
  BY <1>2, SerialRewrite
<1>3. CASE RollbackCommit(r) \/ ChangeSecurity(r) \/ VerifyDomain(r) \/ RemoveDomain(r)
  <2>1. /\ Change /\ fin' = fin /\ alias'["branch"] = alias["branch"]
        /\ req'[r].pc = "committed" /\ \A q \in Requests \ {r} : req'[q] = req[q]
    BY <1>1, <1>3 DEF RollbackCommit, ChangeSecurity, VerifyDomain, RemoveDomain, TypeOK, AliasTypes
  <2>2. \A d \in Deployments : Rewriting(d)' => alias'["branch"].cur # None
    BY <2>1 DEF SerialInv, Rewriting
  <2>. QED BY <2>1, <2>2, SerialChange
<1>4. CASE RollbackLoad(r) \/ EditDomain(r)
  <2>1. /\ UNCHANGED <<alias, file, fin, conclusion, overlapped>> /\ domain' \in {domain, "pending"}
        /\ \A q \in Requests \ {r} : req'[q] = req[q]
        /\ ~Asking(r) /\ ~Asking(r)'
    BY <1>1, <1>4 DEF RollbackLoad, EditDomain, TypeOK, Asking
  <2>2. \A d \in Deployments : /\ Rewriting(d)' => fin'[d] = fin[d]
                               /\ Rewriting(d) \/ Owes(d) => fin'[d] = fin[d] \/ Owes(d)'
    BY <2>1
  <2>. QED BY <2>1, <2>2, SerialKept
<1>. QED BY <1>2, <1>3, <1>4 DEF Request

(* A worker that dies: its jobs come back.                                   *)
LEMMA SerialCrash == ASSUME SerialInv, DiffInv', WorkerCrash PROVE SerialInv'
<1>1. /\ UNCHANGED <<alias, file, domain, conclusion, req, overlapped>>
      /\ \A d \in Deployments : \/ fin'[d] = fin[d] /\ fin[d].pc \in {"idle", "failing"}
                                \/ fin'[d].pc = "queued"
  BY DEF WorkerCrash, IdleFin
<1>2. ASSUME NEW d \in Deployments
      PROVE  /\ Rewriting(d)' => fin'[d] = fin[d]
             /\ Rewriting(d) \/ Owes(d) => fin'[d] = fin[d] \/ Owes(d)'
  BY <1>1 DEF SerialInv, Rewriting, Owes
<1>. QED BY <1>1, <1>2, SerialKept

LEMMA SerialStep == SerialInv /\ [Next]_vars => SerialInv'
<1>. SUFFICES ASSUME SerialInv, [Next]_vars PROVE SerialInv'
  OBVIOUS
<1>1. DiffInv'
  BY DiffStep DEF SerialInv
<1>2. CASE UNCHANGED vars \/ CleanupLoad \/ CleanupDone \/ \E d \in Deployments : CleanupOne(d)
  <2>1. UNCHANGED <<alias, file, domain, fin, req, conclusion, overlapped>>
    BY <1>2 DEF vars, CleanupLoad, CleanupDone, CleanupOne
  <2>. QED BY <1>1, <2>1, SerialKept
<1>3. CASE \E d \in Deployments : Ready(d) \/ Finalize(d)
  BY <1>1, <1>3, SerialJob, SerialAliases, SerialFinalize DEF Finalize
<1>4. CASE \E r \in Requests : Request(r)
  BY <1>1, <1>4, SerialRequest
<1>5. CASE WorkerCrash
  BY <1>1, <1>5, SerialCrash
<1>. QED BY <1>2, <1>3, <1>4, <1>5 DEF Next

(* Whatever crashes, when nobody is at work and no two changes of the routes *)
(* have overlapped, the file is what the tables say.                         *)
THEOREM SerialRewritesSettleHolds == Spec => []SerialRewritesSettle
<1>1. SerialInv => SerialRewritesSettle
  <2>. SUFFICES ASSUME SerialInv, Quiet, ~overlapped PROVE FileSays({})
    BY DEF SerialRewritesSettle, FileSays
  <2>1. (\A d \in Deployments : ~Rewriting(d) /\ ~Owes(d)) /\ \A r \in Requests : ~Asking(r)
    BY DEF Quiet, Rewriting, Owes, Asking
  <2>. QED BY <2>1 DEF SerialInv, Settled
<1>. QED BY <1>1, SerialInit, SerialStep, PTL DEF Spec
-----------------------------------------------------------------------------
(* Without crashes: an environment that is served.                           *)

(* Who is read from an alias row, or may be written into one from what was.  *)
Named ==
  Referenced \cup {fin[d].env.cur : d \in Deployments} \cup {fin[d].env.prev : d \in Deployments}
             \cup {req[r].env.cur : r \in Requests} \cup {req[r].env.prev : r \in Requests}

(* Whoever is named has succeeded, or its job is rewriting the routes.       *)
NamedServes == \A d \in Named \cap Deployments : conclusion[d] = "succeeded" \/ Rewriting(d)

(* While there is no environment alias, nobody has found one.                *)
NoneFound ==
  alias["environment"].cur = None =>
    /\ file["environment"] = None
    /\ \A d \in Deployments : fin[d].found["environment"] = None
    /\ \A r \in Requests : req[r].found["environment"] = None

ServedInv == SerialInv /\ NamedServes /\ NoneFound

LEMMA NamedIs ==
  \A d : d \in Named <=> \/ d \in Referenced
                         \/ \E e \in Deployments : d = fin[e].env.cur \/ d = fin[e].env.prev
                         \/ \E r \in Requests : d = req[r].env.cur \/ d = req[r].env.prev
BY DEF Named

LEMMA ServedInit == Init => ServedInv
<1>. SUFFICES ASSUME Init PROVE ServedInv
  OBVIOUS
<1>1. \A t \in AliasTypes : alias[t].cur = None /\ alias[t].prev = None
  BY DEF Init, NoAlias
<1>2. \A d \in Deployments : fin[d] = IdleFin
  BY DEF Init
<1>3. \A r \in Requests : req[r] = IdleReq
  BY DEF Init
<1>4. \A d \in Named : d = None
  BY <1>1, <1>2, <1>3, NamedIs, ReferencedRows DEF AliasTypes, IdleFin, IdleReq, NoAlias
<1>5. NamedServes
  BY <1>4, NoneAssumption DEF NamedServes
<1>6. NoneFound
  BY <1>2, <1>3 DEF Init, NoneFound, IdleFin, IdleReq, NoRoutes, AliasTypes, Hosts
<1>. QED BY <1>5, <1>6, SerialInit DEF ServedInv

LEMMA QueryNone ==
  ASSUME TypeOK, NEW include, alias["environment"].cur = None
  PROVE  Query(include)["environment"] = None
BY DEF Query, AliasTypes

(* Steps that name nobody new and find nothing new.                          *)
LEMMA ServedKept ==
  ASSUME ServedInv, SerialInv', Named' \subseteq Named,
         alias'["environment"].cur = None => alias["environment"].cur = None,
         file' = file,
         \A d \in Deployments : fin'[d].found["environment"] \in {fin[d].found["environment"], None},
         \A r \in Requests : req'[r].found["environment"] \in {req[r].found["environment"], None},
         \A d \in Deployments : conclusion[d] = "succeeded" \/ Rewriting(d) =>
                                conclusion'[d] = "succeeded" \/ Rewriting(d)'
  PROVE  ServedInv'
<1>1. NamedServes'
  BY DEF ServedInv, NamedServes
<1>2. NoneFound'
  BY DEF ServedInv, NoneFound
<1>. QED BY <1>1, <1>2 DEF ServedInv

LEMMA ServedFinalize ==
  ASSUME ServedInv, SerialInv', NEW d \in Deployments, Ready(d) \/ Finalize(d)
  PROVE  ServedInv'
<1>1. TypeOK /\ d # None
  BY NoneAssumption DEF ServedInv, SerialInv, DiffInv
<1>2. req' = req /\ \A e \in Deployments \ {d} : fin'[e] = fin[e]
  BY <1>1 DEF Ready, Finalize, FinalizeLookup, FinalizeLock, FinalizeAliases, FinalizeQuery, FinalizeWrite,
              FinalizeConclude, FinalizeDone, Fail, TypeOK
<1>3. CASE FinalizeAliases(d)
  <2>. DEFINE read == fin[d].env
              new == Moved(read, "environment", d)
              row == alias["environment"]
  <2>1. /\ fin'[d].pc = "aliased" /\ fin'[d].env = NoAlias /\ fin'[d].found = fin[d].found
        /\ file' = file /\ conclusion' = conclusion
    BY <1>1, <1>3 DEF FinalizeAliases, TypeOK
  <2>2. /\ alias'["branch"] \in {alias["branch"], Moved(alias["branch"], "branch", d)}
        /\ alias'["environment"].cur = IF new.cur # read.cur THEN new.cur ELSE row.cur
        /\ alias'["environment"].prev = IF new.prev # read.prev THEN new.prev ELSE row.prev
        /\ alias'["environment_id"] = Moved(alias["environment_id"], "environment_id", d)
    BY <1>3 DEF FinalizeAliases, AliasTypes
  <2>3. new.cur \in {d, read.cur} /\ new.prev \in {None, read.cur, read.prev}
    BY DEF Moved
  <2>4. /\ alias'["branch"].cur \in {d, alias["branch"].cur}
        /\ alias'["branch"].prev \in {None, alias["branch"].prev}
        /\ alias'["environment_id"].cur \in {d, alias["environment_id"].cur}
        /\ alias'["environment_id"].prev \in {None, alias["environment_id"].prev}
    BY <2>2 DEF Moved
  <2>5. Referenced' \subseteq Referenced \cup {d, read.cur, read.prev}
    <3>1. \A x \in Referenced' : x # None /\ x \in {alias'["branch"].cur, alias'["branch"].prev,
             alias'["environment"].cur, alias'["environment"].prev, alias'["environment_id"].cur,
             alias'["environment_id"].prev}
      BY DEF Referenced, AliasTypes
    <3>2. ASSUME NEW x \in Referenced' PROVE x \in Referenced \cup {d, read.cur, read.prev}
      <4>1. x # None
        BY <3>1
      <4>2. CASE x = alias'["branch"].cur \/ x = alias'["branch"].prev
        BY <2>4, <4>1, <4>2, ReferencedRows
      <4>3. CASE x = alias'["environment_id"].cur \/ x = alias'["environment_id"].prev
        BY <2>4, <4>1, <4>3, ReferencedRows
      <4>4. CASE x = alias'["environment"].cur \/ x = alias'["environment"].prev
        BY <2>2, <2>3, <4>1, <4>4, ReferencedRows
      <4>. QED BY <3>1, <4>2, <4>3, <4>4
    <3>. QED BY <3>2
  <2>6. ASSUME NEW x \in Named' PROVE x \in Named \cup {d, None}
    <3>1. x \in Referenced' \/ x \in Named \cup {None}
      <4>1. CASE \E e \in Deployments : x = fin'[e].env.cur \/ x = fin'[e].env.prev
        BY <1>2, <2>1, <4>1, NamedIs DEF NoAlias
      <4>2. CASE \E r \in Requests : x = req'[r].env.cur \/ x = req'[r].env.prev
        BY <1>2, <4>2, NamedIs
      <4>. QED BY <4>1, <4>2 DEF Named
    <3>. QED BY <2>5, <3>1, NamedIs
  <2>7. NamedServes'
    <3>1. ASSUME NEW e \in Named' \cap Deployments PROVE conclusion'[e] = "succeeded" \/ Rewriting(e)'
      <4>1. CASE e = d
        BY <2>1, <4>1 DEF Rewriting
      <4>2. CASE e # d
        <5>1. e \in Named /\ fin'[e] = fin[e]
          BY <1>2, <2>6, <3>1, <4>2, NoneAssumption
        <5>. QED BY <2>1, <3>1, <5>1 DEF ServedInv, NamedServes, Rewriting
      <4>. QED BY <4>1, <4>2
    <3>. QED BY <3>1 DEF NamedServes
  <2>8. alias'["environment"].cur # None
    BY <2>1 DEF SerialInv, Rewriting, DiffInv, RowsDiffer
  <2>. QED BY <2>7, <2>8 DEF ServedInv, NoneFound
<1>4. CASE ~FinalizeAliases(d)
  <2>1. alias' = alias
    BY <1>4 DEF Ready, Finalize, FinalizeLookup, FinalizeLock, FinalizeQuery, FinalizeWrite, FinalizeConclude,
                FinalizeDone, Fail
  <2>2. Referenced' = Referenced
    BY <2>1 DEF Referenced
  <2>3. fin'[d].env \in {fin[d].env, NoAlias, alias["environment"]}
    BY <1>1, <1>4 DEF Ready, Finalize, FinalizeLookup, FinalizeLock, FinalizeQuery, FinalizeWrite,
                      FinalizeConclude, FinalizeDone, Fail, TypeOK, IdleFin
  <2>4. ASSUME NEW x \in Named' \cap Deployments PROVE x \in Named
    <3>1. x # None
      BY <2>4, NoneAssumption
    <3>2. \/ x \in Referenced
          \/ \E e \in Deployments : x = fin'[e].env.cur \/ x = fin'[e].env.prev
          \/ \E r \in Requests : x = req[r].env.cur \/ x = req[r].env.prev
      BY <1>2, <2>2, <2>4 DEF Named
    <3>3. CASE \E e \in Deployments : x = fin'[e].env.cur \/ x = fin'[e].env.prev
      BY <1>2, <2>3, <3>1, <3>3, NamedIs, ReferencedRows DEF NoAlias
    <3>. QED BY <3>2, <3>3, NamedIs
  <2>5. /\ \A e \in Deployments : conclusion[e] = "succeeded" => conclusion'[e] = "succeeded"
        /\ Rewriting(d) => conclusion'[d] = "succeeded" \/ Rewriting(d)'
    BY <1>1, <1>4 DEF Ready, Finalize, FinalizeLookup, FinalizeLock, FinalizeQuery, FinalizeWrite,
                      FinalizeConclude, FinalizeDone, Fail, TypeOK, Rewriting
  <2>6. NamedServes'
    <3>1. ASSUME NEW e \in Named' \cap Deployments PROVE conclusion'[e] = "succeeded" \/ Rewriting(e)'
      <4>1. conclusion[e] = "succeeded" \/ Rewriting(e)
        BY <2>4 DEF ServedInv, NamedServes
      <4>2. e = d \/ fin'[e] = fin[e]
        BY <1>2
      <4>. QED BY <2>5, <4>1, <4>2 DEF Rewriting
    <3>. QED BY <3>1 DEF NamedServes
  <2>7. ASSUME alias'["environment"].cur = None
        PROVE  file'["environment"] = None /\ fin'[d].found["environment"] = None
    <3>1. NoneFound /\ file["environment"] = None /\ fin[d].found["environment"] = None
      BY <2>1, <2>7 DEF ServedInv, NoneFound
    <3>2. CASE FinalizeQuery(d)
      BY <1>1, <2>1, <2>7, <3>1, <3>2, QueryNone DEF FinalizeQuery, TypeOK
    <3>3. CASE FinalizeWrite(d)
      BY <1>1, <3>1, <3>3 DEF FinalizeWrite, TypeOK, Content, Hosts, AliasTypes, NoRoutes
    <3>4. CASE FinalizeDone(d) \/ Fail(d)
      BY <1>1, <3>1, <3>4 DEF FinalizeDone, Fail, TypeOK, IdleFin, NoRoutes, AliasTypes
    <3>5. CASE Ready(d) \/ FinalizeLookup(d) \/ FinalizeLock(d) \/ FinalizeConclude(d)
      BY <1>1, <3>1, <3>5 DEF Ready, FinalizeLookup, FinalizeLock, FinalizeConclude, TypeOK
    <3>. QED BY <1>4, <3>2, <3>3, <3>4, <3>5 DEF Finalize
  <2>8. NoneFound'
    BY <1>2, <2>1, <2>7 DEF ServedInv, NoneFound
  <2>. QED BY <2>6, <2>8 DEF ServedInv
<1>. QED BY <1>3, <1>4

LEMMA ServedRequest ==
  ASSUME ServedInv, SerialInv', NEW r \in Requests, Request(r)
  PROVE  ServedInv'
<1>1. TypeOK /\ RollbackDiffers(r)
  BY DEF ServedInv, SerialInv, DiffInv
<1>2. fin' = fin /\ conclusion' = conclusion /\ \A q \in Requests \ {r} : req'[q] = req[q]
  BY <1>1 DEF Request, RollbackLoad, RollbackCommit, ChangeSecurity, VerifyDomain, RemoveDomain, EditDomain,
              RewriteQuery, RewriteWrite, TypeOK
<1>3. /\ alias'["branch"] = alias["branch"] /\ alias'["environment_id"] = alias["environment_id"]
      /\ \/ alias'["environment"] = alias["environment"]
         \/ /\ alias'["environment"].cur = req[r].env.prev /\ alias'["environment"].prev = req[r].env.cur
            /\ req[r].env.prev # None
      /\ req'[r].env \in {req[r].env, NoAlias, alias["environment"]}
  BY <1>1 DEF Request, RollbackLoad, RollbackCommit, ChangeSecurity, VerifyDomain, RemoveDomain, EditDomain,
              RewriteQuery, RewriteWrite, TypeOK, RollbackDiffers, IdleReq, AliasTypes
<1>4. ASSUME NEW x \in Named' \cap Deployments PROVE x \in Named
  <2>1. x # None
    BY <1>4, NoneAssumption
  <2>2. \/ x \in {alias'["branch"].cur, alias'["branch"].prev, alias'["environment"].cur,
                  alias'["environment"].prev, alias'["environment_id"].cur, alias'["environment_id"].prev}
        \/ \E e \in Deployments : x = fin[e].env.cur \/ x = fin[e].env.prev
        \/ \E q \in Requests : x = req'[q].env.cur \/ x = req'[q].env.prev
    BY <1>2, <1>4 DEF Named, Referenced, AliasTypes
  <2>3. CASE \E q \in Requests : x = req'[q].env.cur \/ x = req'[q].env.prev
    BY <1>2, <1>3, <2>1, <2>3, NamedIs, ReferencedRows DEF NoAlias
  <2>4. CASE x \in {alias'["branch"].cur, alias'["branch"].prev, alias'["environment"].cur,
                    alias'["environment"].prev, alias'["environment_id"].cur, alias'["environment_id"].prev}
    BY <1>3, <2>1, <2>4, NamedIs, ReferencedRows
  <2>. QED BY <2>2, <2>3, <2>4, NamedIs
<1>5. NamedServes'
  BY <1>2, <1>4 DEF ServedInv, NamedServes, Rewriting
<1>6. ASSUME alias'["environment"].cur = None
      PROVE  file'["environment"] = None /\ req'[r].found["environment"] = None
  <2>1. /\ alias["environment"].cur = None /\ file["environment"] = None
        /\ req[r].found["environment"] = None
    BY <1>3, <1>6 DEF ServedInv, NoneFound
  <2>2. CASE RewriteQuery(r)
    BY <1>1, <2>1, <2>2, QueryNone DEF RewriteQuery, TypeOK
  <2>3. CASE RewriteWrite(r)
    BY <1>1, <2>1, <2>3 DEF RewriteWrite, TypeOK, Content, Hosts, AliasTypes, NoRoutes, IdleReq
  <2>4. CASE \/ RollbackLoad(r) \/ RollbackCommit(r) \/ ChangeSecurity(r) \/ VerifyDomain(r)
             \/ RemoveDomain(r) \/ EditDomain(r)
    BY <1>1, <2>1, <2>4, SMTT(30)
       DEF RollbackLoad, RollbackCommit, ChangeSecurity, VerifyDomain, RemoveDomain, EditDomain, TypeOK
  <2>. QED BY <2>2, <2>3, <2>4 DEF Request
<1>7. NoneFound'
  BY <1>2, <1>3, <1>6 DEF ServedInv, NoneFound
<1>. QED BY <1>5, <1>7 DEF ServedInv

LEMMA ServedStep == ASSUME MaxCrashes = 0 PROVE ServedInv /\ [Next]_vars => ServedInv'
<1>. SUFFICES ASSUME ServedInv, [Next]_vars PROVE ServedInv'
  OBVIOUS
<1>1. SerialInv' /\ TypeOK
  BY SerialStep DEF ServedInv, SerialInv, DiffInv
<1>2. CASE UNCHANGED vars \/ CleanupLoad \/ CleanupDone \/ \E d \in Deployments : CleanupOne(d)
  <2>1. UNCHANGED <<alias, file, domain, fin, req, conclusion, overlapped>>
    BY <1>2 DEF vars, CleanupLoad, CleanupDone, CleanupOne
  <2>2. Named' = Named /\ \A d \in Deployments : Rewriting(d)' <=> Rewriting(d)
    BY <2>1 DEF Named, Referenced, Rewriting
  <2>. QED BY <1>1, <2>1, <2>2, ServedKept
<1>3. ~WorkerCrash
  BY <1>1 DEF WorkerCrash, TypeOK
<1>. QED BY <1>1, <1>2, <1>3, ServedFinalize, ServedRequest DEF Next

(* A rewrite that does not overlap with another finds the environment alias. *)
LEMMA FindsServed ==
  ASSUME ServedInv, ~overlapped, NEW include, alias["environment"].cur # None,
         \A d \in Deployments : Rewriting(d) => d \in include
  PROVE  Query(include)["environment"] # None
<1>1. alias["environment"].cur \in Named \cap Deployments
  BY ReferencedRows, NamedIs DEF ServedInv, SerialInv, DiffInv, TypeOK, Alias, Maybe, AliasTypes
<1>. QED BY <1>1 DEF ServedInv, NamedServes, Query, AliasTypes

LEMMA ServedStays ==
  ASSUME ServedInv, [Next]_vars, ~overlapped', file["environment"] # None
  PROVE  file'["environment"] # None
<1>1. TypeOK /\ alias["environment"].cur # None
  BY DEF ServedInv, SerialInv, DiffInv, NoneFound
<1>2. CASE file' = file
  BY <1>2
<1>3. ASSUME NEW d \in Deployments, FinalizeWrite(d) PROVE file'["environment"] # None
  <2>1. ~overlapped /\ Settled /\ Rewriting(d)
    BY <1>3 DEF FinalizeWrite, ServedInv, SerialInv, Rewriting
  <2>2. \A e \in Deployments : Rewriting(e) => e \in {d}
    BY <2>1 DEF Settled, OneChange
  <2>3. Query({d})["environment"] # None
    BY <1>1, <2>1, <2>2, FindsServed
  <2>4. file' = Content(Query({d}))
    BY <1>3, <2>1 DEF FinalizeWrite, Settled
  <2>. QED BY <2>3, <2>4 DEF Content, Hosts, AliasTypes
<1>4. ASSUME NEW r \in Requests, RewriteWrite(r) PROVE file'["environment"] # None
  <2>1. ~overlapped /\ Settled /\ Asking(r)
    BY <1>4 DEF RewriteWrite, ServedInv, SerialInv, Asking
  <2>2. \A e \in Deployments : Rewriting(e) => e \in {}
    BY <2>1 DEF Settled, OneChange
  <2>3. Query({})["environment"] # None
    BY <1>1, <2>1, <2>2, FindsServed
  <2>4. file' = Content(Query({}))
    BY <1>4, <2>1 DEF RewriteWrite, Settled
  <2>. QED BY <2>3, <2>4 DEF Content, Hosts, AliasTypes
<1>. QED BY <1>2, <1>3, <1>4
     DEF Next, vars, Ready, Finalize, FinalizeLookup, FinalizeLock, FinalizeAliases, FinalizeQuery,
         FinalizeConclude, FinalizeDone, Fail, CleanupLoad, CleanupOne, CleanupDone, WorkerCrash, Request,
         RollbackLoad, RollbackCommit, ChangeSecurity, VerifyDomain, RemoveDomain, EditDomain, RewriteQuery

(* Unless the worker dies, an environment that is served stays served as     *)
(* long as no two changes of the routes overlap, whoever rolls back.         *)
THEOREM ServedUnlessOverlapHolds == ASSUME MaxCrashes = 0 PROVE Spec => ServedUnlessOverlap
<1>1. ServedInv /\ [Next]_vars => [~overlapped' /\ file["environment"] # None => file'["environment"] # None]_vars
  BY ServedStays
<1>. QED BY <1>1, ServedInit, ServedStep, PTL DEF Spec, ServedUnlessOverlap

(* Where nobody rolls back and no worker dies, the custom domain of an        *)
(* environment is routed to what the environment is, once all is done: only  *)
(* a rollback, or a finalize job run again after one, leaves it behind.      *)
THEOREM DomainFollowsHolds == ASSUME Calm PROVE Spec => []DomainFollows
<1>1. TypeOK /\ AliasesTogether /\ SerialRewritesSettle => DomainFollows
  <2>. SUFFICES ASSUME TypeOK, AliasesTogether, SerialRewritesSettle, Quiet, ~overlapped, domain = "active",
                       file["domain"] # None
                PROVE  file["domain"] = file["environment"]
    BY DEF DomainFollows
  <2>1. \A h \in Hosts : file[h] = Content(Query({}))[h]
    BY DEF SerialRewritesSettle
  <2>2. /\ file["domain"] = Query({})["environment_id"]
        /\ file["environment"] = Query({})["environment"]
    BY <2>1 DEF Content, Hosts, AliasTypes
  <2>3. alias["environment_id"].cur = alias["environment"].cur
    BY DEF AliasesTogether, AliasTypes
  <2>. QED BY <2>2, <2>3 DEF Query, AliasTypes
<1>. QED BY <1>1, TypeOKHolds, AliasesTogetherHolds, SerialRewritesSettleHolds, PTL
===============================================================================
