---------------------------- MODULE ProjectsProofs ----------------------------
(* Theorems about what belongs to a project: Environments for any slugs,     *)
(* requests and bounds, Projects for any projects, batches, deployments and  *)
(* faults, Registry for any runners, presets and requests, and a catalog     *)
(* that enables nothing by itself, as the one that is installed, and Domains *)
(* for any hostnames, rows and requests.                                     *)
EXTENDS Environments, Projects, Domains, Registry, FiniteSetTheorems, SequenceTheorems, TLAPS

(* Environments.                                                             *)

EnNames == EnSlugs \cup {"production"}
EnLists == Seq([slug: EnNames, on: BOOLEAN])

(* A list of environments: production is the first one, always active and    *)
(* alone in its name, and no other two active ones share a slug.             *)
EnGoodList(envs) ==
  /\ envs \in EnLists
  /\ Len(envs) > 0 /\ envs[EnProd] = [slug |-> "production", on |-> TRUE]
  /\ \A i, j \in DOMAIN envs: envs[i].on /\ envs[j].on /\ envs[i].slug = envs[j].slug => i = j

(* Variables of all environments, and those of an active one under its slug. *)
EnOwned(envs, vars) ==
  \A v \in vars: \/ v = [env |-> "", for |-> 0]
                 \/ \E i \in DOMAIN envs: envs[i].on /\ v = [env |-> envs[i].slug, for |-> i]

EnThenEnvs(r) == IF r.op = "save" THEN enEnvs ELSE r.envs
EnThenVars(r) == IF r.op = "create" THEN enVars ELSE r.vars

(* What every request will write keeps both, whatever was committed since it *)
(* began; the variables only if it is alone.                                 *)
EnInv ==
  /\ EnGoodList(enEnvs)
  /\ \A r \in enReqs: EnGoodList(EnThenEnvs(r))
  /\ enMixed \in BOOLEAN
  /\ ~enMixed => /\ EnOwned(enEnvs, enVars)
                 /\ \A r \in enReqs: enReqs = {r} /\ EnOwned(EnThenEnvs(r), EnThenVars(r))

LEMMA EnInitInv == EnInit => EnInv
<1>. SUFFICES ASSUME EnInit PROVE EnInv
  OBVIOUS
<1>1. [slug |-> "production", on |-> TRUE] \in [slug: EnNames, on: BOOLEAN]
  BY DEF EnNames
<1>2. enEnvs \in EnLists /\ Len(enEnvs) = 1 /\ enEnvs[1] = [slug |-> "production", on |-> TRUE]
  BY <1>1 DEF EnInit, EnLists
<1>3. DOMAIN enEnvs = {1}
  BY <1>2 DEF EnInit
<1>4. EnGoodList(enEnvs)
  BY <1>2, <1>3 DEF EnGoodList, EnProd
<1>. QED BY <1>4 DEF EnInit, EnInv, EnOwned

(* A request that begins with good lists leaves the others as they are.      *)
LEMMA EnBeginInv ==
  ASSUME EnInv, NEW op, NEW envs, NEW vars, NEW late, EnBegin(op, envs, vars, late),
         EnGoodList(IF op = "save" THEN enEnvs ELSE envs),
         ~enMixed /\ ~late => EnOwned(IF op = "save" THEN enEnvs ELSE envs, IF op = "create" THEN enVars ELSE vars)
  PROVE  EnInv'
<1>. DEFINE new == [op |-> op, envs |-> envs, vars |-> vars]
<1>1. /\ enReqs' = enReqs \cup {new} /\ enMixed' = (enMixed \/ late \/ enReqs # {})
      /\ enEnvs' = enEnvs /\ enVars' = enVars
  BY DEF EnBegin
<1>2. \A r: EnThenEnvs(r)' = EnThenEnvs(r) /\ EnThenVars(r)' = EnThenVars(r)
  BY <1>1 DEF EnThenEnvs, EnThenVars
<1>3. EnThenEnvs(new) = (IF op = "save" THEN enEnvs ELSE envs) /\ EnThenVars(new) = (IF op = "create" THEN enVars ELSE vars)
  BY DEF EnThenEnvs, EnThenVars
<1>4. \A r \in enReqs': EnGoodList(EnThenEnvs(r)')
  BY <1>1, <1>2, <1>3 DEF EnInv
<1>5. ASSUME ~enMixed' PROVE enReqs' = {new} /\ EnOwned(EnThenEnvs(new), EnThenVars(new)) /\ EnOwned(enEnvs, enVars)
  BY <1>1, <1>3, <1>5 DEF EnInv
<1>6. ~enMixed' => /\ EnOwned(enEnvs', enVars')
                   /\ \A r \in enReqs': enReqs' = {r} /\ EnOwned(EnThenEnvs(r)', EnThenVars(r)')
  BY <1>1, <1>2, <1>5
<1>. QED BY <1>1, <1>4, <1>6 DEF EnInv

LEMMA EnListShape ==
  ASSUME NEW envs, EnGoodList(envs)
  PROVE  /\ Len(envs) \in Nat /\ DOMAIN envs = 1..Len(envs) /\ EnProd \in DOMAIN envs
         /\ envs \in [DOMAIN envs -> [slug: EnNames, on: BOOLEAN]]
<1>1. envs \in EnLists /\ Len(envs) > 0
  BY DEF EnGoodList
<1>2. /\ Len(envs) \in Nat /\ DOMAIN envs = 1..Len(envs)
      /\ envs \in [1..Len(envs) -> [slug: EnNames, on: BOOLEAN]]
  BY <1>1, LenProperties DEF EnLists
<1>. QED BY <1>1, <1>2 DEF EnProd

LEMMA EnCreateInv == ASSUME EnInv, NEW s \in EnSlugs, EnCreate(s) PROVE EnInv'
<1>. DEFINE new == [slug |-> s, on |-> TRUE]
            envs == Append(enEnvs, new)
            n == Len(enEnvs) + 1
<1>1. EnGoodList(enEnvs)
  BY DEF EnInv
<1>2. /\ Len(enEnvs) \in Nat /\ DOMAIN enEnvs = 1..Len(enEnvs) /\ EnProd \in DOMAIN enEnvs
      /\ enEnvs \in [DOMAIN enEnvs -> [slug: EnNames, on: BOOLEAN]]
  BY <1>1, EnListShape
<1>3. new \in [slug: EnNames, on: BOOLEAN] /\ enEnvs \in EnLists
  BY <1>1 DEF EnNames, EnGoodList
<1>4. /\ envs \in EnLists /\ Len(envs) = n
      /\ \A i \in 1..Len(enEnvs): envs[i] = enEnvs[i]
      /\ envs[n] = new
  BY <1>3, AppendProperties DEF EnLists
<1>5. DOMAIN envs = 1..n
  BY <1>4, LenProperties DEF EnLists
<1>6. \A i \in DOMAIN enEnvs: enEnvs[i].on => enEnvs[i].slug # s
  BY DEF EnCreate, EnSlugFree, EnWithSlug
<1>. HIDE DEF envs, new
<1>7. new.on /\ new.slug = s
  BY DEF new
<1>8. \A i, j \in DOMAIN envs: envs[i].on /\ envs[j].on /\ envs[i].slug = envs[j].slug => i = j
  BY <1>1, <1>2, <1>4, <1>5, <1>6, <1>7 DEF EnGoodList
<1>9. EnGoodList(envs)
  <2>1. Len(envs) > 0 /\ envs[EnProd] = enEnvs[EnProd]
    BY <1>2, <1>4
  <2>. QED BY <1>1, <1>4, <1>8, <2>1 DEF EnGoodList
<1>10. ASSUME EnOwned(enEnvs, enVars) PROVE EnOwned(envs, enVars)
  <2>1. \A i \in DOMAIN enEnvs: i \in DOMAIN envs /\ envs[i] = enEnvs[i]
    BY <1>2, <1>4, <1>5
  <2>. SUFFICES ASSUME NEW v \in enVars, v # [env |-> "", for |-> 0]
                PROVE  \E i \in DOMAIN envs: envs[i].on /\ v = [env |-> envs[i].slug, for |-> i]
    BY DEF EnOwned
  <2>2. PICK i \in DOMAIN enEnvs: enEnvs[i].on /\ v = [env |-> enEnvs[i].slug, for |-> i]
    BY <1>10 DEF EnOwned
  <2>. QED BY <2>1, <2>2
<1>11. EnBegin("create", envs, {}, FALSE)
  BY DEF EnCreate, envs, new
<1>. QED BY <1>9, <1>10, <1>11, EnBeginInv DEF EnInv

LEMMA EnRenameInv == ASSUME EnInv, NEW id, NEW s \in EnSlugs, EnRename(id, s) PROVE EnInv'
<1>. DEFINE envs == [enEnvs EXCEPT ![id].slug = s]
<1>1. EnGoodList(enEnvs) /\ id \in DOMAIN enEnvs /\ id # EnProd
  BY DEF EnInv, EnRename
<1>2. /\ Len(enEnvs) \in Nat /\ DOMAIN enEnvs = 1..Len(enEnvs) /\ EnProd \in DOMAIN enEnvs
      /\ enEnvs \in [DOMAIN enEnvs -> [slug: EnNames, on: BOOLEAN]] /\ enEnvs \in EnLists
  BY <1>1, EnListShape DEF EnGoodList
<1>3. /\ DOMAIN envs = DOMAIN enEnvs
      /\ \A i \in DOMAIN envs: i # id => envs[i] = enEnvs[i]
      /\ envs[id].slug = s /\ envs[id].on = enEnvs[id].on
      /\ envs[id] \in [slug: EnNames, on: BOOLEAN]
  BY <1>1, <1>2 DEF EnNames
<1>4. \A i \in DOMAIN enEnvs: enEnvs[i].on /\ i # id => enEnvs[i].slug # s
  BY DEF EnRename, EnSlugFree, EnWithSlug
<1>5. EnBegin("rename", envs, EnCarried(id, s), ~enEnvs[id].on)
  BY DEF EnRename
<1>. HIDE DEF envs
<1>6. envs \in EnLists /\ Len(envs) = Len(enEnvs)
  <2>1. /\ [enEnvs EXCEPT ![id] = [@ EXCEPT !.slug = s]] \in EnLists
        /\ Len([enEnvs EXCEPT ![id] = [@ EXCEPT !.slug = s]]) = Len(enEnvs)
    BY <1>1, <1>2, <1>3, ExceptSeq DEF EnLists, envs
  <2>. QED BY <2>1 DEF envs
<1>7. \A i, j \in DOMAIN envs: envs[i].on /\ envs[j].on /\ envs[i].slug = envs[j].slug => i = j
  BY <1>1, <1>3, <1>4 DEF EnGoodList
<1>8. EnGoodList(envs)
  BY <1>1, <1>2, <1>3, <1>6, <1>7 DEF EnGoodList
<1>9. ASSUME EnOwned(enEnvs, enVars), enEnvs[id].on PROVE EnOwned(envs, EnCarried(id, s))
  <2>. SUFFICES ASSUME NEW v \in EnCarried(id, s)
                PROVE  \/ v = [env |-> "", for |-> 0]
                       \/ \E i \in DOMAIN envs: envs[i].on /\ v = [env |-> envs[i].slug, for |-> i]
    BY DEF EnOwned
  <2>1. PICK w \in enVars: v = IF w.env = enEnvs[id].slug THEN [w EXCEPT !.env = s] ELSE w
    BY DEF EnCarried
  <2>2. enEnvs[id].slug # ""
    BY <1>1, <1>2, EnAssumption DEF EnNames
  <2>3. CASE w = [env |-> "", for |-> 0]
    BY <2>1, <2>2, <2>3
  <2>4. CASE \E i \in DOMAIN enEnvs: enEnvs[i].on /\ w = [env |-> enEnvs[i].slug, for |-> i]
    <3>1. PICK i \in DOMAIN enEnvs: enEnvs[i].on /\ w = [env |-> enEnvs[i].slug, for |-> i]
      BY <2>4
    <3>2. CASE i = id
      BY <1>1, <1>3, <1>9, <2>1, <3>1, <3>2
    <3>3. CASE i # id
      <4>1. enEnvs[i].slug # enEnvs[id].slug
        BY <1>1, <1>9, <3>1, <3>3 DEF EnGoodList
      <4>. QED BY <1>3, <2>1, <3>1, <3>3, <4>1
    <3>. QED BY <3>2, <3>3
  <2>. QED BY <1>9, <2>3, <2>4 DEF EnOwned
<1>. QED BY <1>5, <1>8, <1>9, EnBeginInv DEF EnInv

LEMMA EnDeleteInv == ASSUME EnInv, NEW id, EnDelete(id) PROVE EnInv'
<1>. DEFINE envs == [enEnvs EXCEPT ![id].on = FALSE]
            vars == {v \in enVars: v.env # enEnvs[id].slug}
<1>1. EnGoodList(enEnvs) /\ id \in DOMAIN enEnvs /\ id # EnProd
  BY DEF EnInv, EnDelete
<1>2. /\ Len(enEnvs) \in Nat /\ DOMAIN enEnvs = 1..Len(enEnvs) /\ EnProd \in DOMAIN enEnvs
      /\ enEnvs \in [DOMAIN enEnvs -> [slug: EnNames, on: BOOLEAN]] /\ enEnvs \in EnLists
  BY <1>1, EnListShape DEF EnGoodList
<1>3. /\ DOMAIN envs = DOMAIN enEnvs
      /\ \A i \in DOMAIN envs: i # id => envs[i] = enEnvs[i]
      /\ envs[id].slug = enEnvs[id].slug /\ envs[id].on = FALSE
      /\ envs[id] \in [slug: EnNames, on: BOOLEAN]
  BY <1>1, <1>2
<1>4. EnBegin("delete", envs, vars, ~enEnvs[id].on)
  BY DEF EnDelete
<1>. HIDE DEF envs
<1>5. envs \in EnLists /\ Len(envs) = Len(enEnvs)
  BY <1>1, <1>2, <1>3, ExceptSeq DEF EnLists, envs
<1>6. \A i, j \in DOMAIN envs: envs[i].on /\ envs[j].on /\ envs[i].slug = envs[j].slug => i = j
  BY <1>1, <1>3 DEF EnGoodList
<1>7. EnGoodList(envs)
  BY <1>1, <1>2, <1>3, <1>5, <1>6 DEF EnGoodList
<1>8. ASSUME EnOwned(enEnvs, enVars) PROVE EnOwned(envs, vars)
  <2>. SUFFICES ASSUME NEW v \in enVars, v.env # enEnvs[id].slug, v # [env |-> "", for |-> 0]
                PROVE  \E i \in DOMAIN envs: envs[i].on /\ v = [env |-> envs[i].slug, for |-> i]
    BY DEF EnOwned
  <2>1. PICK i \in DOMAIN enEnvs: enEnvs[i].on /\ v = [env |-> enEnvs[i].slug, for |-> i]
    BY <1>8 DEF EnOwned
  <2>. QED BY <1>3, <2>1
<1>. QED BY <1>4, <1>7, <1>8, EnBeginInv DEF EnInv

LEMMA EnSaveInv == ASSUME EnInv, NEW i, NEW add \in BOOLEAN, EnSave(i, add) PROVE EnInv'
<1>. DEFINE slug == IF i = 0 THEN "" ELSE enEnvs[i].slug
            others == {v \in enVars: v.env # slug}
            vars == IF add THEN others \cup {[env |-> slug, for |-> i]} ELSE others
            late == add /\ i # 0 /\ ~enEnvs[i].on
<1>1. EnBegin("save", <<>>, vars, late) /\ i \in {0} \cup DOMAIN enEnvs
  BY DEF EnSave
<1>2. ASSUME EnOwned(enEnvs, enVars), ~late PROVE EnOwned(enEnvs, vars)
  <2>1. EnOwned(enEnvs, others)
    BY <1>2 DEF EnOwned
  <2>2. ASSUME add PROVE \/ [env |-> slug, for |-> i] = [env |-> "", for |-> 0]
                         \/ \E j \in DOMAIN enEnvs: enEnvs[j].on /\ [env |-> slug, for |-> i] = [env |-> enEnvs[j].slug, for |-> j]
    BY <1>1, <1>2, <2>2
  <2>. QED BY <2>1, <2>2 DEF EnOwned
<1>. HIDE DEF vars, late
<1>. QED BY <1>1, <1>2, EnBeginInv DEF EnInv

LEMMA EnCommitInv == ASSUME EnInv, NEW r \in enReqs, EnCommit(r) PROVE EnInv'
<1>1. /\ enEnvs' = EnThenEnvs(r) /\ enVars' = EnThenVars(r)
      /\ enReqs' = enReqs \ {r} /\ enMixed' = enMixed
  BY DEF EnCommit, EnThenEnvs, EnThenVars
<1>2. \A q \in enReqs': EnThenEnvs(q)' \in {EnThenEnvs(q), EnThenEnvs(r)}
  BY <1>1 DEF EnThenEnvs
<1>3. EnGoodList(enEnvs') /\ \A q \in enReqs': EnGoodList(EnThenEnvs(q)')
  BY <1>1, <1>2 DEF EnInv
<1>4. ASSUME ~enMixed' PROVE EnOwned(enEnvs', enVars') /\ enReqs' = {}
  BY <1>1, <1>4 DEF EnInv
<1>. QED BY <1>1, <1>3, <1>4 DEF EnInv

LEMMA EnStepInv == EnInv /\ [EnNext]_enVars_ => EnInv'
<1>. SUFFICES ASSUME EnInv, [EnNext]_enVars_ PROVE EnInv'
  OBVIOUS
<1>1. CASE UNCHANGED enVars_
  BY <1>1 DEF enVars_, EnInv, EnThenEnvs, EnThenVars
<1>2. CASE EnNext
  BY <1>2, EnCreateInv, EnRenameInv, EnDeleteInv, EnSaveInv, EnCommitInv DEF EnNext
<1>. QED BY <1>1, <1>2

LEMMA EnInvariant == EnSpec => []EnInv
BY EnInitInv, EnStepInv, PTL DEF EnSpec

(* No two active environments ever share a slug.                             *)
THEOREM EnSlugsUniqueHolds == EnSpec => []EnSlugsUnique
<1>1. ASSUME EnInv, NEW s \in EnNames PROVE Cardinality(EnWithSlug(s)) <= 1
  <2>1. \A i, j \in EnWithSlug(s): i = j
    BY <1>1 DEF EnInv, EnGoodList, EnWithSlug
  <2>2. CASE EnWithSlug(s) = {}
    BY <2>2, FS_EmptySet
  <2>3. CASE EnWithSlug(s) # {}
    <3>1. PICK i: EnWithSlug(s) = {i}
      BY <2>1, <2>3
    <3>2. Cardinality({i}) = 1
      BY FS_Singleton
    <3>. QED BY <3>1, <3>2
  <2>. QED BY <2>2, <2>3
<1>2. EnInv => EnSlugsUnique
  BY <1>1 DEF EnSlugsUnique, EnNames
<1>. QED BY <1>2, EnInvariant, PTL

(* The production branch always has the production environment.              *)
THEOREM EnProdServedHolds == EnSpec => []EnProdServed
<1>1. EnInv => EnProdServed
  <2>. SUFFICES ASSUME EnInv PROVE EnFor("main") = EnProd
    BY DEF EnProdServed
  <2>1. EnProd \in EnActive /\ \A i \in EnActive: i \in Nat /\ EnProd <= i
    BY EnListShape DEF EnInv, EnGoodList, EnActive, EnProd
  <2>2. EnFirst(EnActive) \in EnActive /\ \A i \in EnActive: EnFirst(EnActive) <= i
    BY <2>1 DEF EnFirst
  <2>3. EnFirst(EnActive) = EnProd
    BY <2>1, <2>2 DEF EnProd
  <2>. QED BY <2>3 DEF EnFor
<1>. QED BY <1>1, EnInvariant, PTL

(* As long as requests do not overlap, an environment gets its own variables *)
(* and those of all environments.                                            *)
THEOREM EnVarsOwnHolds == EnSpec => []EnVarsOwn
<1>1. ASSUME EnInv, ~enMixed, NEW i \in DOMAIN enEnvs, enEnvs[i].on, NEW v \in EnEffective(i)
      PROVE  v.for \in {0, i}
  <2>1. v \in enVars /\ v.env \in {"", enEnvs[i].slug}
    BY DEF EnEffective
  <2>2. CASE v = [env |-> "", for |-> 0]
    BY <2>2
  <2>3. CASE \E j \in DOMAIN enEnvs: enEnvs[j].on /\ v = [env |-> enEnvs[j].slug, for |-> j]
    <3>1. PICK j \in DOMAIN enEnvs: enEnvs[j].on /\ v = [env |-> enEnvs[j].slug, for |-> j]
      BY <2>3
    <3>2. enEnvs[j].slug # ""
      BY <1>1, EnListShape, EnAssumption DEF EnInv, EnNames
    <3>. QED BY <1>1, <2>1, <3>1, <3>2 DEF EnInv, EnGoodList
  <2>. QED BY <1>1, <2>1, <2>2, <2>3 DEF EnInv, EnOwned
<1>2. EnInv => EnVarsOwn
  BY <1>1 DEF EnVarsOwn
<1>. QED BY <1>2, EnInvariant, PTL
-------------------------------------------------------------------------------
(* Projects.                                                                 *)

PdLate == "late" \in pdSlips
PdSlipped == {"late", "kept"} \cap pdSlips # {}

PdStates == {"prepare", "starting", "running", "succeeded", "goneStarting", "gone"}
PdRow == [project: PdProjects, status: PdStates]
PdTypes ==
  /\ pdStatus \in [PdProjects -> {"none", "active", "deleted", "gone"}]
  /\ pdRows \in Seq(PdRow)
  /\ \A r \in pdReqs: r[1] \in PdProjects /\ r[2] \in {0} \cup PdMade
  /\ \A q \in pdQueue: q[1] = "start" => q[2] \in PdMade
  /\ pdHook.todo \subseteq PdProjects
  /\ pdJob = [pc |-> pdJob.pc, project |-> pdJob.project, batch |-> pdJob.batch]

(* A deletion works on a project that stays deleted, and none of its          *)
(* deployments starts meanwhile; those of its batch have lost their containers. *)
PdJobKeeps == pdJob.pc # "idle" =>
  /\ pdJob.project \in PdProjects /\ pdStatus[pdJob.project] = "deleted"
  /\ \A d \in PdOf(pdJob.project): pdRows[d].status = "starting" => PdLate
PdBatchClean == pdJob.pc = "rows" =>
  /\ pdJob.batch \subseteq PdOf(pdJob.project)
  /\ pdJob.batch \cap pdContainers # {} => PdSlipped

(* Only the job of a deployment that started too late outlives its row, a row *)
(* that is gone has left no container, and no row outlives its project.       *)
PdRowsKeep == \A d \in PdMade:
  /\ pdRows[d].status = "goneStarting" => PdLate
  /\ pdRows[d].status = "gone" /\ d \in pdContainers => PdSlipped
  /\ pdStatus[pdRows[d].project] = "gone" => ~PdThere(d)
PdContained == \A d \in pdContainers: d \in PdMade /\ pdRows[d].status \in {"running", "succeeded", "gone"}

PdInv == PdTypes /\ PdJobKeeps /\ PdBatchClean /\ PdRowsKeep /\ PdContained

LEMMA PdRowsShape ==
  ASSUME NEW rows \in Seq(PdRow)
  PROVE  /\ Len(rows) \in Nat /\ DOMAIN rows = 1..Len(rows)
         /\ \A d \in DOMAIN rows: rows[d] \in PdRow
BY LenProperties

LEMMA PdRowsMapped ==
  ASSUME NEW rows \in Seq(PdRow), NEW new, DOMAIN new = DOMAIN rows,
         new = [d \in DOMAIN rows |-> new[d]], \A d \in DOMAIN rows: new[d] \in PdRow
  PROVE  new \in Seq(PdRow)
<1>1. Len(rows) \in Nat /\ DOMAIN rows = 1..Len(rows)
  BY PdRowsShape
<1>2. new \in [1..Len(rows) -> PdRow]
  BY <1>1
<1>. QED BY <1>1, <1>2, SeqDef

LEMMA PdInitInv == PdInit => PdInv
<1>. SUFFICES ASSUME PdInit PROVE PdInv
  OBVIOUS
<1>1. PdTypes
  BY EmptySeq DEF PdInit, PdTypes, PdNoHook, PdNoJob
<1>2. PdMade = {}
  BY DEF PdInit, PdMade
<1>. QED BY <1>1, <1>2 DEF PdInit, PdInv, PdJobKeeps, PdBatchClean, PdRowsKeep, PdContained, PdNoJob

(* Steps that leave rows, containers and the deletion alone; no project that  *)
(* is being deleted changes and none goes.                                    *)
LEMMA PdElsewhereInv ==
  ASSUME PdInv, UNCHANGED <<pdRows, pdContainers, pdJob>>, PdTypes', pdSlips \subseteq pdSlips',
         \A p \in PdProjects: /\ pdStatus[p] = "deleted" => pdStatus'[p] = "deleted"
                              /\ pdStatus'[p] = "gone" => pdStatus[p] = "gone"
  PROVE  PdInv'
<1>1. \A d \in PdMade: pdRows[d].project \in PdProjects
  BY PdRowsShape DEF PdInv, PdTypes, PdMade, PdRow
<1>2. PdJobKeeps'
  BY DEF PdInv, PdJobKeeps, PdOf, PdMade, PdThere, PdLate
<1>3. PdBatchClean'
  BY DEF PdInv, PdBatchClean, PdOf, PdMade, PdThere, PdSlipped
<1>4. PdRowsKeep'
  BY <1>1 DEF PdInv, PdRowsKeep, PdMade, PdThere, PdLate, PdSlipped
<1>5. PdContained'
  BY DEF PdInv, PdContained, PdMade
<1>. QED BY <1>2, <1>3, <1>4, <1>5 DEF PdInv

(* A row is made for a project that is not gone.                              *)
LEMMA PdMadeInv ==
  ASSUME PdInv, NEW p \in PdProjects, PdMayCreate(p), PdTypes', pdSlips \subseteq pdSlips',
         UNCHANGED <<pdStatus, pdContainers, pdJob>>,
         pdRows' = Append(pdRows, [project |-> p, status |-> "prepare"])
  PROVE  PdInv'
<1>. DEFINE new == [project |-> p, status |-> "prepare"]
            n == Len(pdRows) + 1
<1>1. pdRows \in Seq(PdRow) /\ new \in PdRow
  BY DEF PdInv, PdTypes, PdRow, PdStates
<1>2. /\ Len(pdRows) \in Nat /\ PdMade = 1..Len(pdRows)
      /\ pdRows' \in Seq(PdRow) /\ Len(pdRows') = n
      /\ \A d \in 1..Len(pdRows): pdRows'[d] = pdRows[d]
      /\ pdRows'[n] = new
  BY <1>1, PdRowsShape, AppendProperties DEF PdMade
<1>3. PdMade' = 1..n
  BY <1>2, PdRowsShape DEF PdMade
<1>4. /\ PdMade' = PdMade \cup {n} /\ n \notin PdMade
      /\ \A d \in PdMade: pdRows'[d] = pdRows[d]
      /\ pdRows'[n].status = "prepare" /\ pdRows'[n].project = p
  BY <1>2, <1>3
<1>5. PdJobKeeps'
  BY <1>4, ZenonT(60) DEF PdInv, PdJobKeeps, PdOf, PdThere, PdLate
<1>6. PdBatchClean'
  BY <1>4 DEF PdInv, PdBatchClean, PdOf, PdThere, PdSlipped
<1>7. PdRowsKeep'
  BY <1>4 DEF PdInv, PdRowsKeep, PdThere, PdLate, PdSlipped, PdMayCreate
<1>8. PdContained'
  BY <1>4 DEF PdInv, PdContained
<1>. QED BY <1>5, <1>6, <1>7, <1>8 DEF PdInv

(* What one deployment's step does to the rows.                               *)
LEMMA PdRowStep ==
  ASSUME PdTypes, NEW d \in PdMade, NEW s \in PdStates, pdRows' = [pdRows EXCEPT ![d].status = s]
  PROVE  /\ pdRows' \in Seq(PdRow) /\ PdMade' = PdMade
         /\ \A e \in PdMade: /\ pdRows'[e].project = pdRows[e].project /\ pdRows[e].project \in PdProjects
                             /\ e # d => pdRows'[e].status = pdRows[e].status
         /\ pdRows'[d].status = s
<1>1. pdRows \in Seq(PdRow) /\ PdMade = DOMAIN pdRows /\ \A e \in PdMade: pdRows[e] \in PdRow
  BY PdRowsShape DEF PdTypes, PdMade
<1>2. DOMAIN pdRows' = DOMAIN pdRows /\ pdRows' = [e \in DOMAIN pdRows |-> pdRows'[e]]
  BY <1>1
<1>3. /\ pdRows'[d] = [pdRows[d] EXCEPT !.status = s]
      /\ \A e \in PdMade: e # d => pdRows'[e] = pdRows[e]
  BY <1>1
<1>4. \A e \in PdMade: pdRows'[e] \in PdRow
  BY <1>1, <1>3 DEF PdRow
<1>5. pdRows' \in Seq(PdRow)
  BY <1>1, <1>2, <1>4, PdRowsMapped
<1>. QED BY <1>1, <1>2, <1>3, <1>5 DEF PdMade, PdRow

(* The jobs of a deployment: one that starts while its project is being       *)
(* deleted is late.                                                           *)
LEMMA PdStartInv == ASSUME PdInv, NEW d, PdStart(d) PROVE PdInv'
<1>1. CASE ~PdTaken(d)
  <2>1. UNCHANGED <<pdRows, pdSlips>>
    BY <1>1 DEF PdStart
  <2>2. PdTypes'
    BY <2>1 DEF PdInv, PdTypes, PdStart, pdWeb, PdMade
  <2>. QED BY <2>1, <2>2, PdElsewhereInv DEF PdStart
<1>2. CASE PdTaken(d)
  <2>1. /\ pdRows' = [pdRows EXCEPT ![d].status = "starting"]
        /\ pdSlips' = pdSlips \cup (IF pdStatus[pdRows[d].project] = "deleted" THEN {"late"} ELSE {})
        /\ UNCHANGED <<pdStatus, pdContainers, pdReqs, pdHook, pdJob>>
        /\ pdQueue' \subseteq pdQueue /\ <<"start", d>> \in pdQueue
    BY <1>2 DEF PdStart, pdWeb
  <2>0. d \in PdMade
    BY <2>1 DEF PdInv, PdTypes
  <2>2. /\ pdRows' \in Seq(PdRow) /\ PdMade' = PdMade /\ pdRows'[d].status = "starting"
        /\ \A e \in PdMade: /\ pdRows'[e].project = pdRows[e].project /\ pdRows[e].project \in PdProjects
                            /\ e # d => pdRows'[e].status = pdRows[e].status
    BY <2>0, <2>1, PdRowStep DEF PdInv, PdStates
  <2>3. pdRows[d].status = "prepare" /\ PdThere(d) /\ PdThere(d)'
    BY <1>2, <2>0, <2>2 DEF PdTaken, PdThere
  <2>4. \A e \in PdMade: PdThere(e)' = PdThere(e)
    BY <2>2, <2>3 DEF PdThere
  <2>5. PdTypes'
    BY <2>1, <2>2 DEF PdInv, PdTypes
  <2>6. PdJobKeeps'
    BY <2>1, <2>2, <2>4 DEF PdInv, PdJobKeeps, PdOf, PdLate
  <2>7. PdBatchClean'
    BY <2>1, <2>2, <2>4 DEF PdInv, PdBatchClean, PdOf, PdSlipped
  <2>8. PdRowsKeep'
    BY <2>1, <2>2, <2>3, <2>4 DEF PdInv, PdRowsKeep, PdLate, PdSlipped
  <2>9. PdContained'
    BY <2>1, <2>2, <2>3 DEF PdInv, PdContained
  <2>. QED BY <2>5, <2>6, <2>7, <2>8, <2>9 DEF PdInv
<1>. QED BY <1>1, <1>2

LEMMA PdStartedInv == ASSUME PdInv, NEW d, PdStarted(d) PROVE PdInv'
<1>. DEFINE s == IF pdRows[d].status = "starting" THEN "running" ELSE "gone"
<1>1. /\ d \in PdMade /\ pdRows[d].status \in {"starting", "goneStarting"}
      /\ pdRows' = [pdRows EXCEPT ![d].status = s] /\ pdContainers' = pdContainers \cup {d}
      /\ UNCHANGED <<pdStatus, pdReqs, pdHook, pdQueue, pdJob, pdSlips>>
  BY DEF PdStarted, pdWeb
<1>2. /\ pdRows' \in Seq(PdRow) /\ PdMade' = PdMade /\ pdRows'[d].status = s
      /\ \A e \in PdMade: /\ pdRows'[e].project = pdRows[e].project /\ pdRows[e].project \in PdProjects
                          /\ e # d => pdRows'[e].status = pdRows[e].status
  BY <1>1, PdRowStep DEF PdInv, PdStates
<1>3. \A e \in PdMade: PdThere(e)' = PdThere(e)
  BY <1>1, <1>2 DEF PdThere
<1>4. PdTypes'
  BY <1>1, <1>2 DEF PdInv, PdTypes
<1>5. PdJobKeeps'
  BY <1>1, <1>2, <1>3 DEF PdInv, PdJobKeeps, PdOf, PdLate
<1>6. PdBatchClean'
  <2>1. \A e: PdThere(e) /\ pdRows[e].status \in {"starting", "goneStarting"} => pdRows[e].status = "starting"
    BY DEF PdThere
  <2>. QED BY <1>1, <1>2, <1>3, <2>1 DEF PdInv, PdBatchClean, PdJobKeeps, PdOf, PdSlipped, PdLate
<1>7. PdRowsKeep'
  BY <1>1, <1>2, <1>3 DEF PdInv, PdRowsKeep, PdLate, PdSlipped
<1>8. PdContained'
  BY <1>1, <1>2 DEF PdInv, PdContained
<1>. QED BY <1>4, <1>5, <1>6, <1>7, <1>8 DEF PdInv

LEMMA PdFinalizeInv == ASSUME PdInv, NEW d, PdFinalize(d) PROVE PdInv'
<1>1. /\ d \in PdMade /\ pdRows[d].status = "running"
      /\ pdRows' = [pdRows EXCEPT ![d].status = "succeeded"]
      /\ UNCHANGED <<pdStatus, pdContainers, pdReqs, pdHook, pdQueue, pdJob, pdSlips>>
  BY DEF PdFinalize, pdWeb
<1>2. /\ pdRows' \in Seq(PdRow) /\ PdMade' = PdMade /\ pdRows'[d].status = "succeeded"
      /\ \A e \in PdMade: /\ pdRows'[e].project = pdRows[e].project /\ pdRows[e].project \in PdProjects
                          /\ e # d => pdRows'[e].status = pdRows[e].status
  BY <1>1, PdRowStep DEF PdInv, PdStates
<1>3. \A e \in PdMade: PdThere(e)' = PdThere(e)
  BY <1>1, <1>2 DEF PdThere
<1>4. PdTypes'
  BY <1>1, <1>2 DEF PdInv, PdTypes
<1>5. PdJobKeeps'
  BY <1>1, <1>2, <1>3 DEF PdInv, PdJobKeeps, PdOf, PdLate
<1>6. PdBatchClean'
  BY <1>1, <1>2, <1>3 DEF PdInv, PdBatchClean, PdOf, PdSlipped
<1>7. PdRowsKeep'
  BY <1>1, <1>2, <1>3 DEF PdInv, PdRowsKeep, PdLate, PdSlipped
<1>8. PdContained'
  BY <1>1, <1>2 DEF PdInv, PdContained
<1>. QED BY <1>4, <1>5, <1>6, <1>7, <1>8 DEF PdInv

(* The deletion, step by step.                                                *)
LEMMA PdLoadInv == ASSUME PdInv, NEW p \in PdProjects, PdLoad(p) PROVE PdInv'
<1>1. /\ UNCHANGED <<pdStatus, pdRows, pdContainers, pdReqs, pdHook>> /\ pdSlips \subseteq pdSlips'
      /\ pdQueue' \subseteq pdQueue
      /\ (\E d \in PdOf(p): pdRows[d].status = "starting") => PdLate'
      /\ pdJob.pc = "idle"
  BY DEF PdLoad, pdTables, pdWeb, PdLate
<1>2. CASE PdMayLoad(p)
  <2>1. pdJob' = [pc |-> "batches", project |-> p, batch |-> {}] /\ pdStatus[p] = "deleted"
    BY <1>2 DEF PdLoad, PdNoJob, PdMayLoad
  <2>2. PdTypes'
    BY <1>1, <2>1 DEF PdInv, PdTypes, PdMade
  <2>3. PdJobKeeps'
    BY <1>1, <2>1 DEF PdJobKeeps, PdOf, PdMade, PdThere
  <2>4. PdBatchClean'
    BY <2>1 DEF PdBatchClean
  <2>5. PdRowsKeep' /\ PdContained'
    BY <1>1 DEF PdInv, PdRowsKeep, PdContained, PdMade, PdThere, PdLate, PdSlipped
  <2>. QED BY <2>2, <2>3, <2>4, <2>5 DEF PdInv
<1>3. CASE ~PdMayLoad(p)
  <2>1. pdJob' = pdJob
    BY <1>3 DEF PdLoad
  <2>2. PdTypes'
    BY <1>1, <2>1 DEF PdInv, PdTypes, PdMade
  <2>. QED BY <1>1, <2>1, <2>2, PdElsewhereInv
<1>. QED BY <1>2, <1>3

LEMMA PdSelectInv == ASSUME PdInv, PdSelect PROVE PdInv'
<1>1. PICK batch \in SUBSET PdOf(pdJob.project):
        /\ pdJob' = [pdJob EXCEPT !.pc = "rows", !.batch = batch]
        /\ \/ pdContainers' = pdContainers \ PdRemoved(batch) /\ UNCHANGED <<pdLeft, pdSlips>>
           \/ PdFault /\ pdSlips' = pdSlips \cup {"kept"} /\ UNCHANGED pdContainers
  BY DEF PdSelect
<1>2. pdJob.pc = "batches" /\ UNCHANGED <<pdStatus, pdRows, pdReqs, pdHook, pdQueue>>
  BY DEF PdSelect, pdWeb
<1>3. pdJob' = [pc |-> "rows", project |-> pdJob.project, batch |-> batch]
  BY <1>1 DEF PdInv, PdTypes
<1>4. PdTypes'
  BY <1>2, <1>3 DEF PdInv, PdTypes, PdMade
<1>5. pdContainers' \subseteq pdContainers /\ pdSlips \subseteq pdSlips'
  BY <1>1
<1>6. PdJobKeeps'
  BY <1>2, <1>3, <1>5 DEF PdInv, PdJobKeeps, PdOf, PdMade, PdThere, PdLate
<1>7. PdBatchClean'
  <2>1. batch \cap pdContainers' # {} => PdSlipped'
    <3>1. CASE pdContainers' = pdContainers \ PdRemoved(batch) /\ UNCHANGED pdSlips
      BY <1>1, <1>2, <3>1 DEF PdInv, PdContained, PdRemoved
    <3>2. CASE pdSlips' = pdSlips \cup {"kept"}
      BY <3>2 DEF PdSlipped
    <3>. QED BY <1>1, <3>1, <3>2
  <2>2. PdOf(pdJob.project)' = PdOf(pdJob.project)
    BY <1>2, <1>3 DEF PdOf, PdMade, PdThere
  <2>. QED BY <1>1, <1>3, <2>1, <2>2 DEF PdBatchClean
<1>8. PdRowsKeep' /\ PdContained'
  BY <1>2, <1>5 DEF PdInv, PdRowsKeep, PdContained, PdMade, PdThere, PdLate, PdSlipped
<1>. QED BY <1>4, <1>6, <1>7, <1>8 DEF PdInv

LEMMA PdDeleteRowsInv == ASSUME PdInv, PdDeleteRows PROVE PdInv'
<1>. DEFINE job == [pc |-> "batches", project |-> pdJob.project, batch |-> {}]
<1>1. /\ pdJob.pc = "rows" /\ pdJob' = job
      /\ UNCHANGED <<pdStatus, pdContainers, pdReqs, pdHook, pdQueue>>
  BY DEF PdDeleteRows, PdInv, PdTypes, pdWeb
<1>2. PdBatchClean'
  BY <1>1 DEF PdBatchClean
<1>3. CASE PdPinned
  <2>1. pdRows' = pdRows /\ pdSlips' = pdSlips \cup {"pinned"}
    BY <1>3 DEF PdDeleteRows
  <2>2. PdTypes' /\ PdJobKeeps' /\ PdRowsKeep' /\ PdContained'
    BY <1>1, <2>1 DEF PdInv, PdTypes, PdJobKeeps, PdRowsKeep, PdContained, PdOf, PdMade, PdThere, PdLate, PdSlipped
  <2>. QED BY <1>2, <2>2 DEF PdInv
<1>4. CASE ~PdPinned
  <2>1. /\ pdSlips' = pdSlips
        /\ pdRows' = [d \in PdMade |->
             IF d \notin pdJob.batch THEN pdRows[d]
             ELSE [pdRows[d] EXCEPT !.status = IF @ = "starting" THEN "goneStarting" ELSE "gone"]]
    BY <1>4 DEF PdDeleteRows
  <2>2. pdRows \in Seq(PdRow) /\ \A d \in PdMade: pdRows[d] \in PdRow
    BY PdRowsShape DEF PdInv, PdTypes, PdMade
  <2>3. /\ PdMade' = PdMade
        /\ \A d \in PdMade: pdRows'[d] \in PdRow /\ pdRows'[d].project = pdRows[d].project
        /\ \A d \in PdMade \ pdJob.batch: pdRows'[d] = pdRows[d]
        /\ \A d \in PdMade \cap pdJob.batch:
             pdRows'[d].status = IF pdRows[d].status = "starting" THEN "goneStarting" ELSE "gone"
    BY <2>1, <2>2 DEF PdMade, PdRow, PdStates
  <2>4. pdRows' \in Seq(PdRow)
    BY <2>1, <2>2, <2>3, PdRowsMapped DEF PdMade
  <2>5. PdTypes'
    BY <1>1, <2>3, <2>4 DEF PdInv, PdTypes
  <2>6. PdJobKeeps'
    BY <1>1, <2>1, <2>3 DEF PdInv, PdJobKeeps, PdOf, PdThere, PdLate
  <2>7. \A d \in pdJob.batch: /\ pdRows[d].status = "starting" => PdLate
                              /\ d \in pdContainers => PdSlipped
    BY <1>1 DEF PdInv, PdBatchClean, PdJobKeeps
  <2>8. PdRowsKeep'
    BY <1>1, <2>1, <2>3, <2>7 DEF PdInv, PdRowsKeep, PdThere, PdLate, PdSlipped
  <2>9. PdContained'
    BY <1>1, <2>3 DEF PdInv, PdContained
  <2>. QED BY <1>2, <2>5, <2>6, <2>8, <2>9 DEF PdInv
<1>. QED BY <1>3, <1>4

LEMMA PdLastInv == ASSUME PdInv, PdLast PROVE PdInv'
<1>1. /\ UNCHANGED <<pdStatus, pdRows, pdContainers, pdReqs, pdHook, pdQueue, pdSlips>>
      /\ pdJob' = [pc |-> "final", project |-> pdJob.project, batch |-> pdJob.batch]
      /\ pdJob.pc = "batches"
  BY DEF PdLast, pdTables, pdWeb, PdInv, PdTypes
<1>. QED BY <1>1 DEF PdInv, PdTypes, PdJobKeeps, PdBatchClean, PdRowsKeep, PdContained, PdOf, PdMade,
                     PdThere, PdLate, PdSlipped

LEMMA PdFinalInv == ASSUME PdInv, PdFinal PROVE PdInv'
<1>1. /\ UNCHANGED <<pdRows, pdContainers, pdReqs, pdHook, pdQueue, pdSlips>>
      /\ pdJob' = [pc |-> "idle", project |-> pdJob'.project, batch |-> {}]
      /\ pdStatus' = IF PdOf(pdJob.project) = {} THEN [pdStatus EXCEPT ![pdJob.project] = "gone"] ELSE pdStatus
  BY DEF PdFinal, pdWeb, PdNoJob
<1>2. PdTypes' /\ PdJobKeeps' /\ PdBatchClean' /\ PdContained'
  <2>1. pdStatus' \in [PdProjects -> {"none", "active", "deleted", "gone"}]
    BY <1>1 DEF PdInv, PdTypes
  <2>2. pdJob'.pc = "idle" /\ pdJob' = [pc |-> pdJob'.pc, project |-> pdJob'.project, batch |-> pdJob'.batch]
    BY <1>1
  <2>3. PdTypes'
    BY <1>1, <2>1, <2>2 DEF PdInv, PdTypes, PdMade
  <2>. QED BY <1>1, <2>2, <2>3 DEF PdInv, PdJobKeeps, PdBatchClean, PdContained, PdMade
<1>3. \A d \in PdMade: pdStatus'[pdRows[d].project] = "gone" => ~PdThere(d)
  <2>1. \A d \in PdMade: pdRows[d].project \in PdProjects
    BY PdRowsShape DEF PdInv, PdTypes, PdMade, PdRow
  <2>. QED BY <1>1, <2>1 DEF PdInv, PdTypes, PdRowsKeep, PdOf
<1>4. PdRowsKeep'
  BY <1>1, <1>3 DEF PdInv, PdRowsKeep, PdMade, PdThere, PdLate, PdSlipped
<1>. QED BY <1>2, <1>4 DEF PdInv

LEMMA PdCrashInv == ASSUME PdInv, PdCrash PROVE PdInv'
<1>1. /\ UNCHANGED <<pdStatus, pdRows, pdContainers, pdReqs, pdHook, pdSlips>>
      /\ pdQueue' = pdQueue \cup {<<"delete", pdJob.project>>}
      /\ pdJob' = [pc |-> "idle", project |-> pdJob'.project, batch |-> {}]
  BY DEF PdCrash, pdTables, pdWeb, PdNoJob
<1>. QED BY <1>1 DEF PdInv, PdTypes, PdJobKeeps, PdBatchClean, PdRowsKeep, PdContained, PdMade,
                     PdThere, PdLate, PdSlipped

(* Requests and pushes.                                                       *)
LEMMA PdCreateInv == ASSUME PdInv, NEW p \in PdProjects, PdCreate(p) PROVE PdInv'
<1>1. /\ UNCHANGED <<pdRows, pdContainers, pdReqs, pdHook, pdQueue, pdJob, pdSlips>>
      /\ pdStatus[p] = "none" /\ pdStatus' = [pdStatus EXCEPT ![p] = "active"]
  BY DEF PdCreate, pdWeb
<1>2. PdTypes'
  BY <1>1 DEF PdInv, PdTypes, PdMade
<1>. QED BY <1>1, <1>2, PdElsewhereInv DEF PdInv, PdTypes

LEMMA PdDeleteInv == ASSUME PdInv, NEW p \in PdProjects, PdDelete(p) PROVE PdInv'
<1>1. /\ UNCHANGED <<pdRows, pdContainers, pdReqs, pdHook, pdJob>>
      /\ pdStatus[p] = "active" /\ pdStatus' = [pdStatus EXCEPT ![p] = "deleted"]
      /\ pdQueue' \in {pdQueue, pdQueue \cup {<<"delete", p>>}} /\ pdSlips \subseteq pdSlips'
  BY DEF PdDelete, pdWeb
<1>2. PdTypes'
  BY <1>1 DEF PdInv, PdTypes, PdMade
<1>. QED BY <1>1, <1>2, PdElsewhereInv DEF PdInv, PdTypes

LEMMA PdDeployInv == ASSUME PdInv, NEW p \in PdProjects, PdDeploy(p) PROVE PdInv'
<1>1. UNCHANGED <<pdTables, pdHook, pdQueue, pdJob, pdSlips>> /\ pdReqs' = {<<p, 0>>}
  BY DEF PdDeploy
<1>2. PdTypes'
  BY <1>1 DEF PdInv, PdTypes, PdMade, pdTables
<1>. QED BY <1>1, <1>2, PdElsewhereInv DEF pdTables

LEMMA PdPushInv == ASSUME PdInv, PdPush PROVE PdInv'
<1>1. UNCHANGED <<pdTables, pdReqs, pdQueue, pdJob, pdSlips>> /\ pdHook'.todo \subseteq PdProjects
  BY DEF PdPush
<1>2. PdTypes'
  BY <1>1 DEF PdInv, PdTypes, PdMade, pdTables
<1>. QED BY <1>1, <1>2, PdElsewhereInv DEF pdTables

(* What a new row adds to the references of requests and jobs.                *)
LEMMA PdAppended ==
  ASSUME PdTypes, NEW p \in PdProjects, pdRows' = Append(pdRows, [project |-> p, status |-> "prepare"])
  PROVE  pdRows' \in Seq(PdRow) /\ PdMade' = PdMade \cup {Len(pdRows) + 1}
<1>1. pdRows \in Seq(PdRow) /\ [project |-> p, status |-> "prepare"] \in PdRow
  BY DEF PdTypes, PdRow, PdStates
<1>2. pdRows' \in Seq(PdRow) /\ Len(pdRows') = Len(pdRows) + 1
  BY <1>1, AppendProperties
<1>. QED BY <1>1, <1>2, PdRowsShape DEF PdMade

LEMMA PdReqInv == ASSUME PdInv, NEW r \in pdReqs, PdDeployCommit(r) \/ PdDeployEnqueue(r) PROVE PdInv'
<1>0. r[1] \in PdProjects /\ r[2] \in {0} \cup PdMade
  BY DEF PdInv, PdTypes
<1>1. CASE PdDeployCommit(r) /\ pdReqs' = {} /\ UNCHANGED <<pdRows, pdSlips>>
  <2>1. UNCHANGED <<pdStatus, pdRows, pdContainers, pdHook, pdQueue, pdJob, pdSlips>> /\ pdReqs' = {}
    BY <1>1 DEF PdDeployCommit
  <2>2. PdTypes'
    BY <2>1 DEF PdInv, PdTypes, PdMade
  <2>. QED BY <2>1, <2>2, PdElsewhereInv
<1>2. CASE PdDeployCommit(r) /\ PdMayCreate(r[1]) /\ PdRowMade(r[1]) /\ pdReqs' = {<<r[1], Len(pdRows) + 1>>}
  <2>1. /\ UNCHANGED <<pdStatus, pdContainers, pdHook, pdQueue, pdJob>> /\ pdSlips \subseteq pdSlips'
        /\ pdRows' = Append(pdRows, [project |-> r[1], status |-> "prepare"])
    BY <1>2 DEF PdDeployCommit, PdRowMade
  <2>2. pdRows' \in Seq(PdRow) /\ PdMade' = PdMade \cup {Len(pdRows) + 1}
    BY <1>0, <2>1, PdAppended DEF PdInv
  <2>3. PdTypes'
    BY <1>0, <1>2, <2>1, <2>2 DEF PdInv, PdTypes
  <2>. QED BY <1>0, <1>2, <2>1, <2>3, PdMadeInv
<1>3. CASE PdDeployEnqueue(r)
  <2>1. /\ UNCHANGED <<pdTables, pdHook, pdJob>> /\ pdReqs' = {} /\ pdSlips \subseteq pdSlips' /\ r[2] # 0
        /\ pdQueue' \subseteq pdQueue \cup {<<"start", r[2]>>}
    BY <1>3 DEF PdDeployEnqueue
  <2>2. PdTypes'
    BY <1>0, <2>1 DEF PdInv, PdTypes, PdMade, pdTables
  <2>. QED BY <2>1, <2>2, PdElsewhereInv DEF pdTables
<1>. QED BY <1>1, <1>2, <1>3 DEF PdDeployCommit

LEMMA PdPushToInv == ASSUME PdInv, NEW p \in PdProjects, PdPushTo(p) PROVE PdInv'
<1>. DEFINE n == Len(pdRows) + 1
<1>1. /\ UNCHANGED <<pdStatus, pdContainers, pdReqs, pdJob>> /\ pdSlips \subseteq pdSlips'
      /\ pdHook'.todo \subseteq PdProjects
  BY DEF PdPushTo, PdHookDone, PdRowMade, PdInv, PdTypes
<1>2. CASE UNCHANGED <<pdRows, pdQueue>>
  <2>1. PdTypes'
    BY <1>1, <1>2 DEF PdInv, PdTypes, PdMade
  <2>. QED BY <1>1, <1>2, <2>1, PdElsewhereInv
<1>3. CASE /\ PdMayCreate(p) /\ pdRows' = Append(pdRows, [project |-> p, status |-> "prepare"])
           /\ pdQueue' \subseteq pdQueue \cup {<<"start", n>>}
  <2>1. pdRows' \in Seq(PdRow) /\ PdMade' = PdMade \cup {n}
    BY <1>3, PdAppended DEF PdInv
  <2>2. PdTypes'
    BY <1>1, <1>3, <2>1 DEF PdInv, PdTypes
  <2>. QED BY <1>1, <1>3, <2>2, PdMadeInv
<1>. QED BY <1>2, <1>3 DEF PdPushTo, PdRowMade

LEMMA PdStepInv == PdInv /\ [PdNext]_pdVars => PdInv'
<1>. SUFFICES ASSUME PdInv, [PdNext]_pdVars PROVE PdInv'
  OBVIOUS
<1>1. CASE UNCHANGED pdVars
  <2>1. UNCHANGED <<pdStatus, pdRows, pdContainers, pdReqs, pdHook, pdQueue, pdJob, pdSlips>>
    BY <1>1 DEF pdVars, pdTables, pdWeb
  <2>2. PdTypes'
    BY <2>1 DEF PdInv, PdTypes, PdMade
  <2>. QED BY <2>1, <2>2, PdElsewhereInv
<1>2. CASE \E p \in PdProjects: PdCreate(p) \/ PdDeploy(p) \/ PdPushTo(p) \/ PdDelete(p)
  BY <1>2, PdCreateInv, PdDeployInv, PdPushToInv, PdDeleteInv
<1>3. CASE PdReqStep
  BY <1>3, PdReqInv DEF PdReqStep
<1>4. CASE PdPush
  BY <1>4, PdPushInv
<1>5. CASE \E d \in PdIds: PdStartStep(d) \/ PdFinalize(d)
  BY <1>5, PdStartInv, PdStartedInv, PdFinalizeInv DEF PdStartStep
<1>6. CASE PdJobStep \/ PdCrash
  BY <1>6, PdLoadInv, PdSelectInv, PdDeleteRowsInv, PdLastInv, PdFinalInv, PdCrashInv DEF PdJobStep
<1>. QED BY <1>1, <1>2, <1>3, <1>4, <1>5, <1>6 DEF PdNext

LEMMA PdInvariant == PdSpec => []PdInv
BY PdInitInv, PdStepInv, PTL DEF PdSpec

(* No container outlives the project it was made for, unless its deployment   *)
(* was made or started too late, or Docker failed to remove it.               *)
THEOREM PdNoOrphanHolds == PdSpec => []PdNoOrphan
<1>1. PdInv => PdNoOrphan
  <2>. SUFFICES ASSUME PdInv, ~PdSlipped, NEW d \in pdContainers, pdStatus[pdRows[d].project] = "gone"
                PROVE  FALSE
    BY DEF PdNoOrphan, PdSlipped
  <2>1. d \in PdMade /\ pdRows[d].status \in {"running", "succeeded", "gone"}
    BY DEF PdInv, PdContained
  <2>. QED BY <2>1 DEF PdInv, PdRowsKeep, PdThere
<1>. QED BY <1>1, PdInvariant, PTL
-------------------------------------------------------------------------------
(* Projects: what is still to be done has somebody to do it. This is the part *)
(* of PdGoneInTheEnd and PdStartedInTheEnd that does not depend on fairness.  *)
PdLeftover == {"lost", "late"} \cap pdSlips # {}
PdOwes(p) == pdStatus[p] = "deleted" =>
  \/ <<"delete", p>> \in pdQueue
  \/ pdJob.pc # "idle" /\ pdJob.project = p
  \/ PdLeftover
PdOwesStart(d) == PdWaiting(d) =>
  \/ <<"start", d>> \in pdQueue
  \/ \E r \in pdReqs: r[2] = d
  \/ "lost" \in pdSlips

(* A project that is to be deleted has a deletion queued or running, unless   *)
(* the job was never enqueued or a deployment came about meanwhile, with      *)
(* which the deletion ends and leaves the project as it is.                   *)
PdDeletionOwed == \A p \in PdProjects: PdOwes(p)

(* A deployment that waits has its job in the queue, or its request is about  *)
(* to enqueue it, unless the enqueue failed.                                  *)
PdStartOwed == \A d \in PdMade: PdOwesStart(d)

PdNoneLeft == pdJob.pc = "final" => PdOf(pdJob.project) = {} \/ PdLeftover
PdOneRequest == \A r, s \in pdReqs: r = s
PdOwedInv == PdDeletionOwed /\ PdStartOwed /\ PdNoneLeft /\ PdOneRequest

(* What no step does to slips, start jobs, requests and the last step of a    *)
(* deletion, and what only some steps do.                                     *)
PdSteady ==
  /\ pdSlips \subseteq pdSlips'
  /\ \A d: <<"start", d>> \in pdQueue => <<"start", d>> \in pdQueue' \/ PdStart(d)
  /\ pdReqs' = pdReqs \/ pdReqs = {} \/ \E r \in pdReqs: PdDeployCommit(r) \/ PdDeployEnqueue(r)
  /\ pdReqs' = pdReqs \/ pdReqs' = {} \/ \E r: pdReqs' = {r}
  /\ pdJob'.pc = "final" => pdJob' = pdJob \/ PdLast

LEMMA PdBatchStep ==
  ASSUME PdTypes, PdSelect \/ PdDeleteRows \/ PdLast
  PROVE  /\ pdJob'.project = pdJob.project /\ pdJob'.pc # "idle"
         /\ pdJob'.pc = "final" => PdLast
         /\ pdRows' # pdRows => PdDeleteRows
         /\ UNCHANGED <<pdStatus, pdQueue>>
<1>1. CASE PdSelect
  <2>1. PICK batch: pdJob' = [pdJob EXCEPT !.pc = "rows", !.batch = batch]
    BY <1>1 DEF PdSelect
  <2>2. UNCHANGED <<pdStatus, pdQueue, pdRows>>
    BY <1>1 DEF PdSelect
  <2>. QED BY <2>1, <2>2 DEF PdTypes
<1>2. CASE PdDeleteRows
  <2>1. pdJob' = [pdJob EXCEPT !.pc = "batches", !.batch = {}] /\ UNCHANGED <<pdStatus, pdQueue>>
    BY <1>2 DEF PdDeleteRows
  <2>. QED BY <1>2, <2>1 DEF PdTypes
<1>3. CASE PdLast
  <2>1. pdJob' = [pdJob EXCEPT !.pc = "final"] /\ UNCHANGED <<pdStatus, pdQueue, pdRows>>
    BY <1>3 DEF PdLast, pdTables
  <2>. QED BY <1>3, <2>1 DEF PdTypes
<1>. QED BY <1>1, <1>2, <1>3

LEMMA PdSteadyStep == ASSUME PdTypes, [PdNext]_pdVars PROVE PdSteady
<1>1. ASSUME NEW p \in PdProjects, PdCreate(p) \/ PdDelete(p) PROVE PdSteady
  BY <1>1 DEF PdSteady, PdCreate, PdDelete, pdWeb
<1>2. ASSUME NEW p \in PdProjects, PdDeploy(p) PROVE PdSteady
  BY <1>2 DEF PdSteady, PdDeploy, PdNoRequest
<1>3. ASSUME NEW p \in PdProjects, PdPushTo(p) PROVE PdSteady
  BY <1>3 DEF PdSteady, PdPushTo, PdRowMade
<1>4. CASE PdPush
  BY <1>4 DEF PdSteady, PdPush
<1>5. ASSUME NEW r \in pdReqs, PdDeployCommit(r) PROVE PdSteady
  <2>1. /\ pdSlips \subseteq pdSlips' /\ UNCHANGED <<pdQueue, pdJob>>
        /\ pdReqs' = {} \/ \E o: pdReqs' = {o}
    BY <1>5 DEF PdDeployCommit, PdRowMade
  <2>. QED BY <1>5, <2>1 DEF PdSteady
<1>6. ASSUME NEW r \in pdReqs, PdDeployEnqueue(r) PROVE PdSteady
  <2>1. /\ pdSlips \subseteq pdSlips' /\ pdQueue \subseteq pdQueue' /\ UNCHANGED pdJob
        /\ pdReqs' = {}
    BY <1>6 DEF PdDeployEnqueue
  <2>. QED BY <1>6, <2>1 DEF PdSteady
<1>7. ASSUME NEW d \in PdIds, PdStart(d) PROVE PdSteady
  <2>1. /\ pdSlips \subseteq pdSlips' /\ pdQueue' = pdQueue \ {<<"start", d>>} /\ UNCHANGED <<pdJob, pdReqs>>
    BY <1>7 DEF PdStart, pdWeb
  <2>. QED BY <1>7, <2>1 DEF PdSteady
<1>8. ASSUME NEW d \in PdIds, PdStarted(d) \/ PdFinalize(d) PROVE PdSteady
  BY <1>8 DEF PdSteady, PdStarted, PdFinalize, pdWeb
<1>9. ASSUME NEW p \in PdProjects, PdLoad(p) PROVE PdSteady
  <2>1. /\ pdSlips \subseteq pdSlips' /\ pdQueue' = pdQueue \ {<<"delete", p>>} /\ UNCHANGED pdReqs
        /\ pdJob'.pc = "batches" \/ pdJob' = pdJob
    BY <1>9 DEF PdLoad, PdNoJob, pdWeb
  <2>. QED BY <2>1 DEF PdSteady
<1>10. CASE PdSelect \/ PdDeleteRows
  <2>1. pdJob'.pc = "final" => PdLast
    BY <1>10, PdBatchStep
  <2>2. pdSlips \subseteq pdSlips' /\ UNCHANGED <<pdQueue, pdReqs>>
    BY <1>10 DEF PdSelect, PdDeleteRows, pdWeb
  <2>. QED BY <1>10, <2>1, <2>2 DEF PdSteady
<1>11. CASE PdLast
  <2>1. UNCHANGED <<pdSlips, pdQueue, pdReqs>>
    BY <1>11 DEF PdLast, pdWeb
  <2>. QED BY <1>11, <2>1 DEF PdSteady
<1>12. CASE PdFinal \/ PdCrash
  <2>1. UNCHANGED <<pdSlips, pdReqs>> /\ pdQueue \subseteq pdQueue' /\ pdJob'.pc = "idle"
    BY <1>12 DEF PdFinal, PdCrash, PdNoJob, pdWeb
  <2>. QED BY <2>1 DEF PdSteady
<1>13. CASE UNCHANGED pdVars
  BY <1>13 DEF pdVars, pdWeb, PdSteady
<1>. QED BY <1>1, <1>2, <1>3, <1>4, <1>5, <1>6, <1>7, <1>8, <1>9, <1>10, <1>11, <1>12, <1>13
         DEF PdNext, PdReqStep, PdStartStep, PdJobStep

LEMMA PdOwesStep ==
  ASSUME PdInv, PdOwedInv, [PdNext]_pdVars, NEW p \in PdProjects
  PROVE  PdOwes(p)'
<1>0. pdSlips \subseteq pdSlips' /\ PdOwes(p) /\ pdStatus \in [PdProjects -> {"none", "active", "deleted", "gone"}]
  BY PdSteadyStep DEF PdSteady, PdOwedInv, PdDeletionOwed, PdInv, PdTypes
<1>1. ASSUME pdStatus'[p] = "deleted" => pdStatus[p] = "deleted", pdJob' = pdJob,
             <<"delete", p>> \in pdQueue => <<"delete", p>> \in pdQueue'
      PROVE  PdOwes(p)'
  BY <1>0, <1>1 DEF PdOwes, PdLeftover
<1>2. ASSUME pdStatus' = pdStatus, pdQueue' = pdQueue, pdJob'.pc # "idle", pdJob'.project = pdJob.project
      PROVE  PdOwes(p)'
  <2>1. PdLeftover => PdLeftover'
    BY <1>0 DEF PdLeftover
  <2>2. CASE <<"delete", p>> \in pdQueue
    BY <1>2, <2>2 DEF PdOwes
  <2>3. CASE pdJob.project = p
    BY <1>2, <2>3 DEF PdOwes
  <2>. QED BY <1>0, <1>2, <2>1, <2>2, <2>3 DEF PdOwes
<1>3. CASE UNCHANGED pdVars \/ PdReqStep \/ PdPush
  BY <1>1, <1>3 DEF pdVars, pdTables, PdReqStep, PdDeployCommit, PdDeployEnqueue, PdPush
<1>4. ASSUME NEW q \in PdProjects, PdCreate(q) \/ PdDeploy(q) \/ PdPushTo(q) PROVE PdOwes(p)'
  BY <1>0, <1>1, <1>4 DEF pdTables, PdCreate, PdDeploy, PdPushTo
<1>5. ASSUME NEW q \in PdProjects, PdDelete(q) PROVE PdOwes(p)'
  <2>1. CASE p = q
    BY <1>5, <2>1 DEF PdDelete, PdOwes, PdLeftover
  <2>2. CASE p # q
    BY <1>0, <1>1, <1>5, <2>2 DEF PdDelete
  <2>. QED BY <2>1, <2>2
<1>6. ASSUME NEW d \in PdIds, PdStartStep(d) \/ PdFinalize(d) PROVE PdOwes(p)'
  BY <1>1, <1>6 DEF PdStartStep, PdStart, PdStarted, PdFinalize
<1>7. ASSUME NEW q \in PdProjects, PdLoad(q) PROVE PdOwes(p)'
  <2>1. /\ pdJob.pc = "idle" /\ pdQueue' = pdQueue \ {<<"delete", q>>} /\ pdStatus' = pdStatus
        /\ pdStatus[q] = "deleted" => pdJob'.pc = "batches" /\ pdJob'.project = q
        /\ pdStatus[q] # "deleted" => pdJob' = pdJob
    BY <1>7 DEF PdLoad, PdMayLoad, PdNoJob, pdTables
  <2>. QED BY <1>0, <2>1 DEF PdOwes, PdLeftover
<1>8. CASE PdSelect \/ PdDeleteRows \/ PdLast
  BY <1>2, <1>8, PdBatchStep DEF PdInv
<1>9. CASE PdFinal
  <2>1. /\ pdJob.pc = "final" /\ pdQueue' = pdQueue
        /\ pdStatus' = IF PdOf(pdJob.project) = {} THEN [pdStatus EXCEPT ![pdJob.project] = "gone"] ELSE pdStatus
    BY <1>9 DEF PdFinal
  <2>2. PdOf(pdJob.project) = {} \/ PdLeftover'
    BY <1>0, <2>1 DEF PdOwedInv, PdNoneLeft, PdLeftover
  <2>. QED BY <1>0, <2>1, <2>2 DEF PdOwes, PdLeftover
<1>10. CASE PdCrash
  BY <1>0, <1>10 DEF PdCrash, PdOwes, PdLeftover, pdTables
<1>. QED BY <1>3, <1>4, <1>5, <1>6, <1>7, <1>8, <1>9, <1>10 DEF PdNext, PdJobStep

(* The rows there are, and those that wait: only a new row adds to either.    *)
LEMMA PdRowsStep ==
  ASSUME PdInv, [PdNext]_pdVars
  PROVE  /\ \/ pdRows' = pdRows
            \/ \E p \in PdProjects:
                 /\ pdRows' = Append(pdRows, [project |-> p, status |-> "prepare"])
                 /\ pdStatus[p] = "deleted" => PdLeftover'
                 /\ \/ <<"start", Len(pdRows) + 1>> \in pdQueue'
                    \/ \E r \in pdReqs': r[2] = Len(pdRows) + 1
                    \/ "lost" \in pdSlips'
                 /\ pdJob' = pdJob
            \/ /\ PdMade' = PdMade
               /\ \A d \in PdMade: /\ pdRows'[d].project = pdRows[d].project
                                   /\ PdThere(d)' => PdThere(d)
                                   /\ PdWaiting(d)' => PdWaiting(d)
<1>1. ASSUME NEW d \in PdMade, NEW s \in PdStates \ {"prepare"}, pdRows' = [pdRows EXCEPT ![d].status = s],
             s \notin {"goneStarting", "gone"} => PdThere(d)
      PROVE  /\ PdMade' = PdMade
             /\ \A e \in PdMade: /\ pdRows'[e].project = pdRows[e].project
                                 /\ PdThere(e)' => PdThere(e)
                                 /\ PdWaiting(e)' => PdWaiting(e)
  BY <1>1, PdRowStep DEF PdInv, PdThere, PdWaiting
<1>2. CASE UNCHANGED pdVars \/ PdPush \/ PdCrash
  BY <1>2 DEF pdVars, pdTables, PdPush, PdCrash
<1>3. ASSUME NEW p \in PdProjects, PdCreate(p) \/ PdDeploy(p) \/ PdDelete(p) PROVE pdRows' = pdRows
  BY <1>3 DEF pdTables, PdCreate, PdDeploy, PdDelete
<1>4. ASSUME NEW p \in PdProjects, PdPushTo(p), pdRows' # pdRows
      PROVE  /\ pdRows' = Append(pdRows, [project |-> p, status |-> "prepare"])
             /\ pdStatus[p] = "deleted" => PdLeftover'
             /\ <<"start", Len(pdRows) + 1>> \in pdQueue' \/ "lost" \in pdSlips'
             /\ pdJob' = pdJob
  BY <1>4 DEF PdPushTo, PdRowMade, PdLeftover
<1>5. ASSUME NEW r \in pdReqs, PdDeployCommit(r) \/ PdDeployEnqueue(r), pdRows' # pdRows
      PROVE  \E p \in PdProjects:
               /\ pdRows' = Append(pdRows, [project |-> p, status |-> "prepare"])
               /\ pdStatus[p] = "deleted" => PdLeftover'
               /\ \E o \in pdReqs': o[2] = Len(pdRows) + 1
               /\ pdJob' = pdJob
  <2>1. PdDeployCommit(r) /\ r[1] \in PdProjects
    BY <1>5 DEF PdDeployEnqueue, pdTables, PdInv, PdTypes
  <2>2. /\ PdRowMade(r[1]) /\ pdReqs' = {<<r[1], Len(pdRows) + 1>>} /\ pdJob' = pdJob
    BY <1>5, <2>1 DEF PdDeployCommit
  <2>3. \E o \in pdReqs': o[2] = Len(pdRows) + 1
    BY <2>2
  <2>4. pdStatus[r[1]] = "deleted" => PdLeftover'
    BY <2>2 DEF PdRowMade, PdLeftover
  <2>. QED BY <2>1, <2>2, <2>3, <2>4 DEF PdRowMade
<1>6. ASSUME NEW d \in PdIds, PdStartStep(d) \/ PdFinalize(d), pdRows' # pdRows
      PROVE  \E e \in PdMade, s \in PdStates \ {"prepare"}:
               /\ pdRows' = [pdRows EXCEPT ![e].status = s]
               /\ s \notin {"goneStarting", "gone"} => PdThere(e)
  <2>1. CASE PdStart(d)
    <3>1. /\ d \in PdMade /\ pdRows' = [pdRows EXCEPT ![d].status = "starting"] /\ PdThere(d)
      BY <1>6, <2>1 DEF PdStart, PdTaken, PdThere, PdInv, PdTypes
    <3>. QED BY <3>1 DEF PdStates
  <2>2. CASE PdStarted(d)
    <3>1. /\ d \in PdMade /\ pdRows[d].status \in {"starting", "goneStarting"}
          /\ pdRows' = [pdRows EXCEPT ![d].status = IF pdRows[d].status = "starting" THEN "running" ELSE "gone"]
      BY <2>2 DEF PdStarted
    <3>2. CASE pdRows[d].status = "starting"
      BY <3>1, <3>2 DEF PdThere, PdStates
    <3>3. CASE pdRows[d].status = "goneStarting"
      BY <3>1, <3>3 DEF PdStates
    <3>. QED BY <3>1, <3>2, <3>3
  <2>3. CASE PdFinalize(d)
    <3>1. d \in PdMade /\ pdRows' = [pdRows EXCEPT ![d].status = "succeeded"] /\ PdThere(d)
      BY <2>3 DEF PdFinalize, PdThere
    <3>. QED BY <3>1 DEF PdStates
  <2>. QED BY <1>6, <2>1, <2>2, <2>3 DEF PdStartStep
<1>7. CASE PdJobStep
  <2>1. ASSUME ~PdDeleteRows PROVE pdRows' = pdRows
    BY <1>7, <2>1, PdBatchStep DEF PdJobStep, PdLoad, PdFinal, PdInv, pdTables
  <2>2. CASE PdDeleteRows /\ pdRows' # pdRows
    <3>1. pdRows' = [d \in PdMade |->
            IF d \notin pdJob.batch THEN pdRows[d]
            ELSE [pdRows[d] EXCEPT !.status = IF @ = "starting" THEN "goneStarting" ELSE "gone"]]
      BY <2>2 DEF PdDeleteRows
    <3>2. \A d \in PdMade: pdRows[d] \in PdRow
      BY PdRowsShape DEF PdInv, PdTypes, PdMade
    <3>3. /\ PdMade' = PdMade
          /\ \A d \in PdMade: /\ pdRows'[d].project = pdRows[d].project
                              /\ pdRows'[d].status \in {pdRows[d].status, "goneStarting", "gone"}
      BY <3>1, <3>2 DEF PdMade, PdRow
    <3>. QED BY <3>3 DEF PdThere, PdWaiting
  <2>. QED BY <1>7, <2>1, <2>2
<1>. QED BY <1>1, <1>2, <1>3, <1>4, <1>5, <1>6, <1>7 DEF PdNext, PdReqStep

LEMMA PdNoneLeftStep ==
  ASSUME PdInv, PdOwedInv, [PdNext]_pdVars
  PROVE  PdNoneLeft'
<1>. SUFFICES ASSUME pdJob'.pc = "final" PROVE (PdOf(pdJob.project) = {} \/ PdLeftover)'
  BY DEF PdNoneLeft
<1>1. CASE pdJob' # pdJob
  <2>1. PdLast
    BY <1>1, PdSteadyStep DEF PdSteady, PdInv
  <2>. QED BY <2>1 DEF PdLast, PdInv, PdTypes, PdOf, PdMade, PdThere, pdTables
<1>2. CASE pdJob' = pdJob
  <2>0. PdOf(pdJob.project) = {} \/ PdLeftover
    BY <1>2 DEF PdOwedInv, PdNoneLeft
  <2>1. CASE PdLeftover
    BY <2>1, PdSteadyStep DEF PdSteady, PdLeftover, PdInv
  <2>2. ASSUME NEW p \in PdProjects, PdOf(pdJob.project) = {}, pdStatus[p] = "deleted" => PdLeftover',
               pdRows' = Append(pdRows, [project |-> p, status |-> "prepare"])
        PROVE  (PdOf(pdJob.project) = {} \/ PdLeftover)'
    <3>1. CASE p = pdJob.project
      BY <1>2, <2>2, <3>1 DEF PdInv, PdJobKeeps
    <3>2. CASE p # pdJob.project
      <4>1. pdRows \in Seq(PdRow) /\ [project |-> p, status |-> "prepare"] \in PdRow
        BY DEF PdInv, PdTypes, PdRow, PdStates
      <4>2. /\ PdMade' = PdMade \cup {Len(pdRows) + 1} /\ PdMade = 1..Len(pdRows)
            /\ pdRows'[Len(pdRows) + 1].project = p
            /\ \A d \in PdMade: pdRows'[d] = pdRows[d]
        BY <2>2, <4>1, PdAppended, PdRowsShape, AppendProperties DEF PdInv, PdMade
      <4>. QED BY <1>2, <2>2, <3>2, <4>2 DEF PdOf, PdThere
    <3>. QED BY <3>1, <3>2
  <2>3. ASSUME PdOf(pdJob.project) = {}, PdMade' = PdMade,
               \A d \in PdMade: pdRows'[d].project = pdRows[d].project /\ (PdThere(d)' => PdThere(d))
        PROVE  PdOf(pdJob.project)' = {}
    BY <1>2, <2>3 DEF PdOf
  <2>4. ASSUME PdOf(pdJob.project) = {}, pdRows' = pdRows PROVE PdOf(pdJob.project)' = {}
    BY <1>2, <2>4 DEF PdOf, PdMade, PdThere
  <2>. QED BY <2>0, <2>1, <2>2, <2>3, <2>4, PdRowsStep
<1>. QED BY <1>1, <1>2

LEMMA PdOneRequestStep ==
  ASSUME PdInv, PdOwedInv, [PdNext]_pdVars
  PROVE  PdOneRequest'
BY PdSteadyStep DEF PdSteady, PdInv, PdOwedInv, PdOneRequest

(* What a waiting deployment counts on stays until it waits no longer.        *)
LEMMA PdOwesStartStep ==
  ASSUME PdInv, PdOwedInv, [PdNext]_pdVars, NEW d \in PdMade'
  PROVE  PdOwesStart(d)'
<1>0. pdSlips \subseteq pdSlips'
  BY PdSteadyStep DEF PdSteady, PdInv
<1>1. ASSUME d \in PdMade, PdWaiting(d)
      PROVE  PdOwesStart(d)'
  <2>0. <<"start", d>> \in pdQueue \/ (\E r \in pdReqs: r[2] = d) \/ "lost" \in pdSlips
    BY <1>1 DEF PdOwedInv, PdStartOwed, PdOwesStart
  <2>1. CASE "lost" \in pdSlips
    BY <1>0, <2>1 DEF PdOwesStart
  <2>2. CASE <<"start", d>> \in pdQueue
    <3>1. <<"start", d>> \in pdQueue' \/ PdStart(d)
      BY <2>2, PdSteadyStep DEF PdSteady, PdInv
    <3>2. PdStart(d) => ~PdWaiting(d)'
      <4>. SUFFICES ASSUME PdStart(d) PROVE ~PdWaiting(d)'
        OBVIOUS
      <4>1. pdRows' = [pdRows EXCEPT ![d].status = "starting"]
        BY <1>1 DEF PdStart, PdTaken, PdWaiting
      <4>. QED BY <1>1, <4>1, PdRowStep DEF PdWaiting, PdInv, PdStates
    <3>. QED BY <3>1, <3>2 DEF PdOwesStart
  <2>3. ASSUME NEW r \in pdReqs, r[2] = d PROVE PdOwesStart(d)'
    <3>1. d # 0
      BY <1>1, PdRowsShape DEF PdMade, PdInv, PdTypes
    <3>2. r \in pdReqs' \/ PdDeployEnqueue(r)
      <4>1. r \in pdReqs' \/ PdDeployCommit(r) \/ PdDeployEnqueue(r)
        BY PdSteadyStep DEF PdSteady, PdInv, PdOwedInv, PdOneRequest
      <4>. QED BY <2>3, <3>1, <4>1 DEF PdDeployCommit
    <3>3. PdDeployEnqueue(r) => <<"start", d>> \in pdQueue' \/ "lost" \in pdSlips'
      BY <2>3 DEF PdDeployEnqueue
    <3>. QED BY <2>3, <3>2, <3>3 DEF PdOwesStart
  <2>. QED BY <2>0, <2>1, <2>2, <2>3
<1>2. CASE pdRows' = pdRows
  BY <1>1, <1>2 DEF PdMade, PdWaiting, PdOwesStart
<1>3. ASSUME NEW p \in PdProjects, pdRows' = Append(pdRows, [project |-> p, status |-> "prepare"]),
             \/ <<"start", Len(pdRows) + 1>> \in pdQueue'
             \/ \E r \in pdReqs': r[2] = Len(pdRows) + 1
             \/ "lost" \in pdSlips'
      PROVE  PdOwesStart(d)'
  <2>1. CASE d = Len(pdRows) + 1
    BY <1>3, <2>1 DEF PdOwesStart
  <2>2. CASE d # Len(pdRows) + 1
    <3>1. pdRows \in Seq(PdRow) /\ [project |-> p, status |-> "prepare"] \in PdRow
      BY DEF PdInv, PdTypes, PdRow, PdStates
    <3>2. d \in PdMade /\ pdRows'[d] = pdRows[d]
      BY <1>3, <2>2, <3>1, PdAppended, PdRowsShape, AppendProperties DEF PdInv, PdMade
    <3>. QED BY <1>1, <3>2 DEF PdWaiting, PdOwesStart
  <2>. QED BY <2>1, <2>2
<1>4. ASSUME PdMade' = PdMade, \A e \in PdMade: PdWaiting(e)' => PdWaiting(e)
      PROVE  PdOwesStart(d)'
  BY <1>1, <1>4 DEF PdOwesStart
<1>. QED BY <1>2, <1>3, <1>4, PdRowsStep

LEMMA PdOwedInvariant == PdSpec => []PdOwedInv
<1>1. PdInit => PdOwedInv
  BY DEF PdInit, PdOwedInv, PdDeletionOwed, PdOwes, PdStartOwed, PdOwesStart, PdWaiting, PdMade, PdNoneLeft,
         PdOneRequest, PdNoJob
<1>2. PdInv /\ PdOwedInv /\ [PdNext]_pdVars => PdOwedInv'
  BY PdOwesStep, PdOwesStartStep, PdNoneLeftStep, PdOneRequestStep DEF PdOwedInv, PdDeletionOwed, PdStartOwed
<1>. QED BY <1>1, <1>2, PdInvariant, PTL DEF PdSpec

(* For any number of projects and deployments, any size of a batch and any    *)
(* failures: nobody forgets a deletion, whatever the worker does in between.  *)
THEOREM PdDeletionOwedHolds == PdSpec => []PdDeletionOwed
<1>1. PdOwedInv => PdDeletionOwed
  BY DEF PdOwedInv
<1>. QED BY <1>1, PdOwedInvariant, PTL

(* Likewise no deployment waits for a job that nobody will enqueue.           *)
THEOREM PdStartOwedHolds == PdSpec => []PdStartOwed
<1>1. PdOwedInv => PdStartOwed
  BY DEF PdOwedInv
<1>. QED BY <1>1, PdOwedInvariant, PTL
-------------------------------------------------------------------------------
(* Registry.                                                                 *)

RgBusy(r) == rgRead[r] # RgIdle
RgTypes ==
  /\ rgCatalog \in [RgItems -> RgCatalogEnabled \cup {"absent"}] /\ rgOverrides \in [RgItems -> RgSays]
  /\ rgRead \in [RgRequests -> [catalog: [RgItems -> RgSays], overrides: [RgItems -> RgSays]]]
  /\ rgSet \in [RgItems -> RgSays] /\ rgRaced \in BOOLEAN

(* A choice is in the overrides and its item in the catalog; a request that   *)
(* is alone has read what the files still say.                                *)
RgChosen(i) == rgSet[i] # "none" => rgCatalog[i] # "absent" /\ (rgOverrides[i] = "true" <=> rgSet[i] = "true")
RgReadFresh(r) == rgRead[r] = [catalog |-> rgCatalog, overrides |-> RgPruned(rgCatalog, rgOverrides)]

RgInv ==
  /\ RgTypes
  /\ ~rgRaced => /\ \A i \in RgItems: RgChosen(i)
                 /\ \A r \in RgRequests: RgBusy(r) => RgReadFresh(r) /\ \A o \in RgRequests: RgBusy(o) => o = r

(* What pruning does when the catalog enables nothing.                        *)
LEMMA RgPrunedIs ==
  ASSUME NEW base, base # "true", NEW override
  PROVE  RgPrunedOf(base, override) = IF override = "true" /\ base # "absent" THEN "true" ELSE "none"
BY DEF RgPrunedOf

LEMMA RgPrunedTyped ==
  ASSUME NEW catalog, NEW overrides
  PROVE  RgPruned(catalog, overrides) \in [RgItems -> RgSays]
BY DEF RgPruned, RgPrunedOf, RgSays

LEMMA RgInitInv == RgInit => RgInv
<1>. SUFFICES ASSUME RgInit PROVE RgInv
  OBVIOUS
<1>1. RgNone \in [RgItems -> RgSays] /\ RgIdle \in [catalog: [RgItems -> RgSays], overrides: [RgItems -> RgSays]]
  BY DEF RgNone, RgIdle, RgSays
<1>2. RgTypes
  BY <1>1 DEF RgInit, RgTypes, RgSays
<1>3. (\A i \in RgItems: rgSet[i] = "none") /\ (\A r \in RgRequests: ~RgBusy(r))
  BY DEF RgInit, RgNone, RgBusy
<1>. QED BY <1>2, <1>3 DEF RgInv, RgChosen

LEMMA RgUpdateInv ==
  ASSUME RgInv, NEW catalog \in [RgItems -> RgCatalogEnabled \cup {"absent"}], RgUpdate(catalog)
  PROVE  RgInv'
<1>1. /\ rgCatalog' = catalog /\ UNCHANGED <<rgOverrides, rgRead>>
      /\ rgSet' = [i \in RgItems |-> IF catalog[i] = "absent" THEN "none" ELSE rgSet[i]]
      /\ rgRaced' = (rgRaced \/ \E r \in RgRequests: RgBusy(r))
  BY DEF RgUpdate, RgBusy
<1>2. rgSet' \in [RgItems -> RgSays] /\ rgRaced' \in BOOLEAN
  BY <1>1 DEF RgInv, RgTypes, RgSays
<1>3. RgTypes'
  BY <1>1, <1>2 DEF RgInv, RgTypes
<1>4. \A r \in RgRequests: RgBusy(r)' <=> RgBusy(r)
  BY <1>1 DEF RgBusy
<1>5. ASSUME ~rgRaced', NEW i \in RgItems PROVE RgChosen(i)'
  BY <1>1, <1>5 DEF RgInv, RgChosen
<1>. QED BY <1>1, <1>3, <1>4, <1>5 DEF RgInv

LEMMA RgBeginInv == ASSUME RgInv, NEW r \in RgRequests, RgBegin(r) PROVE RgInv'
<1>. DEFINE read == [catalog |-> rgCatalog, overrides |-> RgPruned(rgCatalog, rgOverrides)]
<1>1. /\ ~RgBusy(r) /\ rgRead' = [rgRead EXCEPT ![r] = read]
      /\ rgRaced' = (rgRaced \/ \E o \in RgRequests: RgBusy(o))
      /\ UNCHANGED <<rgCatalog, rgOverrides, rgSet>>
  BY DEF RgBegin, RgBusy
<1>2. read \in [catalog: [RgItems -> RgSays], overrides: [RgItems -> RgSays]]
  BY RgPrunedTyped, RgAssumption DEF RgInv, RgTypes, RgSays
<1>3. RgTypes'
  BY <1>1, <1>2 DEF RgInv, RgTypes
<1>4. \A o \in RgRequests: o # r => (RgBusy(o)' <=> RgBusy(o))
  BY <1>1 DEF RgBusy, RgInv, RgTypes
<1>5. RgReadFresh(r)'
  BY <1>1 DEF RgReadFresh, RgInv, RgTypes, RgPruned
<1>6. ~rgRaced' => /\ \A i \in RgItems: RgChosen(i)'
                   /\ \A o \in RgRequests: RgBusy(o)' => o = r
  BY <1>1, <1>4 DEF RgInv, RgChosen
<1>. QED BY <1>3, <1>5, <1>6 DEF RgInv

LEMMA RgSetItemInv ==
  ASSUME "true" \notin RgCatalogEnabled, RgInv, NEW r \in RgRequests, NEW i \in RgItems,
         NEW enabled \in {"true", "false"}, RgSetItem(r, i, enabled)
  PROVE  RgInv'
<1>. DEFINE kept == RgPruned(rgCatalog, rgOverrides)
<1>1. /\ RgBusy(r) /\ rgOverrides' = RgPruned(rgRead[r].catalog, [rgRead[r].overrides EXCEPT ![i] = enabled])
      /\ rgRead' = [rgRead EXCEPT ![r] = RgIdle]
      /\ rgSet' = IF rgCatalog[i] = "absent" THEN rgSet ELSE [rgSet EXCEPT ![i] = enabled]
      /\ UNCHANGED <<rgCatalog, rgRaced>>
  BY DEF RgSetItem, RgBusy
<1>2. RgTypes'
  <2>1. rgOverrides' \in [RgItems -> RgSays]
    BY <1>1, RgPrunedTyped
  <2>2. RgIdle \in [catalog: [RgItems -> RgSays], overrides: [RgItems -> RgSays]]
    BY DEF RgNone, RgIdle, RgSays
  <2>3. rgSet' \in [RgItems -> RgSays]
    BY <1>1 DEF RgInv, RgTypes, RgSays
  <2>. QED BY <1>1, <2>1, <2>2, <2>3 DEF RgInv, RgTypes
<1>3. ASSUME ~rgRaced', NEW o \in RgRequests PROVE ~RgBusy(o)'
  BY <1>1, <1>3 DEF RgInv, RgTypes, RgBusy
<1>4. ASSUME ~rgRaced', NEW j \in RgItems PROVE RgChosen(j)'
  <2>1. rgOverrides' = RgPruned(rgCatalog, [kept EXCEPT ![i] = enabled])
    BY <1>1, <1>4 DEF RgInv, RgReadFresh
  <2>2. rgCatalog[j] # "true"
    BY DEF RgInv, RgTypes
  <2>3. kept[j] = RgPrunedOf(rgCatalog[j], rgOverrides[j]) /\ DOMAIN kept = RgItems
    BY DEF RgPruned
  <2>4. rgOverrides'[j] = RgPrunedOf(rgCatalog[j], IF j = i THEN enabled ELSE kept[j])
    BY <2>1, <2>3 DEF RgPruned
  <2>5. rgCatalog[j] # "absent" => (rgOverrides'[j] = "true" <=> IF j = i THEN enabled = "true" ELSE rgOverrides[j] = "true")
    BY <2>2, <2>3, <2>4, RgPrunedIs
  <2>6. rgSet'[j] = IF j = i /\ rgCatalog[i] # "absent" THEN enabled ELSE rgSet[j]
    BY <1>1 DEF RgInv, RgTypes
  <2>. QED BY <1>1, <1>4, <2>5, <2>6 DEF RgInv, RgChosen
<1>. QED BY <1>1, <1>2, <1>3, <1>4 DEF RgInv

LEMMA RgStepInv == ASSUME "true" \notin RgCatalogEnabled, RgInv, [RgNext]_rgVars PROVE RgInv'
<1>1. CASE UNCHANGED <<rgCatalog, rgOverrides, rgRead, rgSet, rgRaced>>
  BY <1>1 DEF RgInv, RgTypes, RgBusy, RgReadFresh, RgChosen, RgPruned
<1>2. CASE UNCHANGED rgVars
  BY <1>1, <1>2 DEF rgVars
<1>3. CASE RgNext
  BY <1>1, <1>3, RgUpdateInv, RgBeginInv, RgSetItemInv DEF RgNext, RgPull, RgClear
<1>. QED BY <1>2, <1>3

(* One request after the other, the last choice about an item is what the     *)
(* instance offers, through any updates of the catalog, provided that the     *)
(* catalog enables nothing by itself.                                         *)
THEOREM RgOverridesWinHolds ==
  ASSUME "true" \notin RgCatalogEnabled PROVE RgSpec => []RgOverridesWin
<1>1. RgInv /\ [RgNext]_rgVars => RgInv'
  BY RgStepInv
<1>2. ASSUME RgInv PROVE RgOverridesWin
  <2>1. ASSUME NEW i \in RgItems
        PROVE  i \in RgEnabled <=> rgOverrides[i] = "true" /\ rgCatalog[i] # "absent"
    <3>1. rgCatalog[i] # "true"
      BY <1>2 DEF RgInv, RgTypes
    <3>2. RgPruned(rgCatalog, rgOverrides)[i] = RgPrunedOf(rgCatalog[i], rgOverrides[i])
      BY DEF RgPruned
    <3>. QED BY <3>1, <3>2, RgPrunedIs DEF RgEnabled
  <2>2. ~rgRaced => \A i \in RgItems: rgSet[i] # "none" => (i \in RgEnabled <=> rgSet[i] = "true")
    BY <1>2, <2>1 DEF RgInv, RgChosen
  <2>3. ASSUME ~rgRaced, NEW p \in RgOffered
        PROVE  \E r \in RgRunners: RgCategory[r] = RgCategory[p] /\ rgSet[r] # "false"
    <3>1. PICK r \in RgRunners \cap RgEnabled: RgCategory[r] = RgCategory[p]
      BY <2>3, RgAssumption DEF RgOffered
    <3>. QED BY <2>2, <2>3, <3>1 DEF RgItems
  <2>. QED BY <2>2, <2>3 DEF RgOverridesWin
<1>. QED BY <1>1, <1>2, RgInitInv, PTL DEF RgSpec
-------------------------------------------------------------------------------
(* Domains: the types.                                                       *)

DmRow == [project: DmProjects, host: DmHosts, status: DmStatuses, env: BOOLEAN, proven: BOOLEAN]
DmSession == [DmIds -> DmRow]
DmAdding == [no: Nat, op: {"add"}, project: DmProjects, host: DmHosts]
DmForms == [no: Nat, op: {"edit", "verify", "remove"}, project: DmProjects, id: DmIds, host: DmHosts,
            loaded: DmSession]
DmDisabling == [no: Nat, op: {"disable"}, project: DmProjects, loaded: DmSession]
DmFlushed == [no: Nat, op: {"flushed"}, project: DmProjects, id: DmIds, host: DmHosts, loaded: DmSession,
              rivals: SUBSET DmIds]
DmRewriters == [no: Nat, op: {"rewrite"}, project: DmProjects, loaded: DmSession]
DmWriting == [no: Nat, op: {"write"}, project: DmProjects, content: [DmIds -> DmHosts \cup {""}],
              aside: SUBSET DmIds]
DmRequest == DmAdding \cup DmForms \cup DmDisabling \cup DmFlushed \cup DmRewriters \cup DmWriting

(* A request has its number for itself.                                      *)
DmNumbered(open) == /\ open \subseteq DmRequest
                    /\ \A q \in open: dmLeft < q.no
                    /\ \A q, r \in open: q.no = r.no => q = r

DmTyped ==
  /\ dmRows \in DmSession
  /\ dmFile \in [DmProjects -> [DmIds -> DmHosts \cup {""}]]
  /\ dmAside \in [DmProjects -> SUBSET DmIds]
  /\ DmNumbered(dmOpen)
  /\ dmLeft \in Nat
  /\ dmUnseen \in BOOLEAN /\ dmMissed \in BOOLEAN

LEMMA DmNoRowType == DmNone \in DmProjects /\ DmNoRow \in DmRow /\ DmNoRow.status = "none"
<1>1. DmNone \in DmProjects
  BY DmAssumption DEF DmNone
<1>2. (CHOOSE h \in DmHosts: TRUE) \in DmHosts
  BY DmAssumption
<1>. QED BY <1>1, <1>2 DEF DmNoRow, DmRow, DmStatuses

(* The step of a request tells its fields.                                   *)
LEMMA DmShape ==
  ASSUME NEW q \in DmRequest
  PROVE  /\ q.no \in Nat /\ q.project \in DmProjects
         /\ q.op \in {"add", "edit", "verify", "flushed", "remove", "disable", "rewrite", "write"}
         /\ q.op = "add" => q \in DmAdding
         /\ q.op \in {"edit", "verify", "remove"} => q \in DmForms
         /\ q.op = "disable" => q \in DmDisabling
         /\ q.op = "flushed" => q \in DmFlushed
         /\ q.op = "rewrite" => q \in DmRewriters
         /\ q.op = "write" => q \in DmWriting
BY DEF DmRequest, DmAdding, DmForms, DmDisabling, DmFlushed, DmRewriters, DmWriting

LEMMA DmLoadType == ASSUME dmRows \in DmSession, NEW ids PROVE DmLoad(ids) \in DmSession
BY DmNoRowType DEF DmLoad, DmSession

LEMMA DmFormType ==
  ASSUME DmTyped, NEW op \in {"edit", "verify", "remove"}, NEW id \in DmIds, NEW h \in DmHosts
  PROVE  /\ DmForm(op, id, h) \in DmRequest
         /\ DmForm(op, id, h).no = dmLeft /\ DmForm(op, id, h).op = op
         /\ DmForm(op, id, h).id = id /\ DmForm(op, id, h).host = h
         /\ DmForm(op, id, h).project = dmRows[id].project
         /\ DmExists(id) => DmSeen(DmForm(op, id, h)) = dmRows[id]
<1>. DEFINE loaded == DmLoad({o \in DmIds: DmExists(o) /\ dmRows[o].project = dmRows[id].project})
<1>1. loaded \in DmSession
  BY DmLoadType DEF DmTyped
<1>2. dmRows[id].project \in DmProjects /\ dmLeft \in Nat
  BY DEF DmTyped, DmSession, DmRow
<1>3. DmExists(id) => loaded[id] = dmRows[id]
  BY DEF DmLoad
<1>. HIDE DEF loaded
<1>4. DmForm(op, id, h) = [no |-> dmLeft, op |-> op, project |-> dmRows[id].project, id |-> id, host |-> h,
                           loaded |-> loaded]
  BY DEF DmForm, loaded
<1>5. DmForm(op, id, h) \in DmForms
  BY <1>1, <1>2, <1>4 DEF DmForms
<1>. QED BY <1>3, <1>4, <1>5 DEF DmRequest, DmSeen

LEMMA DmRewritingType ==
  ASSUME NEW no \in Nat, NEW p \in DmProjects, NEW loaded \in DmSession
  PROVE  LET r == DmRewriting(no, p, loaded)
         IN r \in DmRequest /\ r.op = "rewrite" /\ r.no = no /\ r.project = p
BY DEF DmRewriting, DmRequest, DmRewriters

(* A request takes its next step, or ends.                                   *)
LEMMA DmReplaced ==
  ASSUME DmTyped, NEW q \in dmOpen, NEW r \in DmRequest, r.no = q.no
  PROVE  DmNumbered((dmOpen \ {q}) \cup {r})
BY DEF DmTyped, DmNumbered

LEMMA DmEnded == ASSUME DmTyped, NEW q \in dmOpen PROVE DmNumbered(dmOpen \ {q})
BY DEF DmTyped, DmNumbered

LEMMA DmBeginTyped ==
  ASSUME DmTyped, NEW q \in DmRequest, q.no = dmLeft, DmBegin(q), dmUnseen' \in BOOLEAN
  PROVE  DmTyped'
<1>1. dmLeft \in Nat /\ dmLeft' \in Nat /\ dmLeft' < dmLeft /\ dmOpen' = dmOpen \cup {q}
      /\ UNCHANGED <<dmRows, dmFile, dmMissed, dmAside>>
  <2>1. dmLeft \in Nat
    BY DEF DmTyped
  <2>2. dmLeft > 0 /\ dmLeft' = dmLeft - 1 /\ dmOpen' = dmOpen \cup {q}
        /\ UNCHANGED <<dmRows, dmFile, dmMissed, dmAside>>
    BY DEF DmBegin
  <2>. QED BY <2>1, <2>2
<1>2. /\ \A r \in dmOpen: r.no \in Nat /\ dmLeft < r.no
      /\ \A r, s \in dmOpen: r.no = s.no => r = s
  BY DmShape DEF DmTyped, DmNumbered
<1>3. DmNumbered(dmOpen)'
  <2>1. \A r \in dmOpen': dmLeft' < r.no
    BY <1>1, <1>2
  <2>2. \A r, s \in dmOpen': r.no = s.no => r = s
    <3>1. \A r \in dmOpen: r.no # q.no
      BY <1>1, <1>2
    <3>. QED BY <1>1, <1>2, <3>1
  <2>. QED BY <1>1, <2>1, <2>2 DEF DmTyped, DmNumbered
<1>. QED BY <1>1, <1>3 DEF DmTyped

(* What DmCommit makes of a request.                                         *)
DmLost(written) == [p \in DmProjects |-> IF p \in written THEN {} ELSE DmChanged(p)]
DmMark(q, lost) == IF q.op = "write" THEN [q EXCEPT !.aside = @ \cup lost[q.project]] ELSE q

LEMMA DmMarkShape ==
  ASSUME NEW q \in DmRequest, NEW lost \in [DmProjects -> SUBSET DmIds]
  PROVE  LET r == DmMark(q, lost)
         IN /\ r \in DmRequest /\ r.no = q.no /\ r.op = q.op /\ r.project = q.project
            /\ q.op # "write" => r = q
            /\ q.op = "write" => r.content = q.content /\ r.aside = q.aside \cup lost[q.project]
<1>1. CASE q.op # "write"
  BY <1>1 DEF DmMark
<1>2. CASE q.op = "write"
  <2>1. q \in DmWriting /\ lost[q.project] \in SUBSET DmIds
    BY <1>2, DmShape
  <2>2. DmMark(q, lost) = [q EXCEPT !.aside = @ \cup lost[q.project]]
    BY <1>2 DEF DmMark
  <2>3. DmMark(q, lost) \in DmWriting
    BY <2>1, <2>2 DEF DmWriting
  <2>. QED BY <1>2, <2>1, <2>2, <2>3 DEF DmRequest, DmWriting
<1>. QED BY <1>1, <1>2

LEMMA DmLostType == ASSUME NEW written PROVE DmLost(written) \in [DmProjects -> SUBSET DmIds]
BY DEF DmLost, DmChanged

LEMMA DmCommitted ==
  ASSUME DmTyped, NEW open, NEW written, DmCommit(open, written), DmNumbered(open), dmRows' \in DmSession
  PROVE  /\ DmTyped'
         /\ dmOpen' = {DmMark(q, DmLost(written)): q \in open}
         /\ dmAside' = [p \in DmProjects |-> dmAside[p] \cup DmLost(written)[p]]
         /\ UNCHANGED <<dmFile, dmLeft, dmUnseen, dmMissed>>
         /\ \A r \in dmOpen': r.op # "write" => r \in open
         /\ \A r \in open: r.op # "write" => r \in dmOpen'
<1>. DEFINE lost == DmLost(written)
<1>1. lost \in [DmProjects -> SUBSET DmIds]
  BY DmLostType
<1>2. /\ dmOpen' = {DmMark(q, lost): q \in open}
      /\ dmAside' = [p \in DmProjects |-> dmAside[p] \cup lost[p]]
      /\ UNCHANGED <<dmFile, dmLeft, dmUnseen, dmMissed>>
  BY DEF DmCommit, DmLost, DmMark
<1>3. \A r \in dmOpen': r.op # "write" => r \in open
  BY <1>1, <1>2, DmMarkShape DEF DmNumbered
<1>4. \A r \in open: r.op # "write" => r \in dmOpen'
  BY <1>1, <1>2, DmMarkShape DEF DmNumbered
<1>5. DmNumbered(dmOpen)'
  BY <1>1, <1>2, DmMarkShape DEF DmNumbered
<1>6. dmAside' \in [DmProjects -> SUBSET DmIds]
  BY <1>1, <1>2 DEF DmTyped
<1>. QED BY <1>2, <1>3, <1>4, <1>5, <1>6 DEF DmTyped

(* A request commits rows, and ends or goes on to the file of its project.   *)
DmCommits(q) ==
  /\ dmRows' \in DmSession /\ q.op \notin {"rewrite", "write"}
  /\ DmCommitAndEnd(q) \/ \E loaded \in DmSession: DmCommitAndRewrite(q, loaded)

LEMMA DmCommitsAs ==
  ASSUME DmTyped, NEW q \in dmOpen, DmCommits(q)
  PROVE  \E open, written:
           /\ DmCommit(open, written) /\ DmNumbered(open)
           /\ \/ open = dmOpen \ {q} /\ written = {}
              \/ \E r \in DmRequest: /\ r.op = "rewrite" /\ r.project = q.project
                                     /\ open = (dmOpen \ {q}) \cup {r} /\ written = {q.project}
<1>1. q \in DmRequest /\ q.no \in Nat /\ q.project \in DmProjects
  BY DmShape DEF DmTyped, DmNumbered
<1>2. CASE DmCommitAndEnd(q)
  BY <1>2, DmEnded DEF DmCommitAndEnd
<1>3. ASSUME NEW loaded \in DmSession, DmCommitAndRewrite(q, loaded)
      PROVE  \E open, written:
               /\ DmCommit(open, written) /\ DmNumbered(open)
               /\ \E r \in DmRequest: /\ r.op = "rewrite" /\ r.project = q.project
                                      /\ open = (dmOpen \ {q}) \cup {r} /\ written = {q.project}
  <2>. DEFINE r == DmRewriting(q.no, q.project, loaded)
  <2>1. r \in DmRequest /\ r.op = "rewrite" /\ r.no = q.no /\ r.project = q.project
    BY <1>1, DmRewritingType
  <2>2. DmCommit((dmOpen \ {q}) \cup {r}, {q.project})
    BY <1>3 DEF DmCommitAndRewrite
  <2>. HIDE DEF r
  <2>3. DmNumbered((dmOpen \ {q}) \cup {r})
    BY <2>1, DmReplaced
  <2>. QED BY <2>1, <2>2, <2>3
<1>. QED BY <1>2, <1>3 DEF DmCommits

LEMMA DmCommitsTyped ==
  ASSUME DmTyped, NEW q \in dmOpen, DmCommits(q)
  PROVE  /\ DmTyped' /\ UNCHANGED <<dmFile, dmLeft, dmUnseen, dmMissed>>
         /\ \A r \in dmOpen': r.op \notin {"write", "rewrite"} => r \in dmOpen \ {q}
<1>1. PICK open, written:
           /\ DmCommit(open, written) /\ DmNumbered(open)
           /\ \A r \in open: r.op # "rewrite" => r \in dmOpen \ {q}
  BY DmCommitsAs
<1>2. dmRows' \in DmSession
  BY DEF DmCommits
<1>. QED BY <1>1, <1>2, DmCommitted

LEMMA DmAddCommits == ASSUME DmTyped, NEW q \in dmOpen, DmAddCommit(q) PROVE DmCommits(q)
<1>. DEFINE new == [project |-> q.project, host |-> q.host, status |-> "pending", env |-> TRUE, proven |-> FALSE]
<1>1. q.op = "add" /\ q \in DmAdding
  BY DmShape DEF DmAddCommit, DmTyped, DmNumbered
<1>2. new \in DmRow
  BY <1>1 DEF DmAdding, DmRow, DmStatuses
<1>3. dmRows' = dmRows \/ \E id \in DmIds: dmRows' = [dmRows EXCEPT ![id] = new]
  BY DEF DmAddCommit
<1>. HIDE DEF new
<1>4. dmRows' \in DmSession
  BY <1>2, <1>3 DEF DmTyped, DmSession
<1>. QED BY <1>1, <1>4 DEF DmCommits, DmAddCommit

LEMMA DmEditCommits ==
  ASSUME DmTyped, NEW q \in dmOpen, DmEditCommit(q)
  PROVE  DmCommits(q) /\ q \in DmForms /\ DmSeen(q) \in DmRow
<1>1. q.op = "edit" /\ q \in DmForms
  BY DmShape DEF DmEditCommit, DmTyped, DmNumbered
<1>2. q.id \in DmIds /\ DmSeen(q) \in DmRow /\ dmRows[q.id] \in DmRow /\ q.host \in DmHosts
  BY <1>1 DEF DmForms, DmSession, DmSeen, DmTyped
<1>3. \A other \in BOOLEAN: DmEdited(dmRows[q.id], q, other) \in DmRow
  BY <1>2 DEF DmEdited, DmRow, DmStatuses
<1>4. dmRows' \in DmSession
  BY <1>2, <1>3 DEF DmEditCommit, DmTyped, DmSession
<1>. QED BY <1>1, <1>2, <1>4 DEF DmCommits, DmEditCommit

LEMMA DmRemoveCommits == ASSUME DmTyped, NEW q \in dmOpen, DmRemoved(q) PROVE DmCommits(q)
<1>1. q.op = "remove" /\ q \in DmForms
  BY DmShape DEF DmRemoved, DmTyped, DmNumbered
<1>2. [DmNoRow EXCEPT !.status = "gone"] \in DmRow
  BY DmNoRowType DEF DmRow, DmStatuses
<1>3. dmRows' \in DmSession /\ q.loaded \in DmSession
  BY <1>1, <1>2 DEF DmRemoved, DmForms, DmTyped, DmSession
<1>. QED BY <1>1, <1>3 DEF DmCommits, DmRemoved

LEMMA DmDeleteCommits == ASSUME DmTyped, NEW q \in dmOpen, DmEnvironmentDeleted(q) PROVE DmCommits(q)
<1>. DEFINE loaded == [id \in DmIds |-> [q.loaded[id] EXCEPT !.env = FALSE]]
<1>1. q.op = "disable" /\ q \in DmDisabling
  BY DmShape DEF DmEnvironmentDeleted, DmTyped, DmNumbered
<1>2. \A id \in DmIds: q.loaded[id] \in DmRow /\ dmRows[id] \in DmRow
  BY <1>1 DEF DmDisabling, DmTyped, DmSession
<1>3. loaded \in DmSession
  BY <1>2 DEF DmSession, DmRow
<1>4. \A id \in DmIds: [dmRows[id] EXCEPT !.status = "disabled", !.env = FALSE] \in DmRow
  BY <1>2 DEF DmRow, DmStatuses
<1>5. dmRows' \in DmSession
  BY <1>2, <1>4 DEF DmEnvironmentDeleted, DmSession
<1>6. DmCommitAndRewrite(q, loaded)
  BY DEF DmEnvironmentDeleted
<1>. QED BY <1>1, <1>3, <1>5, <1>6 DEF DmCommits

LEMMA DmDisabledType ==
  ASSUME DmTyped, NEW q, NEW id \in DmIds
  PROVE  /\ DmDisabled(id, q) \in DmRow /\ DmDisabled(id, q).host = dmRows[id].host
         /\ DmDisabled(id, q).status # "disabled" => DmDisabled(id, q) = dmRows[id]
         /\ dmRows[id].status \in {"none", "gone"} => DmDisabled(id, q) = dmRows[id]
         /\ dmRows[id].status \notin {"none", "gone"} => DmDisabled(id, q).status \notin {"none", "gone"}
<1>1. dmRows[id] \in DmRow
  BY DEF DmTyped, DmSession
<1>. QED BY <1>1 DEF DmDisabled, DmRivals, DmRow, DmStatuses

LEMMA DmVerifyCommits ==
  ASSUME DmTyped, NEW q \in dmOpen, DmVerified(q)
  PROVE  /\ DmCommits(q) /\ q \in DmFlushed
         /\ \A id \in DmIds \ {q.id}: dmRows'[id] = DmDisabled(id, q)
         /\ dmRows'[q.id].status = "active" /\ dmRows'[q.id].host = dmRows[q.id].host
         /\ dmRows[q.id].host = q.host => dmRows'[q.id].proven
<1>. DEFINE shown == [dmRows[q.id] EXCEPT !.status = "active", !.proven = @ \/ dmRows[q.id].host = q.host]
<1>1. q.op = "flushed" /\ q \in DmFlushed
  BY DmShape DEF DmVerified, DmTyped, DmNumbered
<1>2. q.id \in DmIds /\ dmRows[q.id] \in DmRow /\ q.loaded \in DmSession
  BY <1>1 DEF DmFlushed, DmTyped, DmSession
<1>3. dmRows' = [id \in DmIds |-> IF id = q.id THEN shown ELSE DmDisabled(id, q)]
  BY DEF DmVerified
<1>4. /\ shown \in DmRow /\ shown.status = "active" /\ shown.host = dmRows[q.id].host
      /\ dmRows[q.id].host = q.host => shown.proven = TRUE
  BY <1>2 DEF DmRow, DmStatuses
<1>. HIDE DEF shown
<1>5. dmRows' \in DmSession
  BY <1>3, <1>4, DmDisabledType DEF DmSession
<1>6. DmCommits(q)
  BY <1>1, <1>2, <1>5 DEF DmCommits, DmVerified
<1>. QED BY <1>1, <1>2, <1>3, <1>4, <1>6

LEMMA DmRefuseCommits ==
  ASSUME DmTyped, NEW q \in dmOpen, DmRefused(q)
  PROVE  /\ DmCommits(q) /\ q \in DmForms
         /\ \A id \in DmIds: /\ dmRows'[id].host = dmRows[id].host
                             /\ \/ dmRows'[id] = dmRows[id]
                                \/ DmExists(id) /\ id = q.id /\ dmRows'[id].status = "failed"
<1>1. q.op = "verify" /\ q \in DmForms
  BY DmShape DEF DmRefused, DmTyped, DmNumbered
<1>2. q.id \in DmIds /\ dmRows[q.id] \in DmRow
  BY <1>1 DEF DmForms, DmTyped, DmSession
<1>3. dmRows' = dmRows \/ (DmExists(q.id) /\ dmRows' = [dmRows EXCEPT ![q.id].status = "failed"])
  BY DEF DmRefused
<1>4. [dmRows[q.id] EXCEPT !.status = "failed"] \in DmRow
  BY <1>2 DEF DmRow, DmStatuses
<1>5. dmRows' \in DmSession
  BY <1>2, <1>3, <1>4 DEF DmTyped, DmSession
<1>6. \A id \in DmIds: /\ dmRows'[id].host = dmRows[id].host
                       /\ \/ dmRows'[id] = dmRows[id]
                          \/ DmExists(id) /\ id = q.id /\ dmRows'[id].status = "failed"
  <2>1. ASSUME NEW id \in DmIds, dmRows' = [dmRows EXCEPT ![q.id].status = "failed"], DmExists(q.id)
        PROVE  /\ dmRows'[id].host = dmRows[id].host
               /\ dmRows'[id] = dmRows[id] \/ (id = q.id /\ dmRows'[id].status = "failed")
    BY <1>2, <2>1 DEF DmTyped, DmSession, DmRow
  <2>. QED BY <1>3, <2>1
<1>. QED BY <1>1, <1>5, <1>6 DEF DmCommits, DmRefused

LEMMA DmFlushTyped ==
  ASSUME DmTyped, NEW q \in dmOpen, DmFlush(q)
  PROVE  /\ DmTyped' /\ q \in DmForms /\ q.op = "verify" /\ UNCHANGED <<dmRows, dmUnseen>>
         /\ dmMissed => dmMissed'
         /\ \E r \in DmFlushed:
              /\ dmOpen' = (dmOpen \ {q}) \cup {r}
              /\ r.id = q.id /\ r.host = q.host /\ r.rivals = DmRivals(q)
<1>. DEFINE r == [no |-> q.no, op |-> "flushed", project |-> q.project, id |-> q.id,
                  host |-> q.host, loaded |-> q.loaded, rivals |-> DmRivals(q)]
<1>1. q.op = "verify" /\ q \in DmForms
  BY DmShape DEF DmFlush, DmTyped, DmNumbered
<1>2. dmOpen' = (dmOpen \ {q}) \cup {r} /\ UNCHANGED <<dmRows, dmFile, dmLeft, dmUnseen, dmAside>>
  BY DEF DmFlush
<1>3. dmMissed' \in BOOLEAN /\ (dmMissed => dmMissed')
  BY DEF DmFlush
<1>4. DmRivals(q) \in SUBSET DmIds
  BY DEF DmRivals
<1>5. r \in DmFlushed /\ r.no = q.no /\ r.id = q.id /\ r.host = q.host /\ r.rivals = DmRivals(q)
  BY <1>1, <1>4 DEF DmForms, DmFlushed
<1>. HIDE DEF r
<1>6. DmNumbered(dmOpen')
  BY <1>2, <1>5, DmReplaced DEF DmRequest
<1>7. DmTyped'
  BY <1>2, <1>3, <1>6 DEF DmTyped, DmNumbered
<1>. QED BY <1>1, <1>2, <1>3, <1>5, <1>7

LEMMA DmKnownType == ASSUME DmTyped, NEW q \in DmRewriters, NEW id \in DmIds PROVE DmKnown(q, id).host \in DmHosts
<1>1. q.loaded[id] \in DmRow /\ dmRows[id] \in DmRow
  BY DEF DmTyped, DmRewriters, DmSession
<1>. QED BY <1>1 DEF DmKnown, DmRow

(* What a query finds agrees with the table off the rows it sets aside.      *)
LEMMA DmQueryTyped ==
  ASSUME DmTyped, NEW q \in dmOpen, DmQuery(q)
  PROVE  /\ DmTyped' /\ q \in DmRewriters /\ UNCHANGED <<dmRows, dmFile, dmUnseen, dmMissed, dmAside>>
         /\ \E r \in DmWriting:
              /\ dmOpen' = (dmOpen \ {q}) \cup {r} /\ r.project = q.project
              /\ \A id \in DmIds \ r.aside: r.content[id] = DmRoute(q.project, id)
<1>1. q.op = "rewrite" /\ q \in DmRewriters
  BY DmShape DEF DmQuery, DmTyped, DmNumbered
<1>. DEFINE active == DmActiveOf(q.project)
            stale == {id \in active: DmKnown(q, id).host # dmRows[id].host}
            new(skipped) == [no |-> q.no, op |-> "write", project |-> q.project,
                             content |-> DmContent(q, active \ skipped), aside |-> skipped \cup stale]
<1>2. PICK skipped \in SUBSET active: dmOpen' = (dmOpen \ {q}) \cup {new(skipped)}
  BY DEF DmQuery
<1>3. UNCHANGED <<dmRows, dmFile, dmLeft, dmUnseen, dmMissed, dmAside>>
  BY DEF DmQuery
<1>. DEFINE r == new(skipped)
<1>4. active \in SUBSET DmIds
  BY DEF DmActiveOf
<1>5. r.content \in [DmIds -> DmHosts \cup {""}]
  BY <1>1, DmKnownType DEF DmContent
<1>6. r \in DmWriting /\ r.no = q.no /\ r.project = q.project
  BY <1>1, <1>4, <1>5 DEF DmWriting, DmRewriters
<1>7. \A id \in DmIds \ r.aside: r.content[id] = DmRoute(q.project, id)
  BY DEF DmContent, DmRoute
<1>8. dmOpen' = (dmOpen \ {q}) \cup {r}
  BY <1>2
<1>. HIDE DEF new
<1>9. DmNumbered(dmOpen')
  BY <1>6, <1>8, DmReplaced DEF DmRequest
<1>10. DmTyped'
  BY <1>3, <1>9 DEF DmTyped, DmNumbered
<1>. QED BY <1>1, <1>3, <1>6, <1>7, <1>8, <1>10

LEMMA DmWriteTyped ==
  ASSUME DmTyped, NEW q \in dmOpen, DmWrite(q)
  PROVE  /\ DmTyped' /\ q \in DmWriting /\ q.op = "write"
         /\ UNCHANGED <<dmRows, dmUnseen, dmMissed>>
         /\ \A r \in dmOpen': \/ r \in dmOpen \ {q} /\ ~(r.op = "write" /\ r.project = q.project)
                              \/ r.op = "write" /\ r.project = q.project /\ r.aside = DmIds
         /\ \A r \in dmOpen \ {q}: IF r.op = "write" /\ r.project = q.project
                                   THEN \E s \in dmOpen': s.op = "write" /\ s.project = q.project
                                   ELSE r \in dmOpen'
<1>1. q.op = "write" /\ q \in DmWriting
  BY DmShape DEF DmWrite, DmTyped, DmNumbered
<1>. DEFINE Late(r) == IF r.op = "write" /\ r.project = q.project THEN [r EXCEPT !.aside = DmIds] ELSE r
<1>2. dmOpen' = {Late(r): r \in dmOpen \ {q}} /\ UNCHANGED <<dmRows, dmLeft, dmUnseen, dmMissed>>
  BY DEF DmWrite
<1>3. ASSUME NEW r \in dmOpen
      PROVE  /\ Late(r) \in DmRequest /\ Late(r).no = r.no
             /\ r.op = "write" /\ r.project = q.project =>
                  Late(r).op = "write" /\ Late(r).project = q.project /\ Late(r).aside = DmIds
             /\ ~(r.op = "write" /\ r.project = q.project) => Late(r) = r
  <2>1. r \in DmRequest
    BY DEF DmTyped, DmNumbered
  <2>2. CASE r.op = "write" /\ r.project = q.project
    <3>1. r \in DmWriting
      BY <2>1, <2>2, DmShape
    <3>. QED BY <2>2, <3>1 DEF DmWriting, DmRequest
  <2>3. CASE ~(r.op = "write" /\ r.project = q.project)
    BY <2>1, <2>3
  <2>. QED BY <2>2, <2>3
<1>. HIDE DEF Late
<1>4. DmNumbered(dmOpen)'
  <2>1. \A r \in dmOpen: dmLeft < r.no
    BY DEF DmTyped, DmNumbered
  <2>2. \A r, s \in dmOpen: r.no = s.no => r = s
    BY DEF DmTyped, DmNumbered
  <2>. QED BY <1>2, <1>3, <2>1, <2>2 DEF DmNumbered
<1>5. dmFile' \in [DmProjects -> [DmIds -> DmHosts \cup {""}]] /\ dmAside' \in [DmProjects -> SUBSET DmIds]
  <2>1. q.project \in DmProjects /\ q.content \in [DmIds -> DmHosts \cup {""}] /\ q.aside \in SUBSET DmIds
    BY <1>1 DEF DmWriting
  <2>2. CASE dmFile' = [dmFile EXCEPT ![q.project] = q.content] /\ dmAside' = [dmAside EXCEPT ![q.project] = q.aside]
    BY <2>1, <2>2 DEF DmTyped
  <2>3. CASE dmAside' = [dmAside EXCEPT ![q.project] = DmIds] /\ UNCHANGED dmFile
    BY <2>3 DEF DmTyped
  <2>. QED BY <2>2, <2>3 DEF DmWrite
<1>6. DmTyped'
  BY <1>2, <1>4, <1>5 DEF DmTyped
<1>. QED BY <1>1, <1>2, <1>3, <1>6

LEMMA DmEndTyped == ASSUME DmTyped, NEW q \in dmOpen, DmEnd(q) PROVE DmTyped'
<1>1. dmOpen' = dmOpen \ {q} /\ UNCHANGED <<dmRows, dmFile, dmLeft, dmUnseen, dmMissed, dmAside>>
  BY DEF DmEnd
<1>. QED BY <1>1, DmEnded DEF DmTyped, DmNumbered

(* The operations that add a request, and which one.                         *)
DmBegins == \E q \in DmRequest:
  /\ DmBegin(q) /\ q.no = dmLeft /\ q.op \notin {"flushed", "write"} /\ dmUnseen' \in BOOLEAN
  /\ dmUnseen => dmUnseen'
  /\ q.op \in {"edit", "verify"} =>
       DmExists(q.id) /\ DmSeen(q) = dmRows[q.id] /\ q.id \in DmIds
  /\ q.op = "edit" /\ DmOverlaps(q.id, {"verify", "flushed"}) => dmUnseen'
  /\ q.op = "verify" => q.host = dmRows[q.id].host /\ (DmOverlaps(q.id, {"edit"}) => dmUnseen')

LEMMA DmAddBegins == ASSUME DmTyped, NEW p \in DmProjects, NEW h \in DmHosts, DmAdd(p, h) PROVE DmBegins
<1>. DEFINE q == [no |-> dmLeft, op |-> "add", project |-> p, host |-> h]
<1>1. q \in DmRequest /\ q.no = dmLeft /\ q.op = "add"
  BY DEF DmTyped, DmAdding, DmRequest
<1>2. DmBegin(q) /\ dmUnseen' = dmUnseen
  BY DEF DmAdd
<1>. HIDE DEF q
<1>. QED BY <1>1, <1>2 DEF DmBegins, DmTyped

LEMMA DmEditBegins == ASSUME DmTyped, NEW id \in DmIds, NEW h \in DmHosts, DmEdit(id, h) PROVE DmBegins
<1>. DEFINE q == DmForm("edit", id, h)
<1>1. /\ q \in DmRequest /\ q.no = dmLeft /\ q.op = "edit" /\ q.id = id
      /\ DmExists(id) => DmSeen(q) = dmRows[id]
  BY DmFormType
<1>2. DmBegin(q) /\ DmExists(id) /\ dmUnseen' = (dmUnseen \/ DmOverlaps(id, {"verify", "flushed"}))
  BY DEF DmEdit
<1>. HIDE DEF q
<1>3. dmUnseen' \in BOOLEAN
  BY <1>2 DEF DmOverlaps
<1>. QED BY <1>1, <1>2, <1>3 DEF DmBegins

LEMMA DmVerifyBegins == ASSUME DmTyped, NEW id \in DmIds, DmVerify(id) PROVE DmBegins
<1>. DEFINE q == DmForm("verify", id, dmRows[id].host)
<1>0. dmRows[id].host \in DmHosts
  BY DEF DmTyped, DmSession, DmRow
<1>1. /\ q \in DmRequest /\ q.no = dmLeft /\ q.op = "verify" /\ q.id = id /\ q.host = dmRows[id].host
      /\ DmExists(id) => DmSeen(q) = dmRows[id]
  BY <1>0, DmFormType
<1>2. DmBegin(q) /\ DmExists(id) /\ dmUnseen' = (dmUnseen \/ DmOverlaps(id, {"edit"}))
  BY DEF DmVerify
<1>. HIDE DEF q
<1>3. dmUnseen' \in BOOLEAN
  BY <1>2 DEF DmOverlaps
<1>. QED BY <1>1, <1>2, <1>3 DEF DmBegins

LEMMA DmRemoveBegins == ASSUME DmTyped, NEW id \in DmIds, DmRemove(id) PROVE DmBegins
<1>. DEFINE q == DmForm("remove", id, dmRows[id].host)
<1>0. dmRows[id].host \in DmHosts
  BY DEF DmTyped, DmSession, DmRow
<1>1. q \in DmRequest /\ q.no = dmLeft /\ q.op = "remove"
  BY <1>0, DmFormType
<1>2. DmBegin(q) /\ dmUnseen' = dmUnseen
  BY DEF DmRemove
<1>. HIDE DEF q
<1>. QED BY <1>1, <1>2 DEF DmBegins, DmTyped

LEMMA DmDeleteBegins == ASSUME DmTyped, NEW p \in DmProjects, DmDeleteEnvironment(p) PROVE DmBegins
<1>. DEFINE q(ids) == [no |-> dmLeft, op |-> "disable", project |-> p, loaded |-> DmLoad(ids)]
<1>1. PICK ids: DmBegin(q(ids))
  BY DEF DmDeleteEnvironment
<1>2. DmLoad(ids) \in DmSession /\ dmLeft \in Nat
  BY DmLoadType DEF DmTyped
<1>3. q(ids) \in DmRequest /\ q(ids).no = dmLeft /\ q(ids).op = "disable"
  BY <1>2 DEF DmDisabling, DmRequest
<1>4. dmUnseen' = dmUnseen
  BY DEF DmDeleteEnvironment
<1>. HIDE DEF q
<1>. QED BY <1>1, <1>3, <1>4 DEF DmBegins, DmTyped

LEMMA DmDeployBegins == ASSUME DmTyped, NEW p \in DmProjects, DmDeployed(p) PROVE DmBegins
<1>. DEFINE q == DmRewriting(dmLeft, p, DmLoad({}))
<1>0. DmLoad({}) \in DmSession /\ dmLeft \in Nat
  BY DmLoadType DEF DmTyped
<1>1. q \in DmRequest /\ q.no = dmLeft /\ q.op = "rewrite"
  BY <1>0, DmRewritingType
<1>2. DmBegin(q) /\ dmUnseen' = dmUnseen
  BY DEF DmDeployed
<1>. HIDE DEF q
<1>. QED BY <1>1, <1>2 DEF DmBegins, DmTyped

(* Every step is of one of six kinds.                                        *)
LEMMA DmKinds ==
  ASSUME DmTyped, [DmNext]_dmVars
  PROVE  \/ DmBegins
         \/ \E q \in dmOpen: DmAddCommit(q) \/ DmEditCommit(q) \/ DmRemoved(q) \/ DmEnvironmentDeleted(q)
                             \/ DmVerified(q) \/ DmRefused(q)
         \/ \E q \in dmOpen: DmFlush(q)
         \/ \E q \in dmOpen: q.op \in {"verify", "flushed", "disable"} /\ DmEnd(q)
         \/ \E q \in dmOpen: DmQuery(q) \/ DmWrite(q)
         \/ UNCHANGED dmVars
<1>1. ASSUME NEW q \in dmOpen, DmDeadlocked(q) PROVE q.op \in {"flushed", "disable"} /\ DmEnd(q)
  BY <1>1 DEF DmDeadlocked
<1>2. ASSUME NEW q \in dmOpen, DmNotDeleted(q) \/ DmNotFlushed(q) PROVE q.op \in {"disable", "verify"} /\ DmEnd(q)
  BY <1>2 DEF DmNotDeleted, DmNotFlushed
<1>. QED BY <1>1, <1>2, DmAddBegins, DmEditBegins, DmVerifyBegins, DmRemoveBegins, DmDeleteBegins, DmDeployBegins DEF DmNext

LEMMA DmAllCommit ==
  ASSUME DmTyped, NEW q \in dmOpen,
         DmAddCommit(q) \/ DmEditCommit(q) \/ DmRemoved(q) \/ DmEnvironmentDeleted(q) \/ DmVerified(q) \/ DmRefused(q)
  PROVE  DmCommits(q)
BY DmAddCommits, DmEditCommits, DmRemoveCommits, DmDeleteCommits, DmVerifyCommits, DmRefuseCommits

LEMMA DmTypedStep == DmTyped /\ [DmNext]_dmVars => DmTyped'
<1>. SUFFICES ASSUME DmTyped, [DmNext]_dmVars PROVE DmTyped'
  OBVIOUS
<1>1. CASE DmBegins
  BY <1>1, DmBeginTyped DEF DmBegins
<1>2. ASSUME NEW q \in dmOpen, DmCommits(q) PROVE DmTyped'
  BY <1>2, DmCommitsTyped
<1>3. ASSUME NEW q \in dmOpen, DmFlush(q) \/ DmEnd(q) \/ DmQuery(q) \/ DmWrite(q) PROVE DmTyped'
  BY <1>3, DmFlushTyped, DmEndTyped, DmQueryTyped, DmWriteTyped
<1>4. CASE UNCHANGED dmVars
  BY <1>4 DEF dmVars, DmTyped, DmNumbered
<1>. QED BY <1>1, <1>2, <1>3, <1>4, DmKinds, DmAllCommit

LEMMA DmInitTyped == DmInit => DmTyped
<1>. SUFFICES ASSUME DmInit PROVE DmTyped
  OBVIOUS
<1>1. dmLeft \in Nat /\ dmOpen = {} /\ dmUnseen = FALSE /\ dmMissed = FALSE
  BY DmAssumption DEF DmInit
<1>2. dmRows \in DmSession
  BY DmNoRowType DEF DmInit, DmSession
<1>3. /\ dmFile \in [DmProjects -> [DmIds -> DmHosts \cup {""}]]
      /\ dmAside \in [DmProjects -> SUBSET DmIds]
  BY DEF DmInit
<1>. QED BY <1>1, <1>2, <1>3 DEF DmTyped, DmNumbered
-------------------------------------------------------------------------------
(* Domains: who has a hostname.                                              *)

DmActive(id) == dmRows[id].status = "active"
DmChecks == {q \in dmOpen: q.op \in {"verify", "flushed"}}
DmFlushes == {q \in dmOpen: q.op = "flushed"}

(* A request is about a row that was added, and a lock has one owner, whose  *)
(* row stays.                                                                *)
DmPlaced == \A q \in dmOpen: q.op \in {"edit", "verify", "flushed"} => dmRows[q.id].status # "none"
DmLocks == /\ \A q \in DmFlushes: DmExists(q.id)
           /\ \A q, r \in DmFlushes: q.id = r.id => q = r

(* While an edit is open nobody has verified its row since it was loaded.    *)
DmEditsSaw == \A q \in dmOpen: q.op = "edit" /\ DmActive(q.id) => DmSeen(q).status # "pending"

(* While a verification is open its row keeps the hostname it had then.      *)
DmChecksSaw == \A q \in DmChecks: DmExists(q.id) => dmRows[q.id].host = q.host

(* A row is edited or verified, not both at a time.                          *)
DmApart == \A q \in dmOpen: \A r \in DmChecks: q.op = "edit" => q.id # r.id

DmShown == \A id \in DmIds: DmActive(id) => dmRows[id].proven
DmSound == DmEditsSaw /\ DmChecksSaw /\ DmApart /\ DmShown

(* Of two flushed verifications of a hostname one waits for the other, and   *)
(* the UPDATE of each has found the rows that are active.                    *)
DmFound == \A q, r \in DmFlushes: q # r /\ q.host = r.host => q.id \in r.rivals \/ r.id \in q.rivals
DmFoundActive == \A q \in DmFlushes: \A j \in DmIds \ {q.id}: DmActive(j) /\ dmRows[j].host = q.host => j \in q.rivals
DmAlone == \A i, j \in DmIds: DmActive(i) /\ DmActive(j) /\ dmRows[i].host = dmRows[j].host => i = j

DmInv == /\ DmTyped /\ DmPlaced /\ DmLocks
         /\ ~dmUnseen => DmSound
         /\ ~dmMissed => DmFound
         /\ ~dmUnseen /\ ~dmMissed => DmFoundActive /\ DmAlone

LEMMA DmInitInv == DmInit => DmInv
<1>. SUFFICES ASSUME DmInit PROVE DmInv
  OBVIOUS
<1>1. dmOpen = {} /\ DmTyped
  BY DmInitTyped DEF DmInit
<1>2. \A id \in DmIds: ~DmActive(id)
  BY DmNoRowType DEF DmInit, DmActive
<1>. QED BY <1>1, <1>2 DEF DmInv, DmPlaced, DmLocks, DmSound, DmEditsSaw, DmChecksSaw, DmApart, DmAlone,
                           DmShown, DmFound, DmFoundActive, DmChecks, DmFlushes

LEMMA DmFormRow ==
  ASSUME DmTyped, NEW q \in dmOpen, q.op \in {"edit", "verify", "flushed", "remove"}
  PROVE  q.id \in DmIds
BY DmShape DEF DmTyped, DmNumbered, DmForms, DmFlushed

(* A request that is added, and leaves the rows alone.                       *)
LEMMA DmBeginInv == ASSUME DmInv, DmTyped', DmBegins PROVE DmInv'
<1>1. PICK q \in DmRequest:
           /\ DmBegin(q) /\ q.op # "flushed"
           /\ q.op \in {"edit", "verify"} => DmExists(q.id) /\ DmSeen(q) = dmRows[q.id] /\ q.id \in DmIds
           /\ q.op = "edit" /\ DmOverlaps(q.id, {"verify", "flushed"}) => dmUnseen'
           /\ q.op = "verify" => q.host = dmRows[q.id].host /\ (DmOverlaps(q.id, {"edit"}) => dmUnseen')
  BY DEF DmBegins
<1>2. dmOpen' = dmOpen \cup {q} /\ dmRows' = dmRows /\ dmMissed' = dmMissed
  BY <1>1 DEF DmBegin
<1>2a. dmUnseen => dmUnseen'
  BY <1>1 DEF DmBegins
<1>3. DmPlaced'
  BY <1>1, <1>2 DEF DmInv, DmPlaced, DmExists
<1>4. DmFlushes' = DmFlushes
  BY <1>1, <1>2 DEF DmFlushes
<1>5. DmLocks' /\ (~dmMissed' => DmFound')
  BY <1>2, <1>4 DEF DmInv, DmLocks, DmFound, DmExists
<1>6. ~dmUnseen' /\ ~dmMissed' => DmFoundActive' /\ DmAlone'
  BY <1>2, <1>2a, <1>4 DEF DmInv, DmFoundActive, DmAlone, DmActive
<1>7. ASSUME ~dmUnseen' PROVE DmSound'
  <2>1. DmSound
    BY <1>2a, <1>7 DEF DmInv
  <2>2. DmEditsSaw'
    BY <1>1, <1>2, <2>1 DEF DmSound, DmEditsSaw, DmActive
  <2>3. DmChecksSaw'
    BY <1>1, <1>2, <2>1 DEF DmSound, DmChecksSaw, DmChecks, DmExists
  <2>4. DmApart'
    BY <1>1, <1>2, <1>7, <2>1 DEF DmSound, DmApart, DmChecks, DmOverlaps
  <2>5. DmShown'
    BY <1>2, <2>1 DEF DmSound, DmShown, DmActive
  <2>. QED BY <2>2, <2>3, <2>4, <2>5 DEF DmSound
<1>. QED BY <1>3, <1>5, <1>6, <1>7 DEF DmInv

(* Requests that end or go on to a file, and rows of which none becomes      *)
(* active and none loses what an open request saw of it.                     *)
LEMMA DmMildInv ==
  ASSUME DmInv, DmTyped', dmUnseen' = dmUnseen, dmMissed' = dmMissed,
         \A q \in dmOpen': q.op \in {"edit", "verify", "flushed"} => q \in dmOpen,
         \A id \in DmIds: /\ dmRows[id].status # "none" => dmRows'[id].status # "none"
                          /\ ~dmUnseen /\ DmActive(id)' => DmActive(id) /\ dmRows'[id].host = dmRows[id].host
                                                           /\ dmRows'[id].proven = dmRows[id].proven,
         \A q \in dmOpen': q.op = "flushed" => DmExists(q.id)',
         \A q \in dmOpen': ~dmUnseen /\ q.op \in {"verify", "flushed"} /\ DmExists(q.id)' =>
                             DmExists(q.id) /\ dmRows'[q.id].host = dmRows[q.id].host
  PROVE  DmInv'
<1>1. DmPlaced'
  BY DmFormRow DEF DmInv, DmPlaced
<1>2. \A q \in DmFlushes': q \in DmFlushes
  BY DEF DmFlushes
<1>3. DmLocks'
  BY <1>2 DEF DmInv, DmLocks, DmFlushes
<1>4. ~dmMissed' => DmFound'
  BY <1>2 DEF DmInv, DmFound
<1>5. ~dmUnseen' /\ ~dmMissed' => DmFoundActive' /\ DmAlone'
  BY <1>2 DEF DmInv, DmFoundActive, DmAlone
<1>6. ASSUME ~dmUnseen' PROVE DmSound'
  <2>1. DmSound
    BY <1>6 DEF DmInv
  <2>2. DmEditsSaw'
    BY <1>6, <2>1, DmFormRow DEF DmSound, DmEditsSaw, DmInv
  <2>3. DmChecksSaw'
    BY <1>6, <2>1 DEF DmSound, DmChecksSaw, DmChecks
  <2>4. DmApart'
    BY <2>1 DEF DmSound, DmApart, DmChecks
  <2>5. DmShown'
    BY <1>6, <2>1 DEF DmSound, DmShown
  <2>. QED BY <2>2, <2>3, <2>4, <2>5 DEF DmSound
<1>. QED BY <1>1, <1>3, <1>4, <1>5, <1>6 DEF DmInv

(* A row without a lock is not the row of a flushed verification.            *)
LEMMA DmUnlocked ==
  ASSUME NEW q \in dmOpen, NEW id, ~DmLocked(id, q), NEW r \in dmOpen \ {q}, r.op = "flushed"
  PROVE  r.id # id
BY DEF DmLocked

LEMMA DmAddCommitInv == ASSUME DmInv, NEW q \in dmOpen, DmAddCommit(q) PROVE DmInv'
<1>. DEFINE new == [project |-> q.project, host |-> q.host, status |-> "pending", env |-> TRUE, proven |-> FALSE]
<1>1. /\ DmTyped' /\ UNCHANGED <<dmUnseen, dmMissed>>
      /\ \A r \in dmOpen': r.op \in {"edit", "verify", "flushed"} => r \in dmOpen
  BY DmAddCommits, DmCommitsTyped DEF DmInv
<1>2. new.status = "pending"
  OBVIOUS
<1>. HIDE DEF new
<1>3. \/ dmRows' = dmRows
      \/ \E id \in DmIds: dmRows[id].status = "none" /\ dmRows' = [dmRows EXCEPT ![id] = new]
  BY DEF DmAddCommit, new
<1>4. \A id \in DmIds: dmRows'[id] = dmRows[id] \/ (dmRows[id].status = "none" /\ dmRows'[id] = new)
  BY <1>3 DEF DmInv, DmTyped, DmSession
<1>5. ASSUME NEW r \in dmOpen', r.op \in {"verify", "flushed"} PROVE r \in dmOpen /\ dmRows'[r.id] = dmRows[r.id]
  <2>1. r \in dmOpen /\ r.id \in DmIds /\ dmRows[r.id].status # "none"
    BY <1>1, <1>5, DmFormRow DEF DmInv, DmPlaced
  <2>. QED BY <1>4, <2>1
<1>6. \A r \in dmOpen': r.op = "flushed" => DmExists(r.id)'
  BY <1>5 DEF DmInv, DmLocks, DmFlushes, DmExists
<1>7. \A r \in dmOpen': r.op \in {"verify", "flushed"} /\ DmExists(r.id)' =>
                          DmExists(r.id) /\ dmRows'[r.id].host = dmRows[r.id].host
  BY <1>5 DEF DmExists
<1>8. \A id \in DmIds: /\ dmRows[id].status # "none" => dmRows'[id].status # "none"
                       /\ DmActive(id)' => DmActive(id) /\ dmRows'[id].host = dmRows[id].host
                                           /\ dmRows'[id].proven = dmRows[id].proven
  BY <1>2, <1>4 DEF DmActive
<1>. QED BY <1>1, <1>6, <1>7, <1>8, DmMildInv

LEMMA DmEditCommitInv == ASSUME DmInv, NEW q \in dmOpen, DmEditCommit(q) PROVE DmInv'
<1>0. PICK other \in BOOLEAN:
        dmRows' = IF DmExists(q.id) THEN [dmRows EXCEPT ![q.id] = DmEdited(dmRows[q.id], q, other)] ELSE dmRows
  BY DEF DmEditCommit
<1>. DEFINE row == DmEdited(dmRows[q.id], q, other)
<1>1. /\ DmTyped' /\ UNCHANGED <<dmUnseen, dmMissed>>
      /\ \A r \in dmOpen': r.op \in {"edit", "verify", "flushed"} => r \in dmOpen \ {q}
  BY DmEditCommits, DmCommitsTyped DEF DmInv
<1>2. /\ q.op = "edit" /\ q.id \in DmIds /\ q.host \in DmHosts /\ dmRows[q.id] \in DmRow /\ DmSeen(q) \in DmRow
      /\ dmRows \in DmSession
  BY DmEditCommits DEF DmEditCommit, DmInv, DmTyped, DmForms, DmSession
<1>3. ~DmLocked(q.id, q) /\ dmRows' = IF DmExists(q.id) THEN [dmRows EXCEPT ![q.id] = row] ELSE dmRows
  BY <1>0 DEF DmEditCommit
<1>4. \A id \in DmIds: dmRows'[id] = IF id = q.id /\ DmExists(q.id) THEN row ELSE dmRows[id]
  BY <1>2, <1>3 DEF DmSession
<1>5. /\ DmExists(q.id) => row.status \notin {"none", "gone"}
      /\ row.status = "active" => DmActive(q.id)
  BY <1>2 DEF DmEdited, DmRow, DmExists, DmActive
<1>6. ASSUME ~dmUnseen, row.status = "active"
      PROVE  row.host = dmRows[q.id].host /\ row.proven = dmRows[q.id].proven
  <2>1. DmSeen(q).status # "pending"
    BY <1>2, <1>5, <1>6 DEF DmInv, DmSound, DmEditsSaw
  <2>2. q.host = DmSeen(q).host
    BY <1>2, <1>6, <2>1 DEF DmEdited, DmRow
  <2>3. dmRows[q.id].proven \in BOOLEAN
    BY <1>2 DEF DmRow
  <2>. QED BY <1>2, <2>2, <2>3 DEF DmEdited, DmRow
<1>. HIDE DEF row
<1>7. ASSUME NEW r \in dmOpen', r.op = "flushed" PROVE DmExists(r.id)'
  <2>1. r \in dmOpen \ {q} /\ r.id \in DmIds /\ DmExists(r.id)
    BY <1>1, <1>7, DmFormRow DEF DmInv, DmLocks, DmFlushes
  <2>2. r.id # q.id
    BY <1>3, <1>7, <2>1, DmUnlocked
  <2>. QED BY <1>4, <2>1, <2>2 DEF DmExists
<1>8. ASSUME NEW r \in dmOpen', ~dmUnseen, r.op \in {"verify", "flushed"}, DmExists(r.id)'
      PROVE  DmExists(r.id) /\ dmRows'[r.id].host = dmRows[r.id].host
  <2>1. r \in dmOpen /\ r.id \in DmIds /\ r \in DmChecks
    BY <1>1, <1>8, DmFormRow DEF DmInv, DmChecks
  <2>2. r.id # q.id
    BY <1>2, <1>8, <2>1 DEF DmInv, DmSound, DmApart
  <2>. QED BY <1>4, <1>8, <2>1, <2>2 DEF DmExists
<1>9. \A id \in DmIds: /\ dmRows[id].status # "none" => dmRows'[id].status # "none"
                       /\ ~dmUnseen /\ DmActive(id)' => DmActive(id) /\ dmRows'[id].host = dmRows[id].host
                                                        /\ dmRows'[id].proven = dmRows[id].proven
  BY <1>4, <1>5, <1>6 DEF DmActive
<1>. QED BY <1>1, <1>7, <1>8, <1>9, DmMildInv

LEMMA DmRemovedInv == ASSUME DmInv, NEW q \in dmOpen, DmRemoved(q) PROVE DmInv'
<1>. DEFINE gone == [DmNoRow EXCEPT !.status = "gone"]
<1>1. /\ DmTyped' /\ UNCHANGED <<dmUnseen, dmMissed>>
      /\ \A r \in dmOpen': r.op \in {"edit", "verify", "flushed"} => r \in dmOpen \ {q}
  BY DmRemoveCommits, DmCommitsTyped DEF DmInv
<1>2. gone.status = "gone"
  BY DmNoRowType DEF DmRow
<1>3. ~DmLocked(q.id, q) /\ dmRows' = [dmRows EXCEPT ![q.id] = gone] /\ dmRows \in DmSession
  BY DEF DmRemoved, DmInv, DmTyped
<1>. HIDE DEF gone
<1>4. \A id \in DmIds: dmRows'[id] = IF id = q.id THEN gone ELSE dmRows[id]
  BY <1>3 DEF DmSession
<1>5. ASSUME NEW r \in dmOpen', r.op = "flushed" PROVE DmExists(r.id)'
  <2>1. r \in dmOpen \ {q} /\ r.id \in DmIds /\ DmExists(r.id)
    BY <1>1, <1>5, DmFormRow DEF DmInv, DmLocks, DmFlushes
  <2>2. r.id # q.id
    BY <1>3, <1>5, <2>1, DmUnlocked
  <2>. QED BY <1>4, <2>1, <2>2 DEF DmExists
<1>6. ASSUME NEW r \in dmOpen', r.op \in {"verify", "flushed"}, DmExists(r.id)'
      PROVE  DmExists(r.id) /\ dmRows'[r.id].host = dmRows[r.id].host
  <2>1. r.id \in DmIds
    BY <1>1, <1>6, DmFormRow DEF DmInv
  <2>. QED BY <1>2, <1>4, <1>6, <2>1 DEF DmExists
<1>7. \A id \in DmIds: /\ dmRows[id].status # "none" => dmRows'[id].status # "none"
                       /\ DmActive(id)' => DmActive(id) /\ dmRows'[id].host = dmRows[id].host
                                           /\ dmRows'[id].proven = dmRows[id].proven
  BY <1>2, <1>4 DEF DmActive
<1>. QED BY <1>1, <1>5, <1>6, <1>7, DmMildInv

(* Rows that change their status alone, to one that is not active.           *)
LEMMA DmStatusInv ==
  ASSUME DmInv, NEW q \in dmOpen, DmCommits(q),
         \A id \in DmIds: /\ dmRows'[id].host = dmRows[id].host
                          /\ \/ dmRows'[id] = dmRows[id]
                             \/ DmExists(id) /\ dmRows'[id].status \in {"disabled", "failed"}
  PROVE  DmInv'
<1>1. /\ DmTyped' /\ UNCHANGED <<dmUnseen, dmMissed>>
      /\ \A r \in dmOpen': r.op \in {"edit", "verify", "flushed"} => r \in dmOpen
  BY DmCommitsTyped DEF DmInv
<1>2. \A id \in DmIds: DmExists(id)' <=> DmExists(id)
  BY DEF DmExists
<1>3. ASSUME NEW r \in dmOpen', r.op \in {"verify", "flushed"} PROVE r \in dmOpen /\ r.id \in DmIds
  BY <1>1, <1>3, DmFormRow DEF DmInv
<1>4. \A r \in dmOpen': r.op = "flushed" => DmExists(r.id)'
  BY <1>2, <1>3 DEF DmInv, DmLocks, DmFlushes
<1>5. \A r \in dmOpen': r.op \in {"verify", "flushed"} /\ DmExists(r.id)' =>
                          DmExists(r.id) /\ dmRows'[r.id].host = dmRows[r.id].host
  BY <1>2, <1>3
<1>6. \A id \in DmIds: /\ dmRows[id].status # "none" => dmRows'[id].status # "none"
                       /\ DmActive(id)' => DmActive(id) /\ dmRows'[id].host = dmRows[id].host
                                           /\ dmRows'[id].proven = dmRows[id].proven
  BY DEF DmActive
<1>. QED BY <1>1, <1>4, <1>5, <1>6, DmMildInv

LEMMA DmEnvironmentDeletedInv == ASSUME DmInv, NEW q \in dmOpen, DmEnvironmentDeleted(q) PROVE DmInv'
<1>1. DmCommits(q)
  BY DmDeleteCommits DEF DmInv
<1>2. ASSUME NEW id \in DmIds
      PROVE  /\ dmRows'[id].host = dmRows[id].host
             /\ dmRows'[id] = dmRows[id] \/ (DmExists(id) /\ dmRows'[id].status \in {"disabled", "failed"})
  <2>1. dmRows[id] \in DmRow
    BY DEF DmInv, DmTyped, DmSession
  <2>2. \/ dmRows'[id] = dmRows[id]
        \/ DmExists(id) /\ dmRows'[id] = [dmRows[id] EXCEPT !.status = "disabled", !.env = FALSE]
    BY DEF DmEnvironmentDeleted
  <2>. QED BY <2>1, <2>2 DEF DmRow
<1>. QED BY <1>1, <1>2, DmStatusInv

LEMMA DmRefusedInv == ASSUME DmInv, NEW q \in dmOpen, DmRefused(q) PROVE DmInv'
BY DmRefuseCommits, DmStatusInv DEF DmInv

(* The row is locked; the UPDATE sees what is committed.                     *)
LEMMA DmFlushInv == ASSUME DmInv, NEW q \in dmOpen, DmFlush(q) PROVE DmInv'
<1>1. /\ DmTyped' /\ q \in DmForms /\ q.op = "verify" /\ UNCHANGED <<dmRows, dmUnseen>> /\ (dmMissed => dmMissed')
      /\ \E s \in DmFlushed: /\ dmOpen' = (dmOpen \ {q}) \cup {s}
                             /\ s.id = q.id /\ s.host = q.host /\ s.rivals = DmRivals(q)
  BY DmFlushTyped DEF DmInv
<1>2. PICK r \in DmFlushed: /\ dmOpen' = (dmOpen \ {q}) \cup {r}
                            /\ r.id = q.id /\ r.host = q.host /\ r.rivals = DmRivals(q)
  BY <1>1
<1>3. r.op = "flushed" /\ r.id \in DmIds
  BY DEF DmFlushed
<1>4. DmExists(q.id) /\ ~DmLocked(q.id, q)
  BY DEF DmFlush
<1>5. DmFlushes' = DmFlushes \cup {r}
  BY <1>1, <1>2, <1>3 DEF DmFlushes
<1>6. \A s \in DmFlushes: s \in dmOpen \ {q} /\ s.id # q.id
  BY <1>1, <1>4, DmUnlocked DEF DmFlushes
<1>7. DmPlaced'
  BY <1>1, <1>2, <1>4 DEF DmInv, DmPlaced, DmExists
<1>8. DmLocks'
  BY <1>1, <1>2, <1>4, <1>5, <1>6 DEF DmInv, DmLocks, DmExists
<1>9. ASSUME ~dmUnseen' PROVE DmSound'
  <2>1. DmSound
    BY <1>1, <1>9 DEF DmInv
  <2>2. DmEditsSaw'
    BY <1>1, <1>2, <1>3, <2>1 DEF DmSound, DmEditsSaw, DmActive
  <2>3. DmChecksSaw'
    BY <1>1, <1>2, <2>1 DEF DmSound, DmChecksSaw, DmChecks, DmExists
  <2>4. DmApart'
    BY <1>1, <1>2, <1>3, <2>1 DEF DmSound, DmApart, DmChecks
  <2>5. DmShown'
    BY <1>1, <2>1 DEF DmSound, DmShown, DmActive
  <2>. QED BY <2>2, <2>3, <2>4, <2>5 DEF DmSound
<1>10. ASSUME ~dmMissed' PROVE DmFound'
  <2>1. DmFound
    BY <1>1, <1>10 DEF DmInv
  <2>2. \A s \in DmFlushes: s.host = q.host => s.id \in DmRivals(q) \/ q.id \in s.rivals
    BY <1>10 DEF DmFlush, DmFlushes
  <2>. QED BY <1>2, <1>5, <2>1, <2>2 DEF DmFound
<1>11. ASSUME ~dmUnseen', ~dmMissed' PROVE DmFoundActive' /\ DmAlone'
  <2>1. DmFoundActive /\ DmAlone
    BY <1>1, <1>11 DEF DmInv
  <2>2. \A j \in DmIds \ {q.id}: DmActive(j) /\ dmRows[j].host = q.host => j \in DmRivals(q)
    BY DEF DmActive, DmRivals
  <2>3. DmFoundActive'
    BY <1>1, <1>2, <1>5, <2>1, <2>2 DEF DmFoundActive, DmActive
  <2>. QED BY <1>1, <2>1, <2>3 DEF DmAlone, DmActive
<1>. QED BY <1>1, <1>7, <1>8, <1>9, <1>10, <1>11 DEF DmInv

(* Verifying a row disables the other rows of its hostname that are active.  *)
LEMMA DmVerifiedInv == ASSUME DmInv, NEW q \in dmOpen, DmVerified(q) PROVE DmInv'
<1>1. /\ DmTyped' /\ UNCHANGED <<dmUnseen, dmMissed>> /\ DmTyped
      /\ \A r \in dmOpen': r.op \in {"edit", "verify", "flushed"} => r \in dmOpen \ {q}
  BY DmVerifyCommits, DmCommitsTyped DEF DmInv
<1>2. /\ q.op = "flushed" /\ q.id \in DmIds /\ DmExists(q.id)
      /\ \A id \in DmIds \ {q.id}: dmRows'[id] = DmDisabled(id, q)
      /\ dmRows'[q.id].status = "active" /\ dmRows'[q.id].host = dmRows[q.id].host
      /\ dmRows[q.id].host = q.host => dmRows'[q.id].proven
  BY DmVerifyCommits DEF DmInv, DmVerified, DmLocks, DmFlushes, DmFlushed
<1>3. \A id \in q.rivals: ~DmLocked(id, q)
  BY DEF DmVerified
<1>4. ASSUME NEW id \in DmIds
      PROVE  /\ dmRows'[id].host = dmRows[id].host
             /\ DmExists(id)' <=> DmExists(id)
             /\ dmRows[id].status # "none" => dmRows'[id].status # "none"
             /\ id # q.id /\ DmActive(id)' => DmActive(id) /\ dmRows'[id] = dmRows[id]
  BY <1>1, <1>2, DmDisabledType DEF DmExists, DmActive
<1>5. \A r \in dmOpen': r.op \in {"edit", "verify", "flushed"} => r \in dmOpen \ {q} /\ r.id \in DmIds
  BY <1>1, DmFormRow
<1>6. \A r \in DmFlushes': r \in DmFlushes /\ r \in dmOpen \ {q} /\ r.id \in DmIds /\ r.id # q.id
  BY <1>2, <1>5 DEF DmFlushes, DmInv, DmLocks
<1>7. DmPlaced'
  BY <1>4, <1>5 DEF DmInv, DmPlaced
<1>8. DmLocks'
  BY <1>4, <1>6 DEF DmInv, DmLocks
<1>9. ASSUME ~dmUnseen' PROVE DmSound' /\ dmRows[q.id].host = q.host
  <2>1. DmSound
    BY <1>1, <1>9 DEF DmInv
  <2>2. q \in DmChecks /\ dmRows[q.id].host = q.host
    BY <1>2, <2>1 DEF DmSound, DmChecksSaw, DmChecks
  <2>3. DmEditsSaw'
    <3>1. \A r \in dmOpen': r.op = "edit" => r \in dmOpen /\ r.id \in DmIds \ {q.id}
      BY <1>5, <2>1, <2>2 DEF DmSound, DmApart
    <3>. QED BY <1>4, <2>1, <3>1 DEF DmSound, DmEditsSaw
  <2>4. DmChecksSaw'
    <3>1. \A r \in DmChecks': r \in DmChecks /\ r.id \in DmIds
      BY <1>5 DEF DmChecks
    <3>. QED BY <1>4, <2>1, <3>1 DEF DmSound, DmChecksSaw
  <2>5. DmApart'
    BY <1>5, <2>1 DEF DmSound, DmApart, DmChecks
  <2>6. DmShown'
    BY <1>2, <1>4, <2>1, <2>2 DEF DmSound, DmShown, DmActive
  <2>. QED BY <2>2, <2>3, <2>4, <2>5, <2>6 DEF DmSound
<1>10. ~dmMissed' => DmFound'
  BY <1>1, <1>6 DEF DmInv, DmFound
<1>11. ASSUME ~dmUnseen', ~dmMissed' PROVE DmFoundActive' /\ DmAlone'
  <2>1. DmFoundActive /\ DmAlone /\ DmFound
    BY <1>1, <1>11 DEF DmInv
  <2>2. dmRows[q.id].host = q.host /\ q \in DmFlushes
    BY <1>2, <1>9, <1>11 DEF DmFlushes
  <2>3. ASSUME NEW j \in DmIds \ {q.id}, DmActive(j)' PROVE dmRows[j].host # q.host
    <3>1. DmActive(j) /\ dmRows'[j] = dmRows[j] /\ dmRows'[j] = DmDisabled(j, q)
      BY <1>2, <1>4, <2>3
    <3>2. dmRows[j] \in DmRow
      BY <1>1 DEF DmTyped, DmSession
    <3>3. j \notin q.rivals \cap DmRivals(q)
      BY <3>1, <3>2 DEF DmDisabled, DmActive, DmRow
    <3>4. dmRows[j].host = q.host => j \in DmRivals(q) /\ j \in q.rivals
      BY <2>1, <2>2, <3>1 DEF DmFoundActive, DmRivals, DmActive
    <3>. QED BY <3>3, <3>4
  <2>4. DmAlone'
    BY <1>2, <1>4, <2>1, <2>2, <2>3 DEF DmAlone
  <2>5. ASSUME NEW r \in DmFlushes', NEW j \in DmIds \ {r.id}, DmActive(j)', dmRows'[j].host = r.host
        PROVE  j \in r.rivals
    <3>1. r \in DmFlushes /\ r \in dmOpen \ {q} /\ r.op = "flushed" /\ r.id # q.id
      BY <1>6, <2>5 DEF DmFlushes
    <3>2. CASE j # q.id
      BY <1>4, <2>1, <2>5, <3>1, <3>2 DEF DmFoundActive
    <3>3. CASE j = q.id
      <4>1. r.host = q.host
        BY <1>2, <2>2, <2>5, <3>3
      <4>2. r.id \notin q.rivals
        BY <1>3, <3>1, DmUnlocked
      <4>. QED BY <2>1, <2>2, <3>1, <3>3, <4>1, <4>2 DEF DmFound
    <3>. QED BY <3>2, <3>3
  <2>6. DmFoundActive'
    BY <2>5 DEF DmFoundActive
  <2>. QED BY <2>4, <2>6
<1>. QED BY <1>1, <1>7, <1>8, <1>9, <1>10, <1>11 DEF DmInv

(* The rows stay, and no form or verification is new.                        *)
LEMMA DmOtherInv ==
  ASSUME DmInv, DmTyped', UNCHANGED <<dmRows, dmUnseen, dmMissed>>,
         \A q \in dmOpen': q.op \in {"edit", "verify", "flushed"} => q \in dmOpen
  PROVE  DmInv'
<1>1. \A q \in dmOpen': q.op = "flushed" => DmExists(q.id)'
  BY DEF DmInv, DmLocks, DmFlushes, DmExists
<1>2. \A q \in dmOpen': q.op \in {"verify", "flushed"} /\ DmExists(q.id)' => DmExists(q.id)
  BY DEF DmExists
<1>. QED BY <1>1, <1>2, DmMildInv DEF DmActive

LEMMA DmStepInv == DmInv /\ [DmNext]_dmVars => DmInv'
<1>. SUFFICES ASSUME DmInv, [DmNext]_dmVars PROVE DmInv'
  OBVIOUS
<1>1. DmTyped /\ DmTyped'
  BY DmTypedStep DEF DmInv
<1>2. CASE DmBegins
  BY <1>1, <1>2, DmBeginInv
<1>3. ASSUME NEW q \in dmOpen,
             DmAddCommit(q) \/ DmEditCommit(q) \/ DmRemoved(q) \/ DmEnvironmentDeleted(q) \/ DmVerified(q) \/ DmRefused(q)
      PROVE  DmInv'
  BY <1>3, DmAddCommitInv, DmEditCommitInv, DmRemovedInv, DmEnvironmentDeletedInv, DmVerifiedInv, DmRefusedInv
<1>4. ASSUME NEW q \in dmOpen, DmFlush(q) PROVE DmInv'
  BY <1>4, DmFlushInv
<1>5. ASSUME NEW q \in dmOpen, DmEnd(q) PROVE DmInv'
  BY <1>1, <1>5, DmOtherInv DEF DmEnd
<1>6. ASSUME NEW q \in dmOpen, DmQuery(q) PROVE DmInv'
  <2>1. PICK r \in DmWriting: dmOpen' = (dmOpen \ {q}) \cup {r}
    BY <1>1, <1>6, DmQueryTyped
  <2>2. r.op = "write" /\ UNCHANGED <<dmRows, dmUnseen, dmMissed>>
    BY <1>1, <1>6, DmQueryTyped DEF DmWriting
  <2>. QED BY <1>1, <2>1, <2>2, DmOtherInv
<1>7. ASSUME NEW q \in dmOpen, DmWrite(q) PROVE DmInv'
  <2>1. UNCHANGED <<dmRows, dmUnseen, dmMissed>> /\ \A r \in dmOpen': r \in dmOpen \/ r.op = "write"
    BY <1>1, <1>7, DmWriteTyped
  <2>. QED BY <1>1, <2>1, DmOtherInv
<1>8. CASE UNCHANGED dmVars
  BY <1>1, <1>8, DmOtherInv DEF dmVars
<1>. QED BY <1>1, <1>2, <1>3, <1>4, <1>5, <1>6, <1>7, <1>8, DmKinds

LEMMA DmInvariant == DmSpec => []DmInv
BY DmInitInv, DmStepInv, PTL DEF DmSpec

(* Of any number of rows and projects that claim a hostname, with any        *)
(* requests overlapping, one at most has it active, but for the overlaps     *)
(* that dmUnseen and dmMissed tell of.                                       *)
THEOREM DmOneActiveHolds == DmSpec => []DmOneActive
<1>1. DmInv => DmOneActive
  BY DEF DmInv, DmAlone, DmActive, DmOneActive
<1>. QED BY <1>1, DmInvariant, PTL

(* Nobody serves a hostname that was not seen to point to this server.       *)
THEOREM DmProvenHolds == DmSpec => []DmProven
<1>1. DmInv => DmProven
  BY DEF DmInv, DmSound, DmShown, DmActive, DmProven
<1>. QED BY <1>1, DmInvariant, PTL
-------------------------------------------------------------------------------
(* Domains: what a file serves. A file, or the content that is going to be   *)
(* written, is good when it agrees with the table off the rows set aside.    *)
DmGood(content, aside, p) == \A id \in DmIds \ aside: content[id] = DmRoute(p, id)
DmOwed(p) == \E q \in dmOpen: q.op = "rewrite" /\ q.project = p
DmWriters(p) == {q \in dmOpen: q.op = "write" /\ q.project = p}

(* Unless the file will be queried for again: without a writer it is good,   *)
(* and a single writer's content is. Of several the first makes the others   *)
(* late.                                                                     *)
DmSettledAt(p) ==
  \/ DmOwed(p)
  \/ /\ DmWriters(p) = {} => DmGood(dmFile[p], dmAside[p], p)
     /\ \A q \in DmWriters(p): (\A r \in DmWriters(p): r = q) => DmGood(q.content, q.aside, p)
DmSettled == \A p \in DmProjects: DmSettledAt(p)

LEMMA DmInitSettled == DmInit => DmSettled
<1>. SUFFICES ASSUME DmInit, NEW p \in DmProjects PROVE DmSettledAt(p)
  BY DEF DmSettled
<1>1. \A id \in DmIds: dmRows[id].status = "none" /\ dmFile[p][id] = ""
  BY DmNoRowType DEF DmInit
<1>2. DmGood(dmFile[p], dmAside[p], p)
  BY <1>1 DEF DmGood, DmRoute, DmActiveOf
<1>3. DmWriters(p) = {}
  BY DEF DmInit, DmWriters
<1>. QED BY <1>2, <1>3 DEF DmSettledAt

(* Rows and files stay, and no request to rewrite or write goes or comes but *)
(* one to rewrite.                                                           *)
LEMMA DmIdleSettled ==
  ASSUME DmSettled, UNCHANGED <<dmRows, dmFile, dmAside>>,
         \A q \in dmOpen: q.op \in {"rewrite", "write"} => q \in dmOpen',
         \A q \in dmOpen': q.op = "write" => q \in dmOpen
  PROVE  DmSettled'
<1>. SUFFICES ASSUME NEW p \in DmProjects PROVE DmSettledAt(p)'
  BY DEF DmSettled
<1>1. DmSettledAt(p)
  BY DEF DmSettled
<1>2. DmWriters(p)' = DmWriters(p) /\ (DmOwed(p) => DmOwed(p)')
  BY DEF DmWriters, DmOwed
<1>3. \A c, a: DmGood(c, a, p)' <=> DmGood(c, a, p)
  BY DEF DmGood, DmRoute, DmActiveOf
<1>. QED BY <1>1, <1>2, <1>3 DEF DmSettledAt

(* A commit sets aside what it changes in files nobody will write for it.    *)
LEMMA DmCommitsSettled ==
  ASSUME DmTyped, DmSettled, NEW q \in dmOpen, DmCommits(q)
  PROVE  DmSettled'
<1>1. PICK open, written:
           /\ DmCommit(open, written) /\ DmNumbered(open)
           /\ \/ open = dmOpen \ {q} /\ written = {}
              \/ \E r \in DmRequest: /\ r.op = "rewrite" /\ r.project = q.project
                                     /\ open = (dmOpen \ {q}) \cup {r} /\ written = {q.project}
  BY DmCommitsAs
<1>. DEFINE lost == DmLost(written)
<1>2. /\ dmOpen' = {DmMark(r, lost): r \in open}
      /\ dmAside' = [p \in DmProjects |-> dmAside[p] \cup lost[p]]
      /\ dmFile' = dmFile
      /\ \A r \in open: r.op # "write" => r \in dmOpen'
  BY <1>1, DmCommitted DEF DmCommits
<1>3. lost \in [DmProjects -> SUBSET DmIds]
  BY DmLostType
<1>4. q.op \notin {"rewrite", "write"}
  BY DEF DmCommits
<1>. SUFFICES ASSUME NEW p \in DmProjects PROVE DmSettledAt(p)'
  BY DEF DmSettled
<1>5. CASE p \in written
  <2>1. PICK r \in open: r.op = "rewrite" /\ r.project = p
    BY <1>1, <1>5
  <2>. QED BY <1>2, <2>1 DEF DmSettledAt, DmOwed
<1>6. CASE p \notin written
  <2>1. DmSettledAt(p) /\ lost[p] = DmChanged(p)
    BY <1>6 DEF DmSettled, DmLost
  <2>2. ASSUME NEW c, NEW a, DmGood(c, a, p) PROVE \A id \in DmIds \ (a \cup lost[p]): c[id] = DmRoute(p, id)'
    BY <2>1, <2>2 DEF DmGood, DmChanged
  <2>3. CASE DmOwed(p)
    <3>1. PICK r \in dmOpen: r.op = "rewrite" /\ r.project = p
      BY <2>3 DEF DmOwed
    <3>2. r \in open
      BY <1>1, <1>4, <3>1
    <3>. QED BY <1>2, <3>1, <3>2 DEF DmSettledAt, DmOwed
  <2>4. CASE ~DmOwed(p)
    <3>1. \A r \in open: r \in DmRequest
      BY <1>1 DEF DmNumbered
    <3>2. \A r \in DmWriters(p): r \in open /\ DmMark(r, lost) \in DmWriters(p)'
      <4>1. \A r \in DmWriters(p): r \in open
        BY <1>1, <1>4 DEF DmWriters
      <4>. QED BY <1>2, <1>3, <3>1, <4>1, DmMarkShape DEF DmWriters
    <3>3. \A s \in DmWriters(p)': \E r \in DmWriters(p): s = DmMark(r, lost)
      <4>1. ASSUME NEW s \in DmWriters(p)' PROVE \E r \in DmWriters(p): s = DmMark(r, lost)
        <5>1. PICK r \in open: s = DmMark(r, lost)
          BY <1>2, <4>1 DEF DmWriters
        <5>2. r.op = "write" /\ r.project = p
          BY <1>3, <3>1, <4>1, <5>1, DmMarkShape DEF DmWriters
        <5>3. r \in dmOpen
          BY <1>1, <5>2
        <5>. QED BY <5>1, <5>2, <5>3 DEF DmWriters
      <4>. QED BY <4>1
    <3>4. ASSUME DmWriters(p)' = {} PROVE DmGood(dmFile[p], dmAside[p], p)'
      <4>1. DmWriters(p) = {}
        BY <3>2, <3>4
      <4>2. dmFile'[p] = dmFile[p] /\ dmAside'[p] = dmAside[p] \cup lost[p]
        BY <1>2
      <4>3. DmGood(dmFile[p], dmAside[p], p)
        BY <2>1, <2>4, <4>1 DEF DmSettledAt
      <4>. QED BY <2>2, <4>2, <4>3 DEF DmGood
    <3>5. ASSUME NEW s \in DmWriters(p)', \A t \in DmWriters(p)': t = s PROVE DmGood(s.content, s.aside, p)'
      <4>1. PICK r \in DmWriters(p): s = DmMark(r, lost)
        BY <3>3, <3>5
      <4>2. \A t \in DmWriters(p): t = r
        <5>1. \A t \in DmWriters(p): DmMark(t, lost).no = t.no /\ t \in open
          BY <1>3, <3>1, <3>2, DmMarkShape
        <5>2. \A t \in DmWriters(p): t.no = r.no
          BY <3>2, <3>5, <4>1, <5>1
        <5>. QED BY <1>1, <5>1, <5>2 DEF DmNumbered
      <4>3. DmGood(r.content, r.aside, p)
        BY <2>1, <2>4, <4>2 DEF DmSettledAt
      <4>4. r \in open /\ r.op = "write" /\ r.project = p
        BY <3>2, <4>1 DEF DmWriters
      <4>5. s.content = r.content /\ s.aside = r.aside \cup lost[p]
        BY <1>3, <3>1, <4>1, <4>4, DmMarkShape
      <4>. QED BY <2>2, <4>3, <4>5 DEF DmGood
    <3>. QED BY <3>4, <3>5 DEF DmSettledAt
  <2>. QED BY <2>3, <2>4
<1>. QED BY <1>5, <1>6

LEMMA DmQuerySettled == ASSUME DmTyped, DmSettled, NEW q \in dmOpen, DmQuery(q) PROVE DmSettled'
<1>1. /\ q \in DmRewriters /\ UNCHANGED <<dmRows, dmFile, dmAside>>
      /\ \E s \in DmWriting: /\ dmOpen' = (dmOpen \ {q}) \cup {s} /\ s.project = q.project
                             /\ \A id \in DmIds \ s.aside: s.content[id] = DmRoute(q.project, id)
  BY DmQueryTyped
<1>2. PICK r \in DmWriting: /\ dmOpen' = (dmOpen \ {q}) \cup {r} /\ r.project = q.project
                            /\ \A id \in DmIds \ r.aside: r.content[id] = DmRoute(q.project, id)
  BY <1>1
<1>3. q.op = "rewrite" /\ r.op = "write"
  BY <1>1 DEF DmRewriters, DmWriting
<1>. SUFFICES ASSUME NEW p \in DmProjects PROVE DmSettledAt(p)'
  BY DEF DmSettled
<1>4. \A c, a: DmGood(c, a, p)' <=> DmGood(c, a, p)
  BY <1>1 DEF DmGood, DmRoute, DmActiveOf
<1>5. CASE p = q.project
  <2>1. DmGood(r.content, r.aside, p)'
    BY <1>2, <1>4, <1>5 DEF DmGood
  <2>2. r \in DmWriters(p)'
    BY <1>2, <1>3, <1>5 DEF DmWriters
  <2>. QED BY <2>1, <2>2 DEF DmSettledAt
<1>6. CASE p # q.project
  <2>1. DmWriters(p)' = DmWriters(p) /\ (DmOwed(p) => DmOwed(p)')
    BY <1>2, <1>3, <1>6 DEF DmWriters, DmOwed
  <2>2. DmSettledAt(p)
    BY DEF DmSettled
  <2>. QED BY <1>1, <1>4, <2>1, <2>2 DEF DmSettledAt
<1>. QED BY <1>5, <1>6

LEMMA DmWriteSettled == ASSUME DmTyped, DmSettled, NEW q \in dmOpen, DmWrite(q) PROVE DmSettled'
<1>1. /\ q \in DmWriting /\ q.op = "write" /\ dmRows' = dmRows
      /\ \A r \in dmOpen': \/ r \in dmOpen \ {q} /\ ~(r.op = "write" /\ r.project = q.project)
                           \/ r.op = "write" /\ r.project = q.project /\ r.aside = DmIds
      /\ \A r \in dmOpen \ {q}: IF r.op = "write" /\ r.project = q.project
                                THEN \E s \in dmOpen': s.op = "write" /\ s.project = q.project
                                ELSE r \in dmOpen'
  BY DmWriteTyped
<1>2. q.project \in DmProjects
  BY <1>1 DEF DmWriting
<1>3. \/ /\ dmFile' = [dmFile EXCEPT ![q.project] = q.content]
         /\ dmAside' = [dmAside EXCEPT ![q.project] = q.aside]
      \/ dmAside' = [dmAside EXCEPT ![q.project] = DmIds] /\ UNCHANGED dmFile
  BY DEF DmWrite
<1>. SUFFICES ASSUME NEW p \in DmProjects PROVE DmSettledAt(p)'
  BY DEF DmSettled
<1>4. \A c, a: DmGood(c, a, p)' <=> DmGood(c, a, p)
  BY <1>1 DEF DmGood, DmRoute, DmActiveOf
<1>5. DmSettledAt(p) /\ (DmOwed(p) => DmOwed(p)')
  BY <1>1 DEF DmSettled, DmOwed
<1>6. CASE p = q.project
  <2>1. \A r \in DmWriters(p)': DmGood(r.content, r.aside, p)'
    BY <1>1, <1>6 DEF DmWriters, DmGood
  <2>2. ASSUME ~DmOwed(p), DmWriters(p)' = {} PROVE DmGood(dmFile[p], dmAside[p], p)'
    <3>1. \A r \in DmWriters(p): r = q
      BY <1>1, <1>6, <2>2 DEF DmWriters
    <3>2. q \in DmWriters(p)
      BY <1>1, <1>6 DEF DmWriters
    <3>3. DmGood(q.content, q.aside, p)
      BY <1>5, <2>2, <3>1, <3>2 DEF DmSettledAt
    <3>4. \/ dmFile'[p] = q.content /\ dmAside'[p] = q.aside
          \/ dmAside'[p] = DmIds
      BY <1>2, <1>3, <1>6 DEF DmTyped
    <3>. QED BY <1>4, <3>3, <3>4 DEF DmGood
  <2>. QED BY <1>5, <2>1, <2>2 DEF DmSettledAt
<1>7. CASE p # q.project
  <2>1. DmWriters(p)' = DmWriters(p)
    BY <1>1, <1>7 DEF DmWriters
  <2>2. dmFile'[p] = dmFile[p] /\ dmAside'[p] = dmAside[p]
    BY <1>3, <1>7 DEF DmTyped
  <2>. QED BY <1>4, <1>5, <2>1, <2>2 DEF DmSettledAt
<1>. QED BY <1>6, <1>7

LEMMA DmSettledStep == DmTyped /\ DmSettled /\ [DmNext]_dmVars => DmSettled'
<1>. SUFFICES ASSUME DmTyped, DmSettled, [DmNext]_dmVars PROVE DmSettled'
  OBVIOUS
<1>1. CASE DmBegins
  <2>1. PICK q \in DmRequest: DmBegin(q) /\ q.op # "write"
    BY <1>1 DEF DmBegins
  <2>2. dmOpen' = dmOpen \cup {q} /\ UNCHANGED <<dmRows, dmFile, dmAside>>
    BY <2>1 DEF DmBegin
  <2>. QED BY <2>1, <2>2, DmIdleSettled
<1>2. ASSUME NEW q \in dmOpen,
             DmAddCommit(q) \/ DmEditCommit(q) \/ DmRemoved(q) \/ DmEnvironmentDeleted(q) \/ DmVerified(q) \/ DmRefused(q)
      PROVE  DmSettled'
  BY <1>2, DmAllCommit, DmCommitsSettled
<1>3. ASSUME NEW q \in dmOpen, DmFlush(q) PROVE DmSettled'
  <2>1. PICK r \in DmFlushed: dmOpen' = (dmOpen \ {q}) \cup {r}
    BY <1>3, DmFlushTyped
  <2>2. q.op = "verify" /\ r.op = "flushed" /\ UNCHANGED <<dmRows, dmFile, dmAside>>
    BY <1>3 DEF DmFlush, DmFlushed
  <2>. QED BY <2>1, <2>2, DmIdleSettled
<1>4. ASSUME NEW q \in dmOpen, q.op \in {"verify", "flushed", "disable"}, DmEnd(q) PROVE DmSettled'
  BY <1>4, DmIdleSettled DEF DmEnd
<1>5. ASSUME NEW q \in dmOpen, DmQuery(q) \/ DmWrite(q) PROVE DmSettled'
  BY <1>5, DmQuerySettled, DmWriteSettled
<1>6. CASE UNCHANGED dmVars
  BY <1>6, DmIdleSettled DEF dmVars
<1>. QED BY <1>1, <1>2, <1>3, <1>4, <1>5, <1>6, DmKinds

(* When nobody is about to rewrite the file of a project, it serves what the *)
(* table asks for, off the rows dmAside names, whatever requests of other    *)
(* processes did between a query and its write.                              *)
THEOREM DmServedHolds == DmSpec => []DmServed
<1>1. DmTyped /\ DmSettled => DmServed
  BY DEF DmSettled, DmSettledAt, DmOwed, DmWriters, DmGood, DmServed
<1>. QED BY <1>1, DmInitTyped, DmTypedStep, DmInitSettled, DmSettledStep, PTL DEF DmSpec
===============================================================================
