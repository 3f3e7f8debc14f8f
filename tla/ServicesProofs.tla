--------------------------- MODULE ServicesProofs ---------------------------
(* Theorems about the components beside the deployments, together: SvSpec    *)
(* implements the specification of each of them, so that what is proved of   *)
(* one holds of the composition, and every value has its type.               *)
EXTENDS MCServices, StorageProofs, AccountsProofs, ProjectsProofs, SecurityProofs

------------------------------------------------------------------------------
(* Environments, domains and projects.                                       *)
EnVar == [env: EnNames \cup {""}, for: 0..EnMaxEnvs]
EnBounded == /\ Len(enEnvs) <= EnMaxEnvs /\ enVars \subseteq EnVar
             /\ \A r \in enReqs: /\ r.op \in {"create", "rename", "delete", "save"}
                                 /\ Len(r.envs) <= EnMaxEnvs /\ r.vars \subseteq EnVar

LEMMA EnInitBounded == EnInit => EnBounded
<1>. SUFFICES ASSUME EnInit PROVE EnBounded
  OBVIOUS
<1>1. Len(enEnvs) = 1 /\ enVars = {} /\ enReqs = {}
  BY DEF EnInit
<1>2. 1 <= EnMaxEnvs
  <2>1. EnMaxEnvs \in Nat \ {0}
    BY EnAssumption
  <2>. QED BY <2>1
<1>. QED BY <1>1, <1>2 DEF EnBounded

LEMMA EnBeginBounded ==
  ASSUME EnBounded, NEW op \in {"create", "rename", "delete", "save"}, NEW envs, NEW vars \in SUBSET EnVar, NEW late,
         EnBegin(op, envs, vars, late), Len(envs) <= EnMaxEnvs
  PROVE  EnBounded'
BY DEF EnBegin, EnBounded

LEMMA EnBoundedStep ==
  ASSUME EnInv, EnBounded, [EnNext]_enVars_
  PROVE  EnBounded'
<1>0. /\ Len(enEnvs) \in Nat /\ DOMAIN enEnvs = 1..Len(enEnvs) /\ Len(enEnvs) <= EnMaxEnvs /\ EnMaxEnvs \in Nat
      /\ enEnvs \in Seq([slug: EnNames, on: BOOLEAN])
      /\ enEnvs \in [DOMAIN enEnvs -> [slug: EnNames, on: BOOLEAN]] /\ enVars \subseteq EnVar
  BY EnAssumption, EnListShape DEF EnInv, EnGoodList, EnLists, EnBounded
<1>1. ASSUME NEW s \in EnSlugs, EnCreate(s) PROVE EnBounded'
  <2>1. Len(Append(enEnvs, [slug |-> s, on |-> TRUE])) <= EnMaxEnvs
    BY <1>0, <1>1, AppendProperties DEF EnCreate, EnNames
  <2>. QED BY <1>1, <2>1, EnBeginBounded DEF EnCreate
<1>2. ASSUME NEW id, NEW s \in EnSlugs, EnRename(id, s) PROVE EnBounded'
  <2>1. EnCarried(id, s) \subseteq EnVar
    BY <1>0 DEF EnCarried, EnVar, EnNames
  <2>2. Len([enEnvs EXCEPT ![id].slug = s]) <= EnMaxEnvs
    BY <1>0
  <2>. QED BY <1>2, <2>1, <2>2, EnBeginBounded DEF EnRename
<1>3. ASSUME NEW id, EnDelete(id) PROVE EnBounded'
  <2>1. {v \in enVars: v.env # enEnvs[id].slug} \subseteq EnVar
    BY <1>0
  <2>2. Len([enEnvs EXCEPT ![id].on = FALSE]) <= EnMaxEnvs
    BY <1>0
  <2>. QED BY <1>3, <2>1, <2>2, EnBeginBounded DEF EnDelete
<1>4. ASSUME NEW i, NEW add \in BOOLEAN, EnSave(i, add) PROVE EnBounded'
  <2>. DEFINE slug == IF i = 0 THEN "" ELSE enEnvs[i].slug
              others == {v \in enVars: v.env # slug}
  <2>1. [env |-> slug, for |-> i] \in EnVar
    <3>1. i \in {0} \cup DOMAIN enEnvs
      BY <1>4 DEF EnSave
    <3>2. i \in DOMAIN enEnvs => i \in 0..EnMaxEnvs /\ enEnvs[i].slug \in EnNames
      BY <1>0
    <3>3. i \in 0..EnMaxEnvs
      BY <1>0, <3>1, <3>2
    <3>4. slug \in EnNames \cup {""}
      BY <3>1, <3>2
    <3>. HIDE DEF slug
    <3>. QED BY <3>3, <3>4 DEF EnVar
  <2>2. (IF add THEN others \cup {[env |-> slug, for |-> i]} ELSE others) \in SUBSET EnVar
    <3>1. others \in SUBSET EnVar
      BY <1>0
    <3>. HIDE DEF slug, others
    <3>. QED BY <2>1, <3>1
  <2>3. Len(<<>>) <= EnMaxEnvs
    BY <1>0
  <2>. QED BY <1>4, <2>2, <2>3, EnBeginBounded DEF EnSave
<1>5. ASSUME NEW r \in enReqs, EnCommit(r) PROVE EnBounded'
  BY <1>5 DEF EnCommit, EnBounded
<1>6. CASE UNCHANGED enVars_
  BY <1>6 DEF EnBounded, enVars_
<1>. QED BY <1>1, <1>2, <1>3, <1>4, <1>5, <1>6 DEF EnNext

LEMMA EnTypesKept == EnSpec => []EnTypeOK
<1>1. EnInv /\ EnBounded => EnTypeOK
  <2>. SUFFICES ASSUME EnInv, EnBounded PROVE EnTypeOK
    OBVIOUS
  <2>1. \A i \in DOMAIN enEnvs: enEnvs[i] \in [slug: EnSlugs \cup {"production"}, on: BOOLEAN]
    BY EnListShape DEF EnInv, EnNames
  <2>2. \A v \in enVars: v \in [env: EnSlugs \cup {"production", ""}, for: 0..EnMaxEnvs]
    BY DEF EnBounded, EnVar, EnNames
  <2>. QED BY <2>1, <2>2 DEF EnTypeOK, EnBounded
<1>. QED BY <1>1, EnInvariant, EnInitBounded, EnBoundedStep, PTL DEF EnSpec

LEMMA DmTypesKept == DmSpec => []DmTypeOK
<1>1. DmTyped => DmTypeOK
  <2>. SUFFICES ASSUME DmTyped PROVE DmTypeOK
    OBVIOUS
  <2>1. \A q \in dmOpen: q \in DmRequest
    BY DEF DmTyped, DmNumbered
  <2>. QED BY <2>1, DmShape DEF DmTyped, DmSession, DmRow, DmTypeOK
<1>. QED BY <1>1, DmInitTyped, DmTypedStep, PTL DEF DmSpec

\* No deployment loses its number, and the batch of a deletion is of them.
PdNumbered == pdJob.pc \in {"idle", "batches", "rows", "final"} /\ pdJob.batch \subseteq PdMade
LEMMA PdMadeStay ==
  ASSUME PdTypes, [PdNext]_pdVars
  PROVE  PdMade \subseteq PdMade'
<1>1. pdRows \in Seq(PdRow)
  BY DEF PdTypes
<1>2. \A new: DOMAIN pdRows \subseteq DOMAIN Append(pdRows, new)
  BY <1>1
<1>3. CASE UNCHANGED pdRows
  BY <1>3 DEF PdMade
<1>4. CASE \E new: pdRows' = Append(pdRows, new)
  BY <1>2, <1>4 DEF PdMade
<1>5. CASE DOMAIN pdRows' = DOMAIN pdRows
  BY <1>5 DEF PdMade
<1>6. \/ UNCHANGED pdRows \/ \E new: pdRows' = Append(pdRows, new)
      \/ DOMAIN pdRows' = DOMAIN pdRows
  <2>1. ASSUME NEW r, PdDeployCommit(r) PROVE UNCHANGED pdRows \/ \E new: pdRows' = Append(pdRows, new)
    BY <2>1 DEF PdDeployCommit, PdRowMade
  <2>2. ASSUME NEW p, PdPushTo(p) PROVE UNCHANGED pdRows \/ \E new: pdRows' = Append(pdRows, new)
    BY <2>2 DEF PdPushTo, PdRowMade
  <2>3. ASSUME NEW d, PdStartStep(d) \/ PdFinalize(d) PROVE UNCHANGED pdRows \/ DOMAIN pdRows' = DOMAIN pdRows
    BY <2>3 DEF PdStartStep, PdStart, PdStarted, PdFinalize
  <2>4. PdDeleteRows => UNCHANGED pdRows \/ DOMAIN pdRows' = DOMAIN pdRows
    BY DEF PdDeleteRows, PdMade
  <2>5. ASSUME NEW p, PdCreate(p) \/ PdDeploy(p) \/ PdDelete(p) \/ PdLoad(p) PROVE UNCHANGED pdRows
    BY <2>5 DEF PdCreate, PdDeploy, PdDelete, PdLoad, pdTables
  <2>6. ASSUME NEW r, PdDeployEnqueue(r) PROVE UNCHANGED pdRows
    BY <2>6 DEF PdDeployEnqueue, pdTables
  <2>7. PdPush \/ PdSelect \/ PdLast \/ PdFinal \/ PdCrash \/ UNCHANGED pdVars => UNCHANGED pdRows
    BY DEF PdPush, PdSelect, PdLast, PdFinal, PdCrash, pdTables, pdVars
  <2>. QED BY <2>1, <2>2, <2>3, <2>4, <2>5, <2>6, <2>7 DEF PdNext, PdReqStep, PdJobStep
<1>. QED BY <1>3, <1>4, <1>5, <1>6

LEMMA PdNumberedStep ==
  ASSUME PdInv, PdNumbered, [PdNext]_pdVars
  PROVE  PdNumbered'
<1>0. PdMade \subseteq PdMade' /\ pdJob = [pc |-> pdJob.pc, project |-> pdJob.project, batch |-> pdJob.batch]
  BY PdMadeStay DEF PdInv, PdTypes
<1>1. CASE UNCHANGED pdJob
  BY <1>0, <1>1 DEF PdNumbered
<1>2. CASE pdJob' = PdNoJob
  BY <1>2 DEF PdNumbered, PdNoJob
<1>3. ASSUME NEW p, PdLoad(p) PROVE PdNumbered'
  BY <1>0, <1>1, <1>3 DEF PdLoad, PdNumbered, PdNoJob
<1>4. CASE PdSelect
  BY <1>0, <1>4 DEF PdSelect, PdNumbered, PdOf
<1>5. CASE PdDeleteRows \/ PdLast
  BY <1>0, <1>5 DEF PdDeleteRows, PdLast, PdNumbered
<1>6. \/ UNCHANGED pdJob \/ pdJob' = PdNoJob \/ (\E p: PdLoad(p)) \/ PdSelect \/ PdDeleteRows \/ PdLast
  <2>1. ASSUME NEW p, PdCreate(p) \/ PdDeploy(p) \/ PdPushTo(p) \/ PdDelete(p) PROVE UNCHANGED pdJob
    BY <2>1 DEF PdCreate, PdDeploy, PdPushTo, PdDelete
  <2>2. ASSUME NEW r, PdDeployCommit(r) \/ PdDeployEnqueue(r) PROVE UNCHANGED pdJob
    BY <2>2 DEF PdDeployCommit, PdDeployEnqueue
  <2>3. ASSUME NEW d, PdStartStep(d) \/ PdFinalize(d) PROVE UNCHANGED pdJob
    BY <2>3 DEF PdStartStep, PdStart, PdStarted, PdFinalize
  <2>4. /\ PdPush \/ UNCHANGED pdVars => UNCHANGED pdJob
        /\ PdFinal \/ PdCrash => pdJob' = PdNoJob
    BY DEF PdPush, PdFinal, PdCrash, pdVars
  <2>. QED BY <2>1, <2>2, <2>3, <2>4 DEF PdNext, PdReqStep, PdJobStep
<1>. QED BY <1>1, <1>2, <1>3, <1>4, <1>5, <1>6

LEMMA PdTypesKept == PdSpec => []PdTypeOK
<1>1. PdInit => PdNumbered
  BY DEF PdInit, PdNumbered, PdNoJob
<1>2. PdInv /\ PdNumbered => PdTypeOK
  BY PdRowsShape DEF PdInv, PdTypes, PdContained, PdNumbered, PdRow, PdStates, PdMade, PdTypeOK
<1>. QED BY <1>1, <1>2, PdInvariant, PdNumberedStep, PTL DEF PdSpec

------------------------------------------------------------------------------
(* The allowlist, the links, the browser challenge and the registry.         *)
LEMMA AlTypesKept == AlSpec => []AlTypeOK
<1>. DEFINE Copied == alCache.rules \subseteq AlRules
<1>1. AlInit => Copied
  BY DEF AlInit
<1>2. ASSUME AlInv, Copied, [AlNext]_alVars PROVE Copied'
  <2>1. \A l: AlLoad(l) => alCache'.rules = AlIn(alRows)
    BY DEF AlLoad
  <2>2. AlIn(alRows) \subseteq AlRules
    <3>1. \A r \in alRows: r.rule \in AlRules
      BY <1>2 DEF AlInv, AlTyped, AlRow
    <3>. QED BY <3>1 DEF AlIn
  <2>3. alCache' = alCache \/ \E l: AlLoad(l)
    BY <1>2 DEF AlNext, AlAdd, AlAdded, AlDelete, AlConsult, AlAgain, alVars
  <2>. QED BY <1>2, <2>1, <2>2, <2>3
<1>3. AlInv /\ Copied => AlTypeOK
  BY DEF AlInv, AlTyped, AlRow, AlIn, AlTypeOK
<1>. QED BY <1>1, <1>2, <1>3, AlInvariant, PTL DEF AlSpec

\* What connects a storage goes with its row, also over a request that found it.
LnLinked == \A s \in LnStorages: lnStatus[s] = "gone" => lnLinks[s] = LnUnlinked
LEMMA LnLinkedStep ==
  ASSUME LnInv, LnLinked, [LnNext]_lnVars
  PROVE  LnLinked'
<1>0. DOMAIN lnStatus = LnStorages /\ DOMAIN lnLinks = LnStorages
  BY DEF LnInv, LnTyped
<1>1. ASSUME UNCHANGED lnLinks, \A s \in LnStorages: lnStatus'[s] = "gone" => lnStatus[s] = "gone" PROVE LnLinked'
  BY <1>1 DEF LnLinked
<1>2. ASSUME NEW s \in LnStorages, LnProvision(s) \/ LnMark(s) PROVE LnLinked'
  BY <1>0, <1>1, <1>2 DEF LnProvision, LnMark
<1>3. ASSUME NEW s \in LnStorages, LnDeprovision(s) \/ LnDisconnect(s) PROVE LnLinked'
  BY <1>0, <1>3 DEF LnDeprovision, LnDisconnect, LnUnlinkedFrom, LnLinked
<1>4. CASE LnSave
  BY <1>0, <1>1, <1>4 DEF LnSave, LnSaveable, LnLinked
<1>5. \/ UNCHANGED <<lnLinks, lnStatus>> \/ LnSave
      \/ \E s \in LnStorages: LnProvision(s) \/ LnMark(s) \/ LnDeprovision(s) \/ LnDisconnect(s)
  <2>1. ASSUME NEW s, NEW envs, LnEdit(s, envs) PROVE UNCHANGED <<lnLinks, lnStatus>>
    BY <2>1 DEF LnEdit
  <2>2. ASSUME NEW s, LnRotate(s) \/ LnRotated(s) PROVE UNCHANGED <<lnLinks, lnStatus>>
    BY <2>2 DEF LnRotate, LnRotated
  <2>3. ASSUME NEW e, \/ LnDeleteEnvironment(e) \/ LnRead(e) \/ LnGrant(e) \/ LnPaths(e)
                      \/ LnMounts(e) \/ LnCommit(e) \/ LnAbort(e)
        PROVE  UNCHANGED <<lnLinks, lnStatus>>
    BY <2>3 DEF LnDeleteEnvironment, LnRead, LnGrant, LnPaths, LnMounts, LnCommit, LnAbort
  <2>. QED BY <2>1, <2>2, <2>3 DEF LnNext, lnVars
<1>. QED BY <1>1, <1>2, <1>3, <1>4, <1>5

LEMMA LnTypesKept == LnSpec => []LnTypeOK
<1>1. LnInit => LnLinked
  BY DEF LnInit, LnLinked
<1>2. LnInv /\ LnLinked => LnTypeOK
  BY DEF LnInv, LnTyped, LnLinked, LnTypeOK
<1>. QED BY <1>1, <1>2, LnInvariant, LnLinkedStep, PTL DEF LnSpec

\* The counter goes below 0 once for each challenge at most.
ChCountedOff == {i \in ChIds: chIssues[i] # "unissued" /\ i \notin chOpen}
ChLow == chLoad.count >= -Cardinality(ChCountedOff)
LEMMA ChLowStep ==
  ASSUME IsFiniteSet(ChIds), ChInv, ChLow, [ChNext]_chVars
  PROVE  ChLow'
<1>0. /\ IsFiniteSet(ChCountedOff) /\ Cardinality(ChCountedOff) \in Nat /\ chLoad.count \in Int
      /\ chLoad \in [count: Int, until: Nat] /\ DOMAIN chIssues = ChIds
  BY FS_Subset, FS_CardinalityType DEF ChCountedOff, ChInv, ChTyped
<1>1. ASSUME UNCHANGED chLoad, ChCountedOff' = ChCountedOff PROVE ChLow'
  BY <1>1 DEF ChLow
<1>2. ASSUME chLoad'.count \in Nat, IsFiniteSet(ChCountedOff') PROVE ChLow'
  BY <1>0, <1>2, FS_CardinalityType DEF ChLow
<1>3. ASSUME NEW i \in ChIds, ChBump(i) PROVE ChLow'
  <2>1. ChCountedOff' = ChCountedOff
    BY <1>0, <1>3 DEF ChBump, ChIssuing, ChCountedOff
  <2>2. chLoad'.count = chLoad.count + 1
    BY <1>3 DEF ChBump
  <2>. QED BY <1>0, <2>1, <2>2 DEF ChLow
<1>4. ASSUME NEW i \in ChIds, ChStore(i) \/ ChBoot(i) PROVE ChLow'
  BY <1>0, <1>1, <1>4 DEF ChStore, ChBoot, ChIssuing, ChCountedOff
<1>5. ASSUME NEW r \in ChRequests, ChDrop(r) PROVE ChLow'
  <2>. DEFINE i == chVerifies[r].id
  <2>1. i \in ChIds /\ i \in chOpen /\ chIssues[i] # "unissued"
    BY <1>5 DEF ChInv, ChTyped, ChCounted, ChDrop
  <2>2. ChCountedOff' = ChCountedOff \cup {i} /\ i \notin ChCountedOff
    BY <1>5, <2>1 DEF ChDrop, ChCountedOff
  <2>3. Cardinality(ChCountedOff') = Cardinality(ChCountedOff) + 1
    BY <1>0, <2>2, FS_AddElement
  <2>4. chLoad'.count = chLoad.count - 1
    BY <1>0, <1>5 DEF ChDrop
  <2>. QED BY <1>0, <2>3, <2>4 DEF ChLow
<1>6. ASSUME NEW r \in ChRequests, ChZero(r) PROVE ChLow'
  <2>1. ChCountedOff' = ChCountedOff /\ chLoad'.count = 0
    BY <1>6 DEF ChZero, ChCountedOff
  <2>. QED BY <1>0, <1>2, <2>1
<1>7. CASE ChTick
  <2>1. ChCountedOff' = ChCountedOff /\ (chLoad' = chLoad \/ chLoad'.count = 0)
    BY <1>7 DEF ChTick, ChCountedOff, ChNoLoad
  <2>. QED BY <1>0, <1>1, <1>2, <2>1
<1>8. CASE UNCHANGED <<chLoad, chIssues, chOpen>>
  BY <1>1, <1>8 DEF ChCountedOff
<1>9. \/ UNCHANGED <<chLoad, chIssues, chOpen>> \/ ChTick
      \/ \E i \in ChIds: ChBump(i) \/ ChStore(i) \/ ChBoot(i)
      \/ \E r \in ChRequests: ChDrop(r) \/ ChZero(r)
  BY DEF ChNext, ChReadBoot, ChTake, ChAnswer, ChDie, chVars
<1>. QED BY <1>3, <1>4, <1>5, <1>6, <1>7, <1>8, <1>9

LEMMA ChTypesKept ==
  ASSUME IsFiniteSet(ChIds)
  PROVE  ChSpec => []ChTypeOK
<1>1. ChInit => ChLow
  <2>. SUFFICES ASSUME ChInit PROVE ChLow
    OBVIOUS
  <2>1. ChCountedOff = {} /\ chLoad.count = 0
    BY DEF ChInit, ChCountedOff, ChNoLoad
  <2>. QED BY <2>1, FS_EmptySet DEF ChLow
<1>2. ChInv /\ ChLow => ChTypeOK
  <2>. SUFFICES ASSUME ChInv, ChLow PROVE ChTypeOK
    OBVIOUS
  <2>1. /\ Cardinality(ChIds) \in Nat /\ Cardinality(ChCountedOff) \in Nat
        /\ Cardinality(ChCountedOff) <= Cardinality(ChIds)
        /\ Cardinality(chOpen) \in Nat /\ Cardinality(chOpen) <= Cardinality(ChIds)
    BY FS_Subset, FS_CardinalityType DEF ChCountedOff, ChInv, ChCounted
  <2>2. chLoad.count \in Int /\ chLoad.count <= Cardinality(chOpen) /\ chLoad.count >= -Cardinality(ChCountedOff)
    BY DEF ChInv, ChTyped, ChCounted, ChLow
  <2>3. chLoad.count \in -Cardinality(ChIds)..Cardinality(ChIds)
    BY <2>1, <2>2
  <2>. QED BY <2>3 DEF ChInv, ChTyped, ChPlaces, ChStored, ChTypeOK
<1>3. ChInv /\ ChLow /\ [ChNext]_chVars => ChLow'
  BY ChLowStep
<1>. QED BY <1>1, <1>2, <1>3, ChInvariant, PTL DEF ChSpec

LEMMA GtTypesKept == GtSpec => []GtTypeOK
<1>1. GtInv => GtTypeOK
  BY DEF GtInv, GtTyped, GtPassOk, GtLevelOk, GtTypeOK
<1>. QED BY <1>1, GtInvariant, PTL

RgHeld == RgTypes /\ rgImages \subseteq RgRunners
LEMMA RgHeldStep ==
  ASSUME RgHeld, [RgNext]_rgVars
  PROVE  RgHeld'
<1>1. ASSUME NEW catalog \in [RgItems -> RgCatalogEnabled \cup {"absent"}], RgUpdate(catalog) PROVE RgHeld'
  BY <1>1 DEF RgUpdate, RgHeld, RgTypes, RgSays
<1>2. ASSUME NEW r \in RgRequests, RgBegin(r) PROVE RgHeld'
  <2>1. rgCatalog \in [RgItems -> RgSays]
    BY RgAssumption DEF RgHeld, RgTypes, RgSays
  <2>. QED BY <1>2, <2>1, RgPrunedTyped DEF RgBegin, RgHeld, RgTypes
<1>3. ASSUME NEW r \in RgRequests, NEW i \in RgItems, NEW enabled \in {"true", "false"}, RgSetItem(r, i, enabled)
      PROVE  RgHeld'
  <2>1. RgIdle \in [catalog: [RgItems -> RgSays], overrides: [RgItems -> RgSays]]
    BY DEF RgIdle, RgNone, RgSays
  <2>. QED BY <1>3, <2>1, RgPrunedTyped DEF RgSetItem, RgHeld, RgTypes, RgSays
<1>4. ASSUME NEW runners \in SUBSET RgRunners, RgPull(runners) \/ RgClear(runners) PROVE RgHeld'
  BY <1>4 DEF RgPull, RgClear, RgHeld, RgTypes
<1>5. CASE UNCHANGED rgVars
  BY <1>5 DEF rgVars, RgHeld, RgTypes
<1>. QED BY <1>1, <1>2, <1>3, <1>4, <1>5 DEF RgNext

LEMMA RgTypesKept == RgSpec => []RgTypeOK
<1>1. RgInit => RgHeld
  BY RgInitInv DEF RgInit, RgInv, RgHeld
<1>2. RgHeld => RgTypeOK
  BY DEF RgHeld, RgTypes, RgTypeOK
<1>. QED BY <1>1, <1>2, RgHeldStep, PTL DEF RgSpec

------------------------------------------------------------------------------
(* Storage. A password is as new as the requests that were made allow, and    *)
(* apart from StRotate every step copies those there are.                    *)
StNewest == StMaxRequests + 1 - stLeft
StBounded == /\ stFaults \in 0..StMaxFaults /\ stLeft \in 0..StMaxRequests
             /\ stRow.pw <= StNewest /\ stServer.pw <= StNewest /\ stWeb.pw <= StNewest
             /\ \A s \in StSlots: stJobs[s].seen.pw <= StNewest
StCopies(pw) == \/ pw \in {0, 1, stRow.pw, stServer.pw, stWeb.pw}
                \/ \E s \in StSlots: pw = stJobs[s].seen.pw

LEMMA StBoundedInit == StInit => StBounded
BY StAssumption DEF StInit, StBounded, StNewest, StNoRow, StIdle, StSeen

LEMMA StCopiesBounded ==
  ASSUME StTyped, StTyped', StBounded, stFaults' \in 0..StMaxFaults, stLeft' \in 0..stLeft,
         StCopies(stRow'.pw), StCopies(stServer'.pw), StCopies(stWeb'.pw),
         \A s \in StSlots: StCopies(stJobs'[s].seen.pw)
  PROVE  StBounded'
<1>1. /\ StNewest \in Nat \ {0} /\ StNewest' \in Nat /\ StNewest <= StNewest'
      /\ stLeft' \in 0..StMaxRequests
  <2>1. StMaxRequests \in Nat /\ stLeft \in 0..StMaxRequests /\ stLeft' \in 0..stLeft
    BY StAssumption DEF StBounded
  <2>2. stLeft \in Nat /\ stLeft' \in Nat /\ stLeft' <= stLeft /\ stLeft <= StMaxRequests
    BY <2>1
  <2>3. ASSUME NEW m \in Nat, NEW l \in Nat, NEW n \in Nat, n <= l, l <= m
        PROVE  /\ m + 1 - l \in Nat \ {0} /\ m + 1 - n \in Nat /\ m + 1 - l <= m + 1 - n
               /\ n \in 0..m
    BY <2>3
  <2>. QED BY <2>1, <2>2, <2>3 DEF StNewest
<1>2. ASSUME NEW pw \in Nat, StCopies(pw) PROVE pw <= StNewest'
  <2>1. pw <= StNewest
    BY <1>1, <1>2 DEF StCopies, StBounded
  <2>. QED BY <1>1, <2>1
<1>3. /\ stRow'.pw \in Nat /\ stServer'.pw \in Nat /\ stWeb'.pw \in Nat
      /\ \A s \in StSlots: stJobs'[s].seen.pw \in Nat
  BY DEF StTyped, StRowType, StJobType
<1>. QED BY <1>1, <1>2, <1>3 DEF StBounded

\* A step of a job writes what the job has read, or leaves the passwords alone.
LEMMA StJobsCopy ==
  ASSUME StTyped, NEW s \in StSlots, NEW job, StCopies(job.seen.pw), stJobs' = [stJobs EXCEPT ![s] = job]
  PROVE  \A o \in StSlots: StCopies(stJobs'[o].seen.pw)
BY DEF StTyped, StCopies

LEMMA StBoundedStep ==
  ASSUME StTyped, StTyped', StBounded, [StNext]_stVars
  PROVE  StBounded'
<1>0. /\ StCopies(stRow.pw) /\ StCopies(stServer.pw) /\ StCopies(stWeb.pw) /\ StCopies(0) /\ StCopies(1)
      /\ \A s \in StSlots: StCopies(stJobs[s].seen.pw)
  BY DEF StCopies
<1>1. /\ StFault => stFaults' \in 0..StMaxFaults
      /\ stFaults \in 0..StMaxFaults /\ stLeft \in 0..stLeft
      /\ StAsk => stLeft' \in 0..stLeft
  BY StAssumption DEF StBounded, StFault, StAsk
<1>2. CASE UNCHANGED stVars
  BY <1>0, <1>1, <1>2, StCopiesBounded DEF stVars
<1>3. ASSUME NEW t \in StTypes, StCreate(t) PROVE StBounded'
  <2>1. StNewRow(t).pw \in {0, 1}
    BY DEF StNewRow, StNoRow
  <2>. QED BY <1>0, <1>1, <1>3, <2>1, StCopiesBounded DEF StCreate
<1>4. CASE StRetry \/ StResetRequest \/ StDeleteRequest \/ StBackupSettings \/ StBackupEnqueue \/ StSchedule
  <2>1. /\ stRow' = [stRow EXCEPT !.status = stRow'.status, !.error = stRow'.error, !.enabled = stRow'.enabled]
        /\ UNCHANGED <<stServer, stJobs, stWeb>>
        /\ stFaults' \in 0..StMaxFaults /\ stLeft' \in 0..stLeft
    BY <1>1, <1>4 DEF StRetry, StResetRequest, StDeleteRequest, StBackupSettings, StBackupEnqueue, StSchedule,
         StTyped, StRowType
  <2>2. stRow'.pw = stRow.pw
    BY <2>1 DEF StTyped, StRowType
  <2>. QED BY <1>0, <2>1, <2>2, StCopiesBounded
<1>5. CASE StRotate
  <2>. DEFINE new == 1 + (IF stRow.pw > stServer.pw THEN stRow.pw ELSE stServer.pw)
  <2>1. /\ UNCHANGED <<stRow, stServer, stJobs, stFaults>> /\ stWeb'.pw = new
        /\ stLeft > 0 /\ stLeft' = stLeft - 1
    BY <1>5 DEF StRotate, StAsk, StTyped
  <2>2. /\ stRow.pw \in Nat /\ stServer.pw \in Nat /\ \A s \in StSlots: stJobs[s].seen.pw \in Nat
    BY DEF StTyped, StRowType, StJobType
  <2>. QED BY <2>1, <2>2, StAssumption DEF StBounded, StNewest
<1>6. CASE StRotateCommit \/ StRotateCrash
  <2>1. /\ stRow'.pw \in {stRow.pw, stWeb.pw} /\ stWeb'.pw = stWeb.pw
        /\ UNCHANGED <<stServer, stJobs, stLeft>> /\ stFaults' \in 0..StMaxFaults
    BY <1>1, <1>6 DEF StRotateCommit, StRotateCrash, StTyped, StRowType
  <2>. QED BY <1>0, <1>1, <2>1, StCopiesBounded
<1>7. ASSUME NEW s \in StSlots, NEW k \in StKinds, StLoad(s, k) PROVE StBounded'
  <2>1. stRow'.pw = stRow.pw /\ UNCHANGED <<stServer, stWeb, stFaults, stLeft>>
    BY <1>7 DEF StLoad, StTyped, StRowType
  <2>2. \A row: StSeen(k, row).pw \in {0, row.pw}
    BY DEF StSeen
  <2>3. \A o \in StSlots: StCopies(stJobs'[o].seen.pw)
    <3>1. CASE stJobs' = stJobs
      BY <1>0, <3>1
    <3>2. CASE stJobs' = [stJobs EXCEPT ![s] = [job |-> k, pc |-> "work", seen |-> StSeen(k, stRow')]]
      BY <1>0, <2>1, <2>2, <3>2, StJobsCopy
    <3>. QED BY <1>7, <3>1, <3>2 DEF StLoad
  <2>. QED BY <1>0, <1>1, <2>1, <2>3, StCopiesBounded
<1>8. ASSUME NEW s \in StSlots,
             StProvision(s) \/ StReset(s) \/ StDeprovision(s) \/ StDumpStart(s) \/ StDump(s)
      PROVE  StBounded'
  <2>1. /\ stServer'.pw \in {0, stServer.pw, stJobs[s].seen.pw} /\ UNCHANGED <<stRow, stWeb, stLeft>>
        /\ stFaults' \in 0..StMaxFaults
    BY <1>1, <1>8 DEF StProvision, StReset, StDeprovision, StDumpStart, StDump, StEnsured, StDropped, StTyped
  <2>2. \E pc: StGoto(s, pc)
    BY <1>8 DEF StProvision, StReset, StDeprovision, StDumpStart, StDump
  <2>3. \A o \in StSlots: StCopies(stJobs'[o].seen.pw)
    BY <1>0, <2>2 DEF StGoto, StTyped, StJobType
  <2>. QED BY <1>0, <1>1, <2>1, <2>3, StCopiesBounded
<1>9. ASSUME NEW s \in StSlots, StCommit(s) \/ StFail(s) \/ StInterrupt(s) PROVE StBounded'
  <2>1. stRow'.pw \in {0, stRow.pw} /\ UNCHANGED <<stServer, stWeb, stLeft>> /\ stFaults' \in 0..StMaxFaults
    <3>1. stRow \in StRowType
      BY DEF StTyped
    <3>2. StCommit(s) => stRow'.pw \in {0, stRow.pw}
      <4>. SUFFICES ASSUME StCommit(s) PROVE stRow'.pw \in {0, stRow.pw}
        OBVIOUS
      <4>1. stJobs[s].job \in StKinds
        BY DEF StCommit, StTyped, StJobType, StBusy
      <4>2. CASE stRow.status = "gone"
        BY <4>2 DEF StCommit, StCommitted
      <4>3. CASE stRow.status # "gone" /\ stJobs[s].job \in {"provision", "reset"}
        <5>1. \E e, t: stRow' = [stRow EXCEPT !.status = e, !.error = t]
          BY <4>3 DEF StCommit, StCommitted
        <5>. QED BY <3>1, <5>1 DEF StRowType
      <4>4. CASE stRow.status # "gone" /\ stJobs[s].job = "deprovision"
        <5>1. stRow' = [stRow EXCEPT !.status = "gone", !.pw = 0]
          BY <4>4 DEF StCommit, StCommitted
        <5>. QED BY <3>1, <5>1 DEF StRowType
      <4>5. CASE stRow.status # "gone" /\ stJobs[s].job = "backup"
        <5>1. \E e: stRow' = [stRow EXCEPT !.enabled = e, !.last = "ok"]
          BY <4>5 DEF StCommit, StCommitted
        <5>. QED BY <3>1, <5>1 DEF StRowType
      <4>. QED BY <4>1, <4>2, <4>3, <4>4, <4>5 DEF StKinds
    <3>3. StFail(s) => stRow'.pw = stRow.pw
      BY <3>1 DEF StFail, StFailed, StRowType
    <3>. QED BY <1>1, <1>9, <3>2, <3>3 DEF StCommit, StFail, StInterrupt
  <2>2. stJobs' = [stJobs EXCEPT ![s] = StIdle] /\ StIdle.seen.pw = 0
    BY <1>9 DEF StCommit, StFail, StInterrupt, StIdle, StSeen, StNoRow
  <2>3. \A o \in StSlots: StCopies(stJobs'[o].seen.pw)
    BY <1>0, <2>2, StJobsCopy
  <2>. QED BY <1>0, <1>1, <2>1, <2>3, StCopiesBounded
<1>10. CASE StRotateServer
  <2>1. /\ stServer'.pw = stWeb.pw /\ stWeb'.pw = stWeb.pw
        /\ UNCHANGED <<stRow, stJobs, stFaults, stLeft>>
    BY <1>10 DEF StRotateServer, StTyped
  <2>. QED BY <1>0, <1>1, <2>1, StCopiesBounded
<1>. QED BY <1>2, <1>3, <1>4, <1>5, <1>6, <1>7, <1>8, <1>9, <1>10 DEF StNext, StStep

LEMMA StTypesKept == StSpec => []StTypeOK
<1>1. StTyped /\ StBounded => StTypeOK
  <2>. SUFFICES ASSUME StTyped, StBounded PROVE StTypeOK
    OBVIOUS
  <2>1. \A pw \in Nat: pw <= StNewest => pw \in StPasswords
    BY StAssumption DEF StBounded, StNewest, StPasswords
  <2>2. stRow \in StRows
    BY <2>1 DEF StTyped, StBounded, StRowType, StRows
  <2>3. stJobs \in [StSlots -> [job: StKinds \cup {"none"}, seen: StSeens,
                                pc: {"idle", "work", "dump", "commit", "fail"}]]
    <3>1. ASSUME NEW s \in StSlots
          PROVE  stJobs[s] \in [job: StKinds \cup {"none"}, seen: StSeens,
                                pc: {"idle", "work", "dump", "commit", "fail"}]
      <4>1. stJobs[s] \in StJobType /\ stJobs[s].seen.pw <= StNewest
        BY DEF StTyped, StBounded
      <4>2. stJobs[s].seen \in StSeens
        BY <2>1, <4>1 DEF StJobType, StSeens
      <4>. QED BY <4>1, <4>2 DEF StJobType
    <3>. QED BY <3>1 DEF StTyped
  <2>4. stServer \in [db: BOOLEAN, pw: StPasswords] /\ stWeb \in StRotating
    BY <2>1 DEF StTyped, StBounded, StRotating
  <2>. QED BY <2>2, <2>3, <2>4 DEF StTypeOK, StTyped, StBounded, StFiles
<1>2. StInv => StTyped
  BY DEF StInv
<1>. QED BY <1>1, <1>2, StInvariant, StBoundedInit, StBoundedStep, PTL DEF StSpec

------------------------------------------------------------------------------
(* Accounts. Every reference is to a row that is there: what is deleted takes *)
(* the rows that refer to it along, or is not deleted.                       *)
AcPlaced == \A t \in AcTeams, u \in AcUsers:
  /\ acRoles[t][u] \in Seq(AcRoles)
  /\ AcIn(u, t) => acUser[u] = "active" /\ acTeam[t] = "active"
AcDefaults == \A u \in AcUsers: acDefault[u] # AcNone =>
  acUser[u] = "active" /\ acDefault[u] \in AcTeams /\ acTeam[acDefault[u]] = "active"
AcInviteLives(i) == acInvites[i].status # "deleted" =>
  /\ acTeam[acInvites[i].team] = "active"
  /\ acInvites[i].by \in AcUsers /\ acUser[acInvites[i].by] = "active"
  /\ acInvites[i].role \in AcRoles
AcWritable(q) == q.op \in {"invite", "role", "accept"} => q.role \in AcRoles
AcLive == /\ acContent \in [AcTeams -> BOOLEAN]
          /\ acNoted \subseteq {u \in AcUsers: acUser[u] = "active"}
          /\ DOMAIN acDefault = AcUsers
          /\ AcPlaced /\ AcDefaults
          /\ \A i \in DOMAIN acInvites: AcInviteLives(i)
          /\ \A r \in AcRequests: AcWritable(acReq[r])

LEMMA AcInitLive == AcInit => AcLive
BY AcAssumption DEF AcInit, AcLive, AcPlaced, AcDefaults, AcIn, AcWritable, AcIdle

\* Rows of a user in a team: a prefix, a suffix or a role more or less keeps them.
LEMMA AcRowRoles ==
  ASSUME NEW s \in Seq(AcRoles)
  PROVE  /\ \A role \in AcRoles: Append(s, role) \in Seq(AcRoles) /\ <<role>> \in Seq(AcRoles)
         /\ Len(s) \in Nat /\ Len(<<>>) = 0 /\ <<>> \in Seq(AcRoles)
         /\ Len(s) > 0 => /\ Tail(s) \in Seq(AcRoles) /\ s[1] \in AcRoles
                          /\ \A role \in AcRoles: [s EXCEPT ![1] = role] \in Seq(AcRoles)
<1>1. Len(s) > 0 => 1 \in 1..Len(s)
  OBVIOUS
<1>2. ASSUME Len(s) > 0, NEW role \in AcRoles PROVE [s EXCEPT ![1] = role] \in Seq(AcRoles)
  BY <1>1, <1>2, LenProperties, ElementOfSeq, SeqDef
<1>. QED BY <1>1, <1>2, AppendProperties, HeadTailProperties, LenProperties, ElementOfSeq, EmptySeq

\* A step that changes the rows of one user in one team.
LEMMA AcRowLive ==
  ASSUME AcTypes, AcPlaced, UNCHANGED <<acUser, acTeam>>, NEW t \in AcTeams, NEW u \in AcUsers,
         NEW s \in Seq(AcRoles), acRoles' = [acRoles EXCEPT ![t][u] = s],
         Len(s) > 0 => acUser[u] = "active" /\ acTeam[t] = "active"
  PROVE  AcPlaced'
BY DEF AcTypes, AcPlaced, AcIn

\* A new row of a team or of a user.
LEMMA AcMoreLive ==
  ASSUME AcTypes, AcLive, NEW u \in AcUsers, NEW t \in AcTeams, acTeam[t] = "none",
         acTeam' = [acTeam EXCEPT ![t] = "active"], acRoles' = [acRoles EXCEPT ![t][u] = <<"owner">>],
         acUser' = [acUser EXCEPT ![u] = "active"], acDefault' \in {acDefault, [acDefault EXCEPT ![u] = t]},
         UNCHANGED <<acContent, acInvites, acNoted, acReq>>
  PROVE  AcLive'
<1>1. <<"owner">> \in Seq(AcRoles)
  BY AcAssumption
<1>2. AcPlaced'
  BY <1>1 DEF AcTypes, AcLive, AcPlaced, AcIn
<1>3. AcDefaults' /\ DOMAIN acDefault' = AcUsers
  BY DEF AcTypes, AcLive, AcDefaults
<1>4. ASSUME NEW i \in DOMAIN acInvites PROVE AcInviteLives(i)'
  <2>. SUFFICES ASSUME acInvites[i].status # "deleted" PROVE AcInviteLives(i)'
    BY DEF AcInviteLives
  <2>1. AcInviteLives(i)
    BY DEF AcLive
  <2>2. acInvites[i] \in AcInvite /\ acTeam[acInvites[i].team] = "active"
    BY <2>1, ElementOfSeq DEF AcInviteLives, AcTypes
  <2>3. acTeam'[acInvites[i].team] = "active"
    BY <2>2 DEF AcTypes
  <2>. QED BY <2>1, <2>3 DEF AcInviteLives, AcTypes
<1>. QED BY <1>2, <1>3, <1>4 DEF AcLive, AcTypes

\* A step of a request that writes no table but acReq.
LEMMA AcBeginLive ==
  ASSUME AcTypes, AcLive, NEW r \in AcRequests, NEW req, AcBegin(r, req), AcWritable(req)
  PROVE  AcLive'
BY DEF AcBegin, AcTypes, AcLive, AcPlaced, AcDefaults, AcInviteLives, AcIn, acTables

\* Steps that leave the users and teams, and make the rows that refer no more.
LEMMA AcFewerLive ==
  ASSUME AcLive, UNCHANGED <<acUser, acTeam>>, AcPlaced', acContent' \in [AcTeams -> BOOLEAN],
         acNoted' = acNoted, acDefault' = acDefault, DOMAIN acInvites' = DOMAIN acInvites,
         \A i \in DOMAIN acInvites: \/ acInvites'[i] = acInvites[i] \/ acInvites'[i] = AcNoInvite
                                    \/ acInvites'[i] = [acInvites[i] EXCEPT !.status = "settled"]
                                       /\ acInvites[i].status # "deleted" /\ acInvites[i] \in AcInvite,
         \A r \in AcRequests: acReq'[r] = acReq[r] \/ acReq'[r] = AcIdle
  PROVE  AcLive'
<1>1. ASSUME NEW i \in DOMAIN acInvites PROVE AcInviteLives(i)'
  <2>0. AcInviteLives(i)
    BY DEF AcLive
  <2>1. CASE acInvites'[i] = acInvites[i]
    BY <2>0, <2>1 DEF AcInviteLives
  <2>2. CASE acInvites'[i] = AcNoInvite
    BY <2>2 DEF AcInviteLives, AcNoInvite
  <2>3. CASE /\ acInvites'[i] = [acInvites[i] EXCEPT !.status = "settled"]
             /\ acInvites[i].status # "deleted" /\ acInvites[i] \in AcInvite
    BY <2>0, <2>3 DEF AcInviteLives, AcInvite
  <2>. QED BY <2>1, <2>2, <2>3
<1>2. AcDefaults'
  BY DEF AcLive, AcDefaults
<1>3. \A r \in AcRequests: AcWritable(acReq'[r])
  BY AcAssumption DEF AcLive, AcWritable, AcIdle
<1>. QED BY <1>1, <1>2, <1>3 DEF AcLive

LEMMA AcLiveStep ==
  ASSUME AcInv, AcLive, [AcNext]_acVars
  PROVE  AcLive'
<1>0. AcTypes /\ AcKnown /\ AcPlaced /\ acContent \in [AcTeams -> BOOLEAN]
      /\ \A i \in DOMAIN acInvites: acInvites[i] \in AcInvite
  BY ElementOfSeq DEF AcInv, AcTypes, AcLive
<1>1. ASSUME UNCHANGED <<acUser, acDefault, acTeam, acRoles, acInvites, acNoted, acReq>>,
             acContent' \in [AcTeams -> BOOLEAN]
      PROVE  AcLive'
  <2>1. AcPlaced'
    BY <1>0, <1>1 DEF AcPlaced, AcIn
  <2>. QED BY <1>1, <2>1, AcFewerLive
<1>2. CASE UNCHANGED acVars
  BY <1>0, <1>1, <1>2 DEF acVars, acTables
<1>3. ASSUME NEW u \in AcUsers, NEW t \in AcTeams, AcLogin(u, t) PROVE AcLive'
  BY <1>0, <1>3, AcMoreLive DEF AcLogin, AcNextTeam
<1>4. ASSUME NEW u \in AcUsers, NEW t \in AcTeams, AcNewTeam(u, t) PROVE AcLive'
  <2>1. acUser' = [acUser EXCEPT ![u] = "active"]
    BY <1>0, <1>4 DEF AcNewTeam, AcSignedIn, AcTypes
  <2>. QED BY <1>0, <1>4, <2>1, AcMoreLive DEF AcNewTeam, AcNextTeam
<1>5. ASSUME NEW u \in AcUsers, NEW t \in AcTeams,
             AcNewContent(u, t) \/ AcDeleteTeam(u, t) \/ AcDeleteUser(u) \/ \E a \in AcUsers: AcAdminDelete(a, u)
      PROVE  AcLive'
  BY <1>0, <1>1, <1>5 DEF AcNewContent, AcDeleteTeam, AcDeleteUser, AcAdminDelete, acTables
<1>6. ASSUME NEW a, NEW u \in AcUsers, NEW t \in AcTeams, AcRemoveMember(a, u, t) PROVE AcLive'
  <2>1. Tail(acRoles[t][u]) \in Seq(AcRoles) /\ acUser[u] = "active" /\ acTeam[t] = "active"
    BY <1>0, <1>6, AcRowRoles DEF AcRemoveMember, AcPlaced, AcIn
  <2>2. AcPlaced'
    BY <1>0, <1>6, <2>1, AcRowLive DEF AcRemoveMember
  <2>. QED BY <1>0, <1>6, <2>2, AcFewerLive DEF AcRemoveMember
<1>7. ASSUME NEW i, AcDecline(i) \/ \E a \in AcUsers: AcRevoke(a, i) PROVE AcLive'
  <2>1. AcPlaced'
    BY <1>0, <1>7 DEF AcDecline, AcRevoke, AcPlaced, AcIn
  <2>2. CASE AcDecline(i)
    <3>1. /\ DOMAIN acInvites' = DOMAIN acInvites
          /\ \A j \in DOMAIN acInvites: \/ acInvites'[j] = acInvites[j]
                                        \/ acInvites'[j] = [acInvites[j] EXCEPT !.status = "settled"]
                                           /\ acInvites[j].status # "deleted"
      BY <2>2 DEF AcDecline, AcPending
    <3>. QED BY <1>0, <2>1, <2>2, <3>1, AcFewerLive DEF AcDecline
  <2>3. ASSUME NEW a, AcRevoke(a, i) PROVE AcLive'
    <3>1. /\ DOMAIN acInvites' = DOMAIN acInvites
          /\ \A j \in DOMAIN acInvites: acInvites'[j] = acInvites[j] \/ acInvites'[j] = AcNoInvite
      BY <2>3 DEF AcRevoke
    <3>. QED BY <1>0, <2>1, <2>3, <3>1, AcFewerLive DEF AcRevoke
  <2>. QED BY <1>7, <2>2, <2>3
<1>8. ASSUME NEW r \in AcRequests, NEW a \in AcUsers, NEW u \in AcUsers, NEW t \in AcTeams, NEW role \in AcRoles,
             AcInviteCheck(r, a, u, t, role) \/ AcRoleCheck(r, a, u, t, role)
      PROVE  AcLive'
  BY <1>0, <1>8, AcBeginLive DEF AcInviteCheck, AcRoleCheck, AcWritable
<1>9. ASSUME NEW r \in AcRequests, NEW u \in AcUsers, NEW t \in AcTeams, AcLeaveCheck(r, u, t) PROVE AcLive'
  BY <1>0, <1>9, AcBeginLive DEF AcLeaveCheck, AcWritable
<1>10. ASSUME NEW r \in AcRequests, NEW i, AcAcceptCheck(r, i) PROVE AcLive'
  <2>1. acInvites[i].role \in AcRoles
    BY <1>10 DEF AcAcceptCheck, AcPending, AcLive, AcInviteLives
  <2>. QED BY <1>0, <1>10, <2>1, AcBeginLive DEF AcAcceptCheck, AcWritable
<1>11. ASSUME NEW r \in AcRequests, AcCommit(r) PROVE AcLive'
  <2>. DEFINE q == acReq[r]
  <2>1. /\ \A o \in AcRequests: acReq'[o] = acReq[o] \/ acReq'[o] = AcIdle
        /\ AcReqKnown(q) /\ q \in AcRequest /\ UNCHANGED <<acUser, acTeam, acDefault, acContent>>
        /\ AcWritable(q) /\ q.op # "idle"
    BY <1>0, <1>11 DEF AcCommit, AcInviteCommit, AcRoleCommit, AcLeaveCommit, AcAcceptCommit, AcEnd, AcTypes, AcKnown, AcLive
  <2>2. q.team \in AcTeams /\ q.user \in AcUsers
    BY <2>1 DEF AcReqKnown
  <2>3. /\ acRoles[q.team][q.user] \in Seq(AcRoles)
        /\ AcIn(q.user, q.team) => acUser[q.user] = "active" /\ acTeam[q.team] = "active"
    BY <1>0, <2>2 DEF AcPlaced
  <2>4. CASE AcInviteCommit(r)
    <3>1. AcPlaced' /\ AcDefaults'
      BY <2>1, <2>4 DEF AcInviteCommit, AcPlaced, AcLive, AcDefaults, AcIn
    <3>2. acNoted' \subseteq {u \in AcUsers: acUser'[u] = "active"}
      BY <2>1, <2>2, <2>4 DEF AcInviteCommit, AcLive
    <3>3. \A i \in DOMAIN acInvites': AcInviteLives(i)'
      <4>1. CASE acInvites' = acInvites
        BY <2>1, <4>1 DEF AcLive, AcInviteLives
      <4>2. CASE acInvites' # acInvites
        <5>1. /\ acTeam[q.team] = "active" /\ acUser[q.arg] = "active" /\ q.arg \in AcUsers /\ q.role \in AcRoles
              /\ acInvites' = Append(acInvites, [team |-> q.team, user |-> q.user, by |-> q.arg,
                                                 role |-> q.role, status |-> "pending"])
          BY <2>1, <2>4, <4>2 DEF AcInviteCommit, AcReqKnown, AcWritable
        <5>2. \A i \in DOMAIN acInvites': \/ i \in DOMAIN acInvites /\ acInvites'[i] = acInvites[i]
                                         \/ acInvites'[i] = [team |-> q.team, user |-> q.user, by |-> q.arg,
                                                             role |-> q.role, status |-> "pending"]
          <6>1. acInvites \in Seq(AcInvite)
            BY <1>0 DEF AcTypes
          <6>. QED BY <5>1, <6>1
        <5>. QED BY <2>1, <5>1, <5>2 DEF AcLive, AcInviteLives
      <4>. QED BY <4>1, <4>2
    <3>4. \A o \in AcRequests: AcWritable(acReq'[o])
      BY <2>1 DEF AcLive, AcWritable, AcIdle
    <3>. QED BY <2>1, <3>1, <3>2, <3>3, <3>4 DEF AcLive
  <2>5. CASE AcRoleCommit(r) \/ AcLeaveCommit(r)
    <3>1. \/ acRoles' = acRoles
          \/ \E s \in Seq(AcRoles): AcIn(q.user, q.team) /\ acRoles' = [acRoles EXCEPT ![q.team][q.user] = s]
      <4>1. CASE AcRoleCommit(r) /\ AcIn(q.user, q.team)
        <5>1. [acRoles[q.team][q.user] EXCEPT ![1] = q.role] \in Seq(AcRoles)
          BY <2>1, <2>3, <4>1, AcRowRoles DEF AcRoleCommit, AcWritable, AcIn
        <5>2. acRoles' = [acRoles EXCEPT ![q.team][q.user] = [acRoles[q.team][q.user] EXCEPT ![1] = q.role]]
          BY <4>1 DEF AcRoleCommit
        <5>. QED BY <4>1, <5>1, <5>2
      <4>2. CASE AcLeaveCommit(r) /\ AcIn(q.user, q.team)
        <5>1. Tail(acRoles[q.team][q.user]) \in Seq(AcRoles)
          BY <2>3, <4>2, AcRowRoles DEF AcIn
        <5>2. acRoles' = [acRoles EXCEPT ![q.team][q.user] = Tail(acRoles[q.team][q.user])]
          BY <4>2 DEF AcLeaveCommit
        <5>. QED BY <4>2, <5>1, <5>2
      <4>. QED BY <2>5, <4>1, <4>2 DEF AcRoleCommit, AcLeaveCommit
    <3>2. CASE acRoles' = acRoles
      <4>1. AcPlaced'
        BY <1>0, <2>1, <3>2 DEF AcPlaced, AcIn
      <4>. QED BY <1>0, <2>1, <2>5, <4>1, AcFewerLive DEF AcRoleCommit, AcLeaveCommit
    <3>3. ASSUME NEW s \in Seq(AcRoles), AcIn(q.user, q.team), acRoles' = [acRoles EXCEPT ![q.team][q.user] = s]
          PROVE  AcLive'
      <4>1. AcPlaced'
        BY <1>0, <2>1, <2>2, <2>3, <3>3, AcRowLive
      <4>. QED BY <1>0, <2>1, <2>5, <4>1, AcFewerLive DEF AcRoleCommit, AcLeaveCommit
    <3>. QED BY <3>1, <3>2, <3>3
  <2>6. CASE AcAcceptCommit(r)
    <3>1. /\ DOMAIN acInvites' = DOMAIN acInvites
          /\ \A j \in DOMAIN acInvites: \/ acInvites'[j] = acInvites[j]
                                        \/ acInvites'[j] = [acInvites[j] EXCEPT !.status = "settled"]
                                           /\ acInvites[j].status # "deleted"
      BY <2>6 DEF AcAcceptCommit, AcAcceptable
    <3>2. CASE AcAcceptable(q)
      <4>1. q.arg \in DOMAIN acInvites /\ acInvites[q.arg].status # "deleted" /\ acInvites[q.arg].team = q.team
            /\ acUser[q.user] = "active"
        BY <2>1, <2>6, <3>2 DEF AcAcceptCommit, AcReqKnown, AcAcceptable
      <4>2. acTeam[q.team] = "active"
        BY <4>1 DEF AcLive, AcInviteLives
      <4>3. Append(acRoles[q.team][q.user], q.role) \in Seq(AcRoles)
        BY <2>1, <2>3, <2>6, AcRowRoles DEF AcAcceptCommit, AcWritable
      <4>4. acRoles' = [acRoles EXCEPT ![q.team][q.user] = Append(acRoles[q.team][q.user], q.role)]
        BY <2>6, <3>2 DEF AcAcceptCommit
      <4>5. AcPlaced'
        BY <1>0, <2>1, <2>2, <4>1, <4>2, <4>3, <4>4, AcRowLive
      <4>. QED BY <1>0, <2>1, <2>6, <3>1, <4>5, AcFewerLive DEF AcAcceptCommit
    <3>3. CASE ~AcAcceptable(q)
      <4>1. AcPlaced'
        BY <1>0, <2>1, <2>6, <3>3 DEF AcAcceptCommit, AcPlaced, AcIn
      <4>. QED BY <1>0, <2>1, <2>6, <3>1, <4>1, AcFewerLive DEF AcAcceptCommit
    <3>. QED BY <3>2, <3>3
  <2>. QED BY <1>11, <2>4, <2>5, <2>6 DEF AcCommit
<1>12. ASSUME NEW t \in AcTeams, AcTeamLoad(t) \/ AcUserTeam(t) PROVE AcLive'
  BY <1>0, <1>1, <1>12 DEF AcTeamLoad, AcUserTeam
<1>13. ASSUME NEW u \in AcUsers, AcUserLoad(u) PROVE AcLive'
  BY <1>0, <1>1, <1>13 DEF AcUserLoad, acTables
<1>14. ASSUME NEW t \in AcTeams, AcTeamFinal(t) PROVE AcLive'
  <2>1. CASE acContent[t]
    BY <1>0, <1>1, <1>14, <2>1 DEF AcTeamFinal, acTables
  <2>2. CASE ~acContent[t]
    <3>1. /\ acTeam' = [acTeam EXCEPT ![t] = "gone"]
          /\ acRoles' = [acRoles EXCEPT ![t] = [u \in AcUsers |-> <<>>]]
          /\ acInvites' = AcDropInvites({i \in DOMAIN acInvites: acInvites[i].team = t})
          /\ acDefault' = AcDefaultCleared(t)
          /\ UNCHANGED <<acUser, acContent, acNoted, acReq>> /\ t # AcNone
      BY <1>14, <2>2 DEF AcTeamFinal
    <3>2. AcPlaced'
      <4>. SUFFICES ASSUME NEW o \in AcTeams, NEW u \in AcUsers
                    PROVE  /\ acRoles'[o][u] \in Seq(AcRoles)
                           /\ Len(acRoles'[o][u]) > 0 => acUser[u] = "active" /\ acTeam'[o] = "active"
        BY <3>1 DEF AcPlaced, AcIn
      <4>1. CASE o = t
        <5>1. acRoles'[o][u] = <<>>
          BY <1>0, <3>1, <4>1 DEF AcTypes
        <5>. QED BY <5>1, EmptySeq
      <4>2. CASE o # t
        <5>1. acRoles'[o] = acRoles[o] /\ acTeam'[o] = acTeam[o]
          BY <1>0, <3>1, <4>2 DEF AcTypes
        <5>. QED BY <1>0, <5>1 DEF AcPlaced, AcIn
      <4>. QED BY <4>1, <4>2
    <3>3. AcDefaults' /\ DOMAIN acDefault' = AcUsers
      BY <1>0, <3>1 DEF AcTypes, AcLive, AcDefaults, AcDefaultCleared
    <3>4. ASSUME NEW i \in DOMAIN acInvites' PROVE AcInviteLives(i)'
      <4>1. i \in DOMAIN acInvites /\ AcInviteLives(i)
        BY <3>1 DEF AcDropInvites, AcLive
      <4>2. CASE acInvites[i].team = t
        BY <3>1, <4>1, <4>2 DEF AcDropInvites, AcInviteLives, AcNoInvite
      <4>3. CASE acInvites[i].team # t
        <5>1. acInvites'[i] = acInvites[i]
          BY <3>1, <4>1, <4>3 DEF AcDropInvites
        <5>2. acTeam'[acInvites[i].team] = acTeam[acInvites[i].team]
          BY <1>0, <3>1, <4>3 DEF AcTypes
        <5>. QED BY <3>1, <4>1, <5>1, <5>2 DEF AcInviteLives
      <4>. QED BY <4>2, <4>3
    <3>. QED BY <3>1, <3>2, <3>3, <3>4 DEF AcLive
  <2>. QED BY <2>1, <2>2
<1>15. ASSUME NEW u \in AcUsers, AcUserFinal(u) PROVE AcLive'
  <2>1. CASE AcReferred(u)
    BY <1>0, <1>1, <1>15, <2>1 DEF AcUserFinal, acTables
  <2>2. CASE ~AcReferred(u)
    <3>1. /\ acUser' = [acUser EXCEPT ![u] = "gone"]
          /\ acDefault' = [acDefault EXCEPT ![u] = AcNone]
          /\ acRoles' = [t \in AcTeams |-> [acRoles[t] EXCEPT ![u] = <<>>]]
          /\ acInvites' = AcDropInvites({i \in DOMAIN acInvites: u \in {acInvites[i].user, acInvites[i].by}})
          /\ UNCHANGED <<acTeam, acContent, acNoted, acReq>> /\ u \notin acNoted
      BY <1>15, <2>2 DEF AcUserFinal, AcReferred
    <3>2. AcPlaced'
      <4>. SUFFICES ASSUME NEW t \in AcTeams, NEW o \in AcUsers
                    PROVE  /\ acRoles'[t][o] \in Seq(AcRoles)
                           /\ Len(acRoles'[t][o]) > 0 => acUser'[o] = "active" /\ acTeam[t] = "active"
        BY <3>1 DEF AcPlaced, AcIn
      <4>1. CASE o = u
        <5>1. acRoles'[t][o] = <<>>
          BY <1>0, <3>1, <4>1 DEF AcTypes
        <5>. QED BY <5>1, EmptySeq
      <4>2. CASE o # u
        <5>1. acRoles'[t][o] = acRoles[t][o] /\ acUser'[o] = acUser[o]
          BY <1>0, <3>1, <4>2 DEF AcTypes
        <5>. QED BY <1>0, <5>1 DEF AcPlaced, AcIn
      <4>. QED BY <4>1, <4>2
    <3>3. AcDefaults' /\ DOMAIN acDefault' = AcUsers
      BY <1>0, <3>1 DEF AcTypes, AcLive, AcDefaults
    <3>4. ASSUME NEW i \in DOMAIN acInvites' PROVE AcInviteLives(i)'
      <4>1. i \in DOMAIN acInvites /\ AcInviteLives(i)
        BY <3>1 DEF AcDropInvites, AcLive
      <4>2. CASE u \in {acInvites[i].user, acInvites[i].by}
        BY <3>1, <4>1, <4>2 DEF AcDropInvites, AcInviteLives, AcNoInvite
      <4>3. CASE u \notin {acInvites[i].user, acInvites[i].by}
        <5>1. acInvites'[i] = acInvites[i]
          BY <3>1, <4>1, <4>3 DEF AcDropInvites
        <5>2. acUser'[acInvites[i].by] = acUser[acInvites[i].by]
          BY <1>0, <3>1, <4>3 DEF AcTypes
        <5>. QED BY <3>1, <4>1, <5>1, <5>2 DEF AcInviteLives
      <4>. QED BY <4>2, <4>3
    <3>5. acNoted \subseteq {o \in AcUsers: acUser'[o] = "active"}
      BY <1>0, <3>1 DEF AcLive, AcTypes
    <3>. QED BY <3>1, <3>2, <3>3, <3>4, <3>5 DEF AcLive
  <2>. QED BY <2>1, <2>2
<1>16. CASE AcNext
  BY <1>3, <1>4, <1>5, <1>6, <1>7, <1>8, <1>9, <1>10, <1>11, <1>12, <1>13, <1>14, <1>15, <1>16 DEF AcNext, AcJobStep
<1>. QED BY <1>2, <1>16

LEMMA AcTypesKept == AcSpec => []AcTypeOK
<1>1. AcInv /\ AcLive => AcTypeOK
  BY DEF AcInv, AcTypes, AcLive, AcPlaced, AcDefaults, AcInviteLives, AcTypeOK
<1>. QED BY <1>1, AcInvariant, AcInitLive, AcLiveStep, PTL DEF AcSpec

------------------------------------------------------------------------------
(* The composition.                                                          *)
LEMMA SvInitAll ==
  SvInit => StInit /\ AcInit /\ EnInit /\ DmInit /\ PdInit /\ AlInit /\ LnInit /\ ChInit /\ GtInit /\ RgInit
BY DEF SvInit

LEMMA SvStepAll ==
  [SvNext]_svVars => /\ [StNext]_stVars /\ [AcNext]_acVars /\ [EnNext]_enVars_ /\ [DmNext]_dmVars
                     /\ [PdNext]_pdVars /\ [AlNext]_alVars /\ [LnNext]_lnVars /\ [ChNext]_chVars
                     /\ [GtNext]_gtVars /\ [RgNext]_rgVars
BY DEF SvNext, SvOnly, svVars

(* The composition implements the specification of every component: the      *)
(* others' steps leave its state alone, so that each sees one of its own     *)
(* behaviours and what is proved of it alone holds among the others.         *)
THEOREM ServicesImplement ==
  SvSpec => /\ StSpec /\ AcSpec /\ EnSpec /\ DmSpec /\ PdSpec
            /\ AlSpec /\ LnSpec /\ ChSpec /\ GtSpec /\ RgSpec
BY SvInitAll, SvStepAll, PTL
   DEF SvSpec, StSpec, AcSpec, EnSpec, DmSpec, PdSpec, AlSpec, LnSpec, ChSpec, GtSpec, RgSpec

(* Every value of every component has its type, every counter stays within   *)
(* its bound and every reference of the accounts is to a row that is there.  *)
THEOREM ServicesTyped ==
  ASSUME IsFiniteSet(ChIds)
  PROVE  SvSpec => []ServicesTypeOK
<1>1. ChSpec => []ChTypeOK
  BY ChTypesKept
<1>. QED BY <1>1, ServicesImplement, StTypesKept, AcTypesKept, EnTypesKept, DmTypesKept, PdTypesKept,
            AlTypesKept, LnTypesKept, GtTypesKept, RgTypesKept, PTL
         DEF ServicesTypeOK

(* Every safety property stated of a component holds of the composition.     *)
THEOREM ServicesSafe ==
  ASSUME "true" \notin RgCatalogEnabled
  PROVE  SvSpec => /\ [](StPasswordAgrees /\ StNothingLeft /\ StGoodKept)
                   /\ [](AcOwnerKept /\ AcOncePerTeam) /\ AcRevokedStays
                   /\ [](EnSlugsUnique /\ EnProdServed /\ EnVarsOwn)
                   /\ [](DmOneActive /\ DmProven /\ DmServed)
                   /\ [](PdNoOrphan /\ RgOverridesWin)
                   /\ [](LnSecretsWork /\ LnPathsMounted /\ LnFenced)
                   /\ [](ChAnsweredOnce /\ GtAnswersFresh) /\ ChOneTime /\ AlLoginFresh
<1>1. RgSpec => []RgOverridesWin
  BY RgOverridesWinHolds
<1>. QED BY <1>1, ServicesImplement, StPasswordAgreesHolds, StNothingLeftHolds, StGoodKeptHolds,
            AcOwnerKeptHolds, AcOncePerTeamHolds, AcRevokedStaysHolds,
            EnSlugsUniqueHolds, EnProdServedHolds, EnVarsOwnHolds,
            DmOneActiveHolds, DmProvenHolds, DmServedHolds, PdNoOrphanHolds,
            LnSecretsWorkHolds, LnPathsMountedHolds, LnFencedHolds,
            ChAnsweredOnceHolds, GtAnswersFreshHolds, ChImplementsToken, AlLoginFreshHolds, PTL

====
