---------------------------- MODULE SecurityProofs ----------------------------
(* Theorems about who is let in: Challenge for any number of challenges and  *)
(* verify requests and any lifetimes, Gate for any number of processes and   *)
(* any lifetimes, Allowlist for any rules, logins and changes.               *)
EXTENDS Challenge, Gate, Allowlist, FiniteSetTheorems, TLAPS

(* Challenge.                                                                *)

ChTyped ==
  /\ chNow \in Nat
  /\ chLoad \in [count: Int, until: Nat]
  /\ chIssues \in [ChIds -> {"unissued", "bumped", "stored", "booted"}]
  /\ chKeys \in [ChIds -> Nat]
  /\ chBoots \in [ChIds -> Nat]
  /\ chKnown \subseteq ChIds
  /\ chVerifies \in [ChRequests -> [pc: {"idle", "drop", "zero", "answer"}, id: ChIds, ok: BOOLEAN]]
  /\ chPasses \in [ChIds -> Nat]
  /\ chLapsed \in BOOLEAN

ChStored(i) == chIssues[i] \in {"stored", "booted"}
ChWorking(r) == chVerifies[r].pc # "idle"

(* A challenge is in one place at a time: open in Redis, held by the request *)
(* that took it, or worth the pass it brought.                               *)
ChPlaces ==
  /\ \A i \in ChIds: chKeys[i] > 0 \/ i \in chKnown => ChStored(i)
  /\ \A i \in ChIds: chBoots[i] > 0 => ChStored(i)
  /\ \A r \in ChRequests: ChWorking(r) =>
       /\ ChStored(chVerifies[r].id)
       /\ chKeys[chVerifies[r].id] = 0 /\ chPasses[chVerifies[r].id] = 0
  /\ \A r, s \in ChRequests: ChWorking(r) /\ ChWorking(s) /\ chVerifies[r].id = chVerifies[s].id => r = s
  /\ \A i \in ChIds: chPasses[i] > 0 => ChStored(i) /\ chKeys[i] = 0
  /\ \A i \in ChIds: chPasses[i] <= 1

(* The counter counts the challenges that are open, each once.               *)
ChCounted ==
  /\ IsFiniteSet(chOpen)
  /\ \A i \in chOpen: i \in ChIds /\ chIssues[i] # "unissued"
  /\ \A i \in ChIds: chKeys[i] > 0 => i \in chOpen
  /\ \A i \in ChIds: chIssues[i] = "bumped" => i \in chOpen
  /\ \A r \in ChRequests: chVerifies[r].pc = "drop" => chVerifies[r].id \in chOpen
  /\ \A r \in ChRequests: chVerifies[r].pc = "zero" => chLapsed
  /\ chLoad.count <= Cardinality(chOpen)
  /\ ~chLapsed => chLoad.count = Cardinality(chOpen)

ChInv == ChTyped /\ ChPlaces /\ ChCounted

LEMMA ChIdleType == ChIdle \in [pc: {"idle", "drop", "zero", "answer"}, id: ChIds, ok: BOOLEAN]
BY ChAssumption DEF ChIdle

LEMMA ChInitInv == ChInit => ChInv
<1>. SUFFICES ASSUME ChInit PROVE ChInv
  OBVIOUS
<1>0. chVerifies \in [ChRequests -> [pc: {"idle", "drop", "zero", "answer"}, id: ChIds, ok: BOOLEAN]]
  BY ChIdleType DEF ChInit
<1>. chLoad \in [count: Int, until: Nat]
  BY DEF ChInit, ChNoLoad
<1>. chKeys \in [ChIds -> Nat] /\ chBoots \in [ChIds -> Nat] /\ chPasses \in [ChIds -> Nat]
  BY DEF ChInit
<1>. chIssues \in [ChIds -> {"unissued", "bumped", "stored", "booted"}]
  BY DEF ChInit
<1>. chNow \in Nat /\ chKnown \subseteq ChIds /\ chLapsed \in BOOLEAN
  BY DEF ChInit
<1>1. ChTyped
  BY <1>0 DEF ChTyped
<1>2. ChPlaces
  BY DEF ChInit, ChPlaces, ChStored, ChWorking, ChIdle
<1>3. ChCounted
  BY FS_EmptySet DEF ChInit, ChCounted, ChIdle, ChNoLoad
<1>. QED BY <1>1, <1>2, <1>3 DEF ChInv

(* Issuing: the first step counts the challenge, the second opens it.        *)
LEMMA ChBumpInv ==
  ASSUME ChInv, NEW i \in ChIds, ChBump(i)
  PROVE  ChInv'
<1>. USE DEF ChBump, ChIssuing
<1>1. ChTyped'
  BY ChAssumption DEF ChInv, ChTyped
<1>2. ChPlaces'
  BY DEF ChInv, ChTyped, ChPlaces, ChStored, ChWorking
<1>3. i \notin chOpen /\ IsFiniteSet(chOpen)
  BY DEF ChInv, ChCounted
<1>4. IsFiniteSet(chOpen') /\ Cardinality(chOpen') = Cardinality(chOpen) + 1
  BY <1>3, FS_AddElement
<1>5. chLoad'.count = chLoad.count + 1 /\ chLoad.count \in Int /\ Cardinality(chOpen) \in Nat
  BY <1>3, FS_CardinalityType DEF ChInv, ChTyped
<1>6. chLoad'.count <= Cardinality(chOpen') /\ (~chLapsed' => chLoad'.count = Cardinality(chOpen'))
  BY <1>4, <1>5 DEF ChInv, ChCounted
<1>7. ChCounted'
  BY <1>4, <1>6 DEF ChInv, ChTyped, ChCounted
<1>. QED BY <1>1, <1>2, <1>7 DEF ChInv

LEMMA ChStoreInv ==
  ASSUME ChInv, NEW i \in ChIds, ChStore(i)
  PROVE  ChInv'
<1>. USE DEF ChStore, ChIssuing
<1>1. ChTyped'
  BY ChAssumption DEF ChInv, ChTyped
<1>2. ~ChStored(i) /\ chPasses[i] = 0
  BY DEF ChInv, ChTyped, ChPlaces, ChStored
<1>3. \A r \in ChRequests: ChWorking(r) => chVerifies[r].id # i
  BY <1>2 DEF ChInv, ChPlaces
<1>4. ChPlaces'
  BY <1>2, <1>3 DEF ChInv, ChTyped, ChPlaces, ChStored, ChWorking
<1>5. ChCounted'
  BY DEF ChInv, ChTyped, ChCounted
<1>. QED BY <1>1, <1>4, <1>5 DEF ChInv

LEMMA ChBootInv ==
  ASSUME ChInv, NEW i \in ChIds, ChBoot(i)
  PROVE  ChInv'
<1>. USE DEF ChBoot, ChIssuing
<1>1. ChTyped'
  BY ChAssumption DEF ChInv, ChTyped
<1>2. ChPlaces'
  BY DEF ChInv, ChTyped, ChPlaces, ChStored, ChWorking
<1>3. ChCounted'
  BY DEF ChInv, ChTyped, ChCounted
<1>. QED BY <1>1, <1>2, <1>3 DEF ChInv

LEMMA ChReadBootInv ==
  ASSUME ChInv, NEW i \in ChIds, ChReadBoot(i)
  PROVE  ChInv'
BY DEF ChInv, ChTyped, ChPlaces, ChCounted, ChStored, ChWorking, ChReadBoot, ChHasBoot

(* Only one request takes a challenge, because taking it removes the key.    *)
LEMMA ChTakeInv ==
  ASSUME ChInv, NEW r \in ChRequests, NEW i \in ChIds, ChTake(r, i)
  PROVE  ChInv'
<1>. USE DEF ChTake, ChTaken
<1>1. ChTyped'
  BY DEF ChInv, ChTyped
<1>2. ChStored(i) /\ chPasses[i] = 0 /\ i \in chOpen
  BY DEF ChInv, ChTyped, ChPlaces, ChCounted
<1>3. \A s \in ChRequests: ChWorking(s) => chVerifies[s].id # i
  BY DEF ChInv, ChPlaces, ChTyped
<1>4. /\ chVerifies'[r].pc = "drop" /\ chVerifies'[r].id = i
      /\ \A s \in ChRequests: s # r => chVerifies'[s] = chVerifies[s]
  BY DEF ChInv, ChTyped
<1>5. chKeys'[i] = 0 /\ \A j \in ChIds: j # i => chKeys'[j] = chKeys[j]
  BY DEF ChInv, ChTyped
<1>6. ChPlaces'
  BY <1>2, <1>3, <1>4, <1>5 DEF ChInv, ChTyped, ChPlaces, ChStored, ChWorking
<1>7. ChCounted'
  BY <1>2, <1>4, <1>5 DEF ChInv, ChTyped, ChCounted
<1>. QED BY <1>1, <1>6, <1>7 DEF ChInv

LEMMA ChDropInv ==
  ASSUME ChInv, NEW r \in ChRequests, ChDrop(r)
  PROVE  ChInv'
<1>. DEFINE taken == chVerifies[r].id
<1>1. ChTyped'
  BY DEF ChDrop, ChInv, ChTyped
<1>2. /\ \A s \in ChRequests: s # r => chVerifies'[s] = chVerifies[s]
      /\ chVerifies'[r].id = taken /\ chVerifies'[r].pc \in {"zero", "answer"}
      /\ chVerifies'[r].pc = "zero" => chLapsed'
  BY DEF ChDrop, ChInv, ChTyped
<1>3. ChPlaces'
  BY <1>2 DEF ChDrop, ChInv, ChTyped, ChPlaces, ChStored, ChWorking
<1>4. IsFiniteSet(chOpen) /\ taken \in chOpen /\ chOpen' = chOpen \ {taken}
  BY DEF ChDrop, ChInv, ChCounted
<1>5. IsFiniteSet(chOpen') /\ Cardinality(chOpen') = Cardinality(chOpen) - 1
  BY <1>4, FS_RemoveElement
<1>6. chLoad'.count = chLoad.count - 1 /\ chLoad.count \in Int /\ Cardinality(chOpen) \in Nat
  BY <1>4, FS_CardinalityType DEF ChDrop, ChInv, ChTyped
<1>7. chLoad'.count <= Cardinality(chOpen') /\ (~chLapsed' => chLoad'.count = Cardinality(chOpen'))
  BY <1>5, <1>6 DEF ChDrop, ChInv, ChTyped, ChCounted
<1>8. /\ chKeys[taken] = 0 /\ chIssues[taken] # "bumped" /\ taken \in ChIds
      /\ \A s \in ChRequests: s # r /\ chVerifies[s].pc = "drop" => chVerifies[s].id # taken
  BY DEF ChDrop, ChInv, ChTyped, ChPlaces, ChStored, ChWorking
<1>9. /\ \A j \in ChIds: chKeys'[j] > 0 => j \in chOpen'
      /\ \A j \in ChIds: chIssues'[j] = "bumped" => j \in chOpen'
  BY <1>4, <1>8 DEF ChDrop, ChInv, ChCounted, ChTyped
<1>10. /\ \A s \in ChRequests: chVerifies'[s].pc = "drop" => chVerifies'[s].id \in chOpen'
       /\ \A s \in ChRequests: chVerifies'[s].pc = "zero" => chLapsed'
  BY <1>2, <1>4, <1>8 DEF ChDrop, ChInv, ChTyped, ChCounted
<1>11. \A j \in chOpen': j \in ChIds /\ chIssues'[j] # "unissued"
  BY <1>4 DEF ChDrop, ChInv, ChCounted
<1>12. ChCounted'
  BY <1>5, <1>7, <1>9, <1>10, <1>11 DEF ChCounted
<1>. QED BY <1>1, <1>3, <1>12 DEF ChInv

LEMMA ChZeroInv ==
  ASSUME ChInv, NEW r \in ChRequests, ChZero(r)
  PROVE  ChInv'
<1>1. ChTyped'
  BY ChAssumption DEF ChZero, ChInv, ChTyped
<1>2. ChPlaces'
  BY DEF ChZero, ChInv, ChTyped, ChPlaces, ChStored, ChWorking
<1>3. chLapsed /\ chLoad'.count = 0 /\ Cardinality(chOpen) \in Nat
  BY FS_CardinalityType DEF ChZero, ChInv, ChCounted
<1>4. ChCounted'
  BY <1>3 DEF ChZero, ChInv, ChTyped, ChCounted
<1>. QED BY <1>1, <1>2, <1>4 DEF ChInv

LEMMA ChAnswerInv ==
  ASSUME ChInv, NEW r \in ChRequests, ChAnswer(r)
  PROVE  ChInv'
<1>. DEFINE taken == chVerifies[r].id
<1>1. chVerifies[r].id \in ChIds /\ chPasses[taken] = 0 /\ chKeys[taken] = 0 /\ ChStored(taken)
  BY DEF ChAnswer, ChInv, ChTyped, ChPlaces, ChWorking
<1>2. chPasses' \in [ChIds -> Nat] /\ chBoots' \in [ChIds -> Nat]
  BY <1>1 DEF ChAnswer, ChInv, ChTyped
<1>3. ChTyped'
  BY <1>2, ChIdleType DEF ChAnswer, ChInv, ChTyped
<1>4. /\ chVerifies'[r].pc = "idle"
      /\ \A s \in ChRequests: s # r => chVerifies'[s] = chVerifies[s]
  BY DEF ChAnswer, ChInv, ChTyped, ChIdle
<1>5. \A j \in ChIds: /\ j # taken => chPasses'[j] = chPasses[j] /\ chBoots'[j] = chBoots[j]
                      /\ chPasses'[taken] <= 1 /\ (chBoots'[taken] > 0 => chBoots[taken] > 0)
  BY <1>1 DEF ChAnswer, ChInv, ChTyped
<1>6. \A s \in ChRequests: s # r /\ ChWorking(s) => chVerifies[s].id # taken
  BY DEF ChAnswer, ChInv, ChPlaces, ChWorking
<1>7. ChPlaces'
  BY <1>1, <1>4, <1>5, <1>6 DEF ChAnswer, ChInv, ChTyped, ChPlaces, ChStored, ChWorking
<1>8. ChCounted'
  BY <1>4 DEF ChAnswer, ChInv, ChTyped, ChCounted
<1>. QED BY <1>3, <1>7, <1>8 DEF ChInv

LEMMA ChDieInv ==
  ASSUME ChInv, NEW r \in ChRequests, ChDie(r)
  PROVE  ChInv'
<1>1. /\ chVerifies'[r].pc = "idle"
      /\ \A s \in ChRequests: s # r => chVerifies'[s] = chVerifies[s]
  BY DEF ChDie, ChInv, ChTyped, ChIdle
<1>2. ChTyped'
  BY ChIdleType DEF ChDie, ChInv, ChTyped
<1>3. ChPlaces'
  BY <1>1 DEF ChDie, ChInv, ChPlaces, ChStored, ChWorking
<1>4. ChCounted'
  BY <1>1 DEF ChDie, ChInv, ChCounted
<1>. QED BY <1>2, <1>3, <1>4 DEF ChInv

LEMMA ChTickInv ==
  ASSUME ChInv, ChTick
  PROVE  ChInv'
<1>1. \A i \in ChIds: /\ chKeys'[i] \in {0, chKeys[i]}
                      /\ chBoots'[i] \in {0, chBoots[i]}
  BY DEF ChTick, ChLiving
<1>2. ChTyped'
  BY DEF ChTick, ChLiving, ChNoLoad, ChInv, ChTyped
<1>3. ChPlaces'
  BY <1>1 DEF ChTick, ChInv, ChTyped, ChPlaces, ChStored, ChWorking
<1>4. Cardinality(chOpen) \in Nat
  BY FS_CardinalityType DEF ChInv, ChCounted
<1>5. chLoad'.count <= Cardinality(chOpen) /\ (~chLapsed' => chLoad'.count = Cardinality(chOpen))
  <2>1. CASE chLoad.until = chNow + 1
    <3>1. chLoad'.count = 0
      BY <2>1 DEF ChTick, ChNoLoad
    <3>2. chLapsed'
      BY <2>1 DEF ChTick, ChInv, ChTyped
    <3>. QED BY <1>4, <3>1, <3>2
  <2>2. CASE chLoad.until # chNow + 1
    <3>1. chLoad' = chLoad
      BY <2>2 DEF ChTick
    <3>2. ~chLapsed' => ~chLapsed
      BY DEF ChTick, ChInv, ChTyped
    <3>. QED BY <3>1, <3>2 DEF ChInv, ChCounted
  <2>. QED BY <2>1, <2>2
<1>6. ChCounted'
  BY <1>1, <1>5 DEF ChTick, ChInv, ChTyped, ChCounted
<1>. QED BY <1>2, <1>3, <1>6 DEF ChInv

LEMMA ChStepInv == ChInv /\ [ChNext]_chVars => ChInv'
<1>. SUFFICES ASSUME ChInv, [ChNext]_chVars PROVE ChInv'
  OBVIOUS
<1>1. CASE \E i \in ChIds: ChBump(i) \/ ChStore(i) \/ ChBoot(i) \/ ChReadBoot(i)
  BY <1>1, ChBumpInv, ChStoreInv, ChBootInv, ChReadBootInv
<1>2. ASSUME NEW r \in ChRequests,
             (\E i \in ChIds: ChTake(r, i)) \/ ChDrop(r) \/ ChZero(r) \/ ChAnswer(r) \/ ChDie(r)
      PROVE  ChInv'
  BY <1>2, ChTakeInv, ChDropInv, ChZeroInv, ChAnswerInv, ChDieInv
<1>3. CASE ChTick
  BY <1>3, ChTickInv
<1>4. CASE UNCHANGED chVars
  BY <1>4 DEF chVars, ChInv, ChTyped, ChPlaces, ChCounted, ChStored, ChWorking
<1>. QED BY <1>1, <1>2, <1>3, <1>4 DEF ChNext

LEMMA ChInvariant == ChSpec => []ChInv
BY ChInitInv, ChStepInv, PTL DEF ChSpec

(* Whatever a browser sends, however often and to however many processes, a  *)
(* challenge brings one pass at most and is counted off once.                *)
THEOREM ChAnsweredOnceHolds == ChSpec => []ChAnsweredOnce
<1>1. ChInv => ChAnsweredOnce
  BY DEF ChInv, ChPlaces, ChCounted, ChAnsweredOnce
<1>. QED BY <1>1, ChInvariant, PTL
------------------------------------------------------------------------------
(* Challenge implements OneTimeToken: every command is a step of the token,  *)
(* or none. A challenge changes its state with its key.                      *)

LEMMA ChStateStays ==
  ASSUME ChInv, NEW i \in ChIds, chKeys'[i] = chKeys[i], ChStored(i)' = ChStored(i),
         chIssues'[i] \in {"unissued", "bumped", "stored", "booted"}
  PROVE  ChState(i)' = ChState(i)
<1>1. chIssues[i] \in {"unissued", "bumped", "stored", "booted"}
  BY DEF ChInv, ChTyped
<1>. QED BY <1>1 DEF ChState, ChStored

LEMMA ChInitToken == ChInit => Token!OtInit
<1>. SUFFICES ASSUME ChInit PROVE Token!OtInit
  OBVIOUS
<1>1. \A i \in ChIds: ChState(i) = "unissued"
  BY DEF ChInit, ChState
<1>. QED BY <1>1 DEF ChInit, Token!OtInit

(* Steps that change no key, no pass and no store.                           *)
LEMMA ChTokenStays ==
  ASSUME ChInv, ChInv', chKeys' = chKeys, chPasses' = chPasses,
         \A i \in ChIds: ChStored(i)' = ChStored(i)
  PROVE  UNCHANGED Token!otVars
<1>1. \A i \in ChIds: ChState(i)' = ChState(i)
  BY ChStateStays DEF ChInv, ChTyped
<1>. QED BY <1>1 DEF Token!otVars

LEMMA ChStoreToken ==
  ASSUME ChInv, ChInv', NEW i \in ChIds, ChStore(i)
  PROVE  Token!OtIssue(i)
<1>1. chIssues[i] = "bumped" /\ chIssues'[i] = "stored" /\ chKeys'[i] > 0 /\ chPasses' = chPasses
  BY ChAssumption DEF ChStore, ChIssuing, ChInv, ChTyped
<1>2. ChState(i) = "unissued" /\ ChState(i)' = "open"
  BY <1>1 DEF ChState
<1>3. \A j \in ChIds \ {i}: ChState(j)' = ChState(j)
  BY ChStateStays DEF ChStore, ChIssuing, ChInv, ChTyped, ChStored
<1>. QED BY <1>1, <1>2, <1>3 DEF Token!OtIssue, Token!OtMove

LEMMA ChTakeToken ==
  ASSUME ChInv, ChInv', NEW r \in ChRequests, NEW i \in ChIds, ChTake(r, i)
  PROVE  Token!OtSpend(i)
<1>1. /\ ChStored(i) /\ chKeys[i] > 0 /\ chKeys'[i] = 0
      /\ chPasses' = chPasses /\ chIssues' = chIssues
  BY DEF ChTake, ChTaken, ChInv, ChTyped, ChPlaces
<1>2. ChState(i) = "open" /\ ChState(i)' = "spent"
  BY <1>1 DEF ChState, ChStored
<1>3. \A j \in ChIds \ {i}: ChState(j)' = ChState(j)
  BY ChStateStays DEF ChTake, ChTaken, ChInv, ChTyped, ChStored
<1>. QED BY <1>1, <1>2, <1>3 DEF Token!OtSpend, Token!OtMove

LEMMA ChAnswerToken ==
  ASSUME ChInv, ChInv', NEW r \in ChRequests, ChAnswer(r)
  PROVE  [Token!OtNext]_(Token!otVars)
<1>. DEFINE taken == chVerifies[r].id
<1>1. /\ taken \in ChIds /\ ChStored(taken) /\ chKeys[taken] = 0 /\ chPasses[taken] = 0
      /\ chIssues' = chIssues /\ chKeys' = chKeys
  BY DEF ChAnswer, ChInv, ChTyped, ChPlaces, ChWorking
<1>2. \A j \in ChIds: ChState(j)' = ChState(j)
  BY <1>1, ChStateStays DEF ChStored, ChInv, ChTyped
<1>3. ChState(taken) = "spent"
  BY <1>1 DEF ChState, ChStored
<1>4. CASE chVerifies[r].ok
  <2>1. chPasses' = [chPasses EXCEPT ![taken] = 1]
    BY <1>1, <1>4 DEF ChAnswer, ChInv, ChTyped
  <2>2. Token!OtRedeem(taken)
    BY <1>1, <1>2, <1>3, <2>1 DEF Token!OtRedeem
  <2>. QED BY <1>1, <2>2 DEF Token!OtNext
<1>5. CASE ~chVerifies[r].ok
  BY <1>2, <1>5 DEF ChAnswer, Token!otVars
<1>. QED BY <1>4, <1>5

LEMMA ChTickToken ==
  ASSUME ChInv, ChInv', ChTick
  PROVE  [Token!OtNext]_(Token!otVars)
<1>. DEFINE lapsed == {i \in ChIds: chKeys[i] > 0 /\ chKeys'[i] = 0}
<1>1. chIssues' = chIssues /\ chPasses' = chPasses
  BY DEF ChTick
<1>2. \A j \in ChIds \ lapsed: chKeys'[j] = chKeys[j]
  BY DEF ChTick, ChLiving, ChInv, ChTyped
<1>3. \A j \in ChIds \ lapsed: ChState(j)' = ChState(j)
  BY <1>1, <1>2, ChStateStays DEF ChStored, ChInv, ChTyped
<1>4. \A i \in lapsed: ChState(i) = "open" /\ ChState(i)' = "spent"
  BY <1>1 DEF ChInv, ChPlaces, ChState, ChStored
<1>5. CASE lapsed = {}
  BY <1>1, <1>3, <1>5 DEF Token!otVars
<1>6. CASE lapsed # {}
  <2>1. Token!OtLapse(lapsed)
    BY <1>1, <1>3, <1>4, <1>6 DEF Token!OtLapse
  <2>. QED BY <2>1 DEF Token!OtNext
<1>. QED BY <1>5, <1>6

LEMMA ChStepToken == ChInv /\ ChInv' /\ [ChNext]_chVars => [Token!OtNext]_(Token!otVars)
<1>. SUFFICES ASSUME ChInv, ChInv', [ChNext]_chVars PROVE [Token!OtNext]_(Token!otVars)
  OBVIOUS
<1>1. ASSUME NEW i \in ChIds, ChBump(i) PROVE UNCHANGED Token!otVars
  BY <1>1, ChTokenStays DEF ChBump, ChIssuing, ChInv, ChTyped, ChStored
<1>2. ASSUME NEW i \in ChIds, ChStore(i) PROVE Token!OtNext
  BY <1>2, ChStoreToken DEF Token!OtNext
<1>3. ASSUME NEW i \in ChIds, ChBoot(i) PROVE UNCHANGED Token!otVars
  BY <1>3, ChTokenStays DEF ChBoot, ChIssuing, ChInv, ChTyped, ChStored
<1>4. ASSUME NEW i \in ChIds, ChReadBoot(i) PROVE UNCHANGED Token!otVars
  BY <1>4, ChTokenStays DEF ChReadBoot, ChStored
<1>5. ASSUME NEW r \in ChRequests, NEW i \in ChIds, ChTake(r, i) PROVE Token!OtNext
  BY <1>5, ChTakeToken DEF Token!OtNext
<1>6. ASSUME NEW r \in ChRequests, ChDrop(r) \/ ChZero(r) \/ ChDie(r) PROVE UNCHANGED Token!otVars
  BY <1>6, ChTokenStays DEF ChDrop, ChZero, ChDie, ChStored
<1>7. ASSUME NEW r \in ChRequests, ChAnswer(r) PROVE [Token!OtNext]_(Token!otVars)
  BY <1>7, ChAnswerToken
<1>8. CASE ChTick
  BY <1>8, ChTickToken
<1>9. CASE UNCHANGED chVars
  BY <1>9, ChTokenStays DEF chVars, ChStored
<1>. QED BY <1>1, <1>2, <1>3, <1>4, <1>5, <1>6, <1>7, <1>8, <1>9 DEF ChNext

(* Challenge implements the abstract token: never open again once it was     *)
(* spent, and worth one pass, however its Redis commands interleave.         *)
THEOREM ChImplementsToken == ChSpec => ChOneTime
<1>1. ChInit => Token!OtInit
  BY ChInitToken
<1>2. ChInv /\ ChInv' /\ [ChNext]_chVars => [Token!OtNext]_(Token!otVars)
  BY ChStepToken
<1>. QED BY <1>1, <1>2, ChInvariant, PTL DEF ChSpec, ChOneTime, Token!OtSpec
-------------------------------------------------------------------------------
(* Gate.                                                                     *)

GtTtl(on) == IF on THEN GtAttackTtl ELSE GtOtherTtl

GtTyped ==
  /\ gtNow \in Nat
  /\ gtLevel \in [on: BOOLEAN, since: Int]
  /\ gtLevels \in [GtProcs -> [on: BOOLEAN, until: Nat]]
  /\ gtReading \in [GtProcs -> [pc: {"idle", "read"}, on: BOOLEAN, at: Nat]]
  /\ gtCookie \in [until: Nat, here: BOOLEAN]
  /\ gtPasses \in [GtProcs -> Nat]
  /\ gtMoved \in Nat

(* A level that was read is at most a query old, and one that has changed    *)
(* since has changed after it was read.                                      *)
GtReadOk(p) ==
  gtReading[p].pc = "read" =>
    /\ gtReading[p].at <= gtNow /\ gtNow <= gtReading[p].at + 1
    /\ gtReading[p].on = gtLevel.on \/ gtReading[p].at <= gtLevel.since

(* A cached level lives, but not longer than its lifetime, and one that has  *)
(* changed since not longer than that after the change.                      *)
GtLevelOk(p) ==
  gtLevels[p].until > 0 =>
    /\ gtNow < gtLevels[p].until
    /\ gtLevels[p].until <= gtNow + GtTtl(gtLevels[p].on)
    /\ \/ gtLevels[p].on = gtLevel.on
       \/ gtLevels[p].until <= gtLevel.since + GtTtl(gtLevels[p].on) + 1

(* So does a cached pass of a browser that has moved.                        *)
GtPassOk(p) ==
  gtPasses[p] > 0 =>
    /\ gtNow < gtCookie.until
    /\ gtPasses[p] <= gtNow + GtPassCacheTtl
    /\ gtCookie.here \/ gtPasses[p] <= gtMoved + GtPassCacheTtl

GtInv ==
  /\ GtTyped
  /\ gtLevel.since <= gtNow
  /\ gtCookie.here => gtNow < gtCookie.until
  /\ \A p \in GtProcs: GtReadOk(p) /\ GtLevelOk(p) /\ GtPassOk(p)

LEMMA GtTtlType == \A on \in BOOLEAN: GtTtl(on) \in Nat \ {0}
BY GtAssumption DEF GtTtl

LEMMA GtInitInv == GtInit => GtInv
<1>. SUFFICES ASSUME GtInit PROVE GtInv
  OBVIOUS
<1>. USE GtAssumption DEF GtInit, GtNoLevel, GtNoReading, GtNoCookie
<1>1. GtTyped
  BY DEF GtTyped
<1>2. gtLevel.since <= gtNow
  OBVIOUS
<1>3. ASSUME NEW p \in GtProcs PROVE GtReadOk(p) /\ GtLevelOk(p) /\ GtPassOk(p)
  <2>1. gtReading[p].pc = "idle" /\ gtLevels[p].until = 0 /\ gtPasses[p] = 0
    OBVIOUS
  <2>. QED BY <2>1 DEF GtReadOk, GtLevelOk, GtPassOk
<1>. QED BY <1>1, <1>2, <1>3 DEF GtInv

LEMMA GtSetLevelInv ==
  ASSUME GtInv, GtSetLevel
  PROVE  GtInv'
<1>. USE DEF GtSetLevel
<1>1. GtTyped'
  BY DEF GtInv, GtTyped
<1>2. gtLevel'.since <= gtNow' /\ gtLevel'.since = gtNow
  BY DEF GtInv, GtTyped
<1>3. ASSUME NEW p \in GtProcs PROVE GtReadOk(p)' /\ GtLevelOk(p)' /\ GtPassOk(p)'
  <2>1. GtReadOk(p)'
    BY <1>2 DEF GtInv, GtTyped, GtReadOk
  <2>2. GtTtl(gtLevels[p].on) \in Nat /\ gtLevels[p] \in [on: BOOLEAN, until: Nat]
    BY GtTtlType DEF GtInv, GtTyped
  <2>3. GtLevelOk(p)'
    BY <1>2, <2>2 DEF GtInv, GtTyped, GtLevelOk
  <2>4. GtPassOk(p)'
    BY DEF GtInv, GtPassOk
  <2>. QED BY <2>1, <2>3, <2>4
<1>. QED BY <1>1, <1>2, <1>3 DEF GtInv

LEMMA GtReadInv ==
  ASSUME GtInv, NEW p \in GtProcs, GtRead(p)
  PROVE  GtInv'
<1>. USE DEF GtRead
<1>1. GtTyped'
  BY DEF GtInv, GtTyped
<1>2. ASSUME NEW q \in GtProcs PROVE GtReadOk(q)' /\ GtLevelOk(q)' /\ GtPassOk(q)'
  BY DEF GtInv, GtTyped, GtReadOk, GtLevelOk, GtPassOk
<1>. QED BY <1>1, <1>2 DEF GtInv

LEMMA GtCacheInv ==
  ASSUME GtInv, NEW p \in GtProcs, GtCache(p)
  PROVE  GtInv'
<1>. DEFINE on == gtReading[p].on
<1>1. on \in BOOLEAN /\ GtTtl(on) \in Nat \ {0}
  BY GtTtlType DEF GtInv, GtTyped
<1>2. GtCached(on) = [on |-> on, until |-> gtNow + GtTtl(on)]
  BY DEF GtCached, GtTtl
<1>3. GtNoReading \in [pc: {"idle", "read"}, on: BOOLEAN, at: Nat] /\ GtNoReading.pc = "idle"
  BY DEF GtNoReading
<1>4. GtTyped'
  BY <1>1, <1>2, <1>3 DEF GtCache, GtInv, GtTyped
<1>5. /\ gtLevels'[p] = [on |-> on, until |-> gtNow + GtTtl(on)]
      /\ gtReading'[p].pc = "idle"
      /\ \A q \in GtProcs: q # p => gtLevels'[q] = gtLevels[q] /\ gtReading'[q] = gtReading[q]
  BY <1>2, <1>3 DEF GtCache, GtInv, GtTyped
<1>6. GtLevelOk(p)'
  <2>1. on = gtLevel.on \/ gtNow <= gtLevel.since + 1
    BY DEF GtCache, GtInv, GtTyped, GtReadOk
  <2>. QED BY <1>1, <1>5, <2>1 DEF GtCache, GtInv, GtTyped, GtLevelOk
<1>7. ASSUME NEW q \in GtProcs PROVE GtReadOk(q)' /\ GtLevelOk(q)' /\ GtPassOk(q)'
  BY <1>5, <1>6 DEF GtCache, GtInv, GtReadOk, GtLevelOk, GtPassOk
<1>. QED BY <1>4, <1>7 DEF GtCache, GtInv

LEMMA GtForwardAuthInv ==
  ASSUME GtInv, NEW p \in GtProcs, GtForwardAuth(p)
  PROVE  GtInv'
<1>. USE GtAssumption DEF GtForwardAuth, GtSeen, GtValid
<1>1. GtTyped'
  BY DEF GtInv, GtTyped
<1>2. ASSUME NEW q \in GtProcs PROVE GtReadOk(q)' /\ GtLevelOk(q)' /\ GtPassOk(q)'
  <2>1. GtReadOk(q)' /\ GtLevelOk(q)'
    BY DEF GtInv, GtReadOk, GtLevelOk
  <2>2. GtPassOk(q)'
    BY DEF GtInv, GtTyped, GtPassOk
  <2>. QED BY <2>1, <2>2
<1>. QED BY <1>1, <1>2 DEF GtInv

LEMMA GtPassInv ==
  ASSUME GtInv, NEW p \in GtProcs, GtPass(p)
  PROVE  GtInv'
<1>. USE GtAssumption DEF GtPass
<1>1. GtTyped'
  BY DEF GtInv, GtTyped
<1>2. gtNow' < gtCookie'.until
  BY DEF GtInv, GtTyped
<1>3. ASSUME NEW q \in GtProcs PROVE GtReadOk(q)' /\ GtLevelOk(q)' /\ GtPassOk(q)'
  BY DEF GtInv, GtReadOk, GtLevelOk, GtPassOk
<1>. QED BY <1>1, <1>2, <1>3 DEF GtInv

LEMMA GtMoveInv ==
  ASSUME GtInv, GtMove
  PROVE  GtInv'
<1>. USE GtAssumption DEF GtMove
<1>1. GtTyped'
  BY DEF GtInv, GtTyped
<1>2. ASSUME NEW q \in GtProcs PROVE GtReadOk(q)' /\ GtLevelOk(q)' /\ GtPassOk(q)'
  <2>1. GtReadOk(q)' /\ GtLevelOk(q)'
    BY DEF GtInv, GtReadOk, GtLevelOk
  <2>2. GtPassOk(q)'
    BY DEF GtInv, GtTyped, GtPassOk
  <2>. QED BY <2>1, <2>2
<1>. QED BY <1>1, <1>2 DEF GtInv, GtTyped

LEMMA GtForgetInv ==
  ASSUME GtInv, NEW p \in GtProcs, GtForget(p)
  PROVE  GtInv'
<1>. USE DEF GtForget, GtNoLevel
<1>1. GtTyped'
  BY DEF GtInv, GtTyped
<1>2. ASSUME NEW q \in GtProcs PROVE GtReadOk(q)' /\ GtLevelOk(q)' /\ GtPassOk(q)'
  BY DEF GtInv, GtTyped, GtReadOk, GtLevelOk, GtPassOk
<1>. QED BY <1>1, <1>2 DEF GtInv

(* Time passes only while no query is longer under way than it takes, and    *)
(* what expires is dropped.                                                  *)
LEMMA GtTickInv ==
  ASSUME GtInv, GtTick
  PROVE  GtInv'
<1>1. gtNow' = gtNow + 1 /\ gtNow \in Nat /\ gtLevel' = gtLevel /\ gtReading' = gtReading /\ gtMoved' = gtMoved
  BY DEF GtTick, GtInv, GtTyped
<1>2. \A p \in GtProcs: \/ gtLevels'[p] = GtNoLevel
                        \/ gtLevels'[p] = gtLevels[p] /\ gtNow' < gtLevels[p].until
  BY DEF GtTick, GtInv, GtTyped
<1>3. \/ gtCookie' = GtNoCookie /\ \A p \in GtProcs: gtPasses'[p] = 0
      \/ /\ gtCookie' = gtCookie /\ gtNow' < gtCookie.until
         /\ \A p \in GtProcs: gtPasses'[p] \in {0, gtPasses[p]}
  BY DEF GtTick, GtInv, GtTyped
<1>4. GtTyped'
  <2>1. gtLevels' \in [GtProcs -> [on: BOOLEAN, until: Nat]]
    BY DEF GtTick, GtNoLevel, GtInv, GtTyped
  <2>2. gtCookie' \in [until: Nat, here: BOOLEAN]
    <3>1. GtNoCookie \in [until: Nat, here: BOOLEAN]
      BY DEF GtNoCookie
    <3>2. gtCookie' \in {GtNoCookie, gtCookie}
      BY <1>3
    <3>. QED BY <3>1, <3>2 DEF GtInv, GtTyped
  <2>3. gtPasses' \in [GtProcs -> Nat]
    BY DEF GtTick, GtInv, GtTyped
  <2>. QED BY <1>1, <2>1, <2>2, <2>3 DEF GtInv, GtTyped
<1>5. ASSUME NEW p \in GtProcs PROVE GtReadOk(p)' /\ GtLevelOk(p)' /\ GtPassOk(p)'
  <2>1. GtReadOk(p)'
    BY <1>1 DEF GtTick, GtInv, GtTyped, GtReadOk
  <2>2. GtLevelOk(p)'
    <3>1. CASE gtLevels'[p] = GtNoLevel
      BY <3>1 DEF GtNoLevel, GtLevelOk
    <3>2. CASE gtLevels'[p] = gtLevels[p] /\ gtNow' < gtLevels[p].until
      <4>1. GtTtl(gtLevels[p].on) \in Nat /\ gtLevels[p].until \in Nat /\ gtLevel.since \in Int
        BY GtTtlType DEF GtInv, GtTyped
      <4>. QED BY <1>1, <3>2, <4>1 DEF GtInv, GtLevelOk
    <3>. QED BY <1>2, <3>1, <3>2
  <2>3. GtPassOk(p)'
    BY <1>1, <1>3, GtAssumption DEF GtInv, GtTyped, GtPassOk
  <2>. QED BY <2>1, <2>2, <2>3
<1>6. gtLevel'.since <= gtNow' /\ (gtCookie'.here => gtNow' < gtCookie'.until)
  BY <1>1, <1>3 DEF GtNoCookie, GtInv, GtTyped
<1>. QED BY <1>4, <1>5, <1>6 DEF GtInv

LEMMA GtStepInv == GtInv /\ [GtNext]_gtVars => GtInv'
<1>. SUFFICES ASSUME GtInv, [GtNext]_gtVars PROVE GtInv'
  OBVIOUS
<1>1. CASE GtSetLevel \/ GtMove \/ GtTick
  BY <1>1, GtSetLevelInv, GtMoveInv, GtTickInv
<1>2. ASSUME NEW p \in GtProcs,
             GtRead(p) \/ GtCache(p) \/ GtForwardAuth(p) \/ GtPass(p) \/ GtForget(p)
      PROVE  GtInv'
  BY <1>2, GtReadInv, GtCacheInv, GtForwardAuthInv, GtPassInv, GtForgetInv
<1>3. CASE UNCHANGED gtVars
  BY <1>3 DEF gtVars, GtInv, GtTyped, GtReadOk, GtLevelOk, GtPassOk
<1>. QED BY <1>1, <1>2, <1>3 DEF GtNext

LEMMA GtInvariant == GtSpec => []GtInv
BY GtInitInv, GtStepInv, PTL DEF GtSpec

LEMMA GtFresh == GtInv => GtAnswersFresh
<1>. SUFFICES ASSUME GtInv, NEW p \in GtProcs
              PROVE  /\ GtAnswer(p) = "through" =>
                          \/ GtValid
                          \/ gtNow < gtCookie.until /\ gtNow < gtMoved + GtPassCacheTtl
                          \/ ~gtLevel.on
                          \/ gtNow <= gtLevel.since + GtOtherTtl + 1
                     /\ GtAnswer(p) = "challenge" =>
                          ~GtValid /\ (gtLevel.on \/ gtNow <= gtLevel.since + GtAttackTtl + 1)
  BY DEF GtAnswersFresh
<1>. USE GtAssumption
<1>1. GtPassed(p) => \/ GtValid
                     \/ gtNow < gtCookie.until /\ gtNow < gtMoved + GtPassCacheTtl
  BY DEF GtPassed, GtValid, GtInv, GtTyped, GtPassOk
<1>2. gtLevels[p].until > 0 /\ ~gtLevels[p].on =>
        ~gtLevel.on \/ gtNow <= gtLevel.since + GtOtherTtl + 1
  BY DEF GtInv, GtTyped, GtLevelOk, GtTtl
<1>3. gtLevels[p].until > 0 /\ gtLevels[p].on =>
        gtLevel.on \/ gtNow <= gtLevel.since + GtAttackTtl + 1
  BY DEF GtInv, GtTyped, GtLevelOk, GtTtl
<1>4. ~GtPassed(p) => ~GtValid
  BY DEF GtPassed, GtValid
<1>5. gtLevels[p].until \in Nat
  BY DEF GtInv, GtTyped
<1>. QED BY <1>1, <1>2, <1>3, <1>4, <1>5 DEF GtAnswer

(* However its processes' caches disagree, a protected host lets a browser   *)
(* through and challenges it only on grounds no older than a cache's         *)
(* lifetime and a query.                                                     *)
THEOREM GtAnswersFreshHolds == GtSpec => []GtAnswersFresh
BY GtInvariant, GtFresh, PTL
-------------------------------------------------------------------------------
(* Allowlist.                                                                *)

AlRow == [rule: AlRules, at: Nat]
AlLatest(rows) == IF rows = {} THEN 0 ELSE Max({r.at: r \in rows})

(* Rows made at one moment are committed at one.                             *)
AlTyped ==
  /\ alRows \subseteq AlRow /\ IsFiniteSet(alRows)
  /\ alAdding \subseteq AlRow /\ IsFiniteSet(alAdding)
  /\ alClock \in Nat
  /\ \A r \in alRows \cup alAdding: r.at \in 1..alClock
  /\ \A r \in alRows, a \in alAdding: r.at # a.at
  /\ alLogin \in [AlLogins -> [pc: {"idle", "rules", "answered"}, signature: Int \X Nat, admits: BOOLEAN]]
  /\ alMixed \in BOOLEAN

(* The copy is that of some rows of the past. While its latest row is there  *)
(* nothing older than that has come, and no row of that moment comes later.  *)
AlCopyOf(rows) ==
  /\ IsFiniteSet(rows) /\ \A r \in rows: r.at \in 1..alClock
  /\ alCache.signature = AlSignature(rows) /\ alCache.rules = AlIn(rows)
  /\ \A a \in alAdding: a.at # AlLatest(rows)
  /\ (\E r \in alRows: r.at = AlLatest(rows)) => \A r \in alRows: r.at <= AlLatest(rows) => r \in rows
AlCopied == alCache.signature = AlNoSignature \/ \E rows \in SUBSET AlRow: AlCopyOf(rows)

(* What a login reads in two queries is one state of the table.              *)
AlReadOnce == \A l \in AlLogins: alLogin[l].pc = "rules" => alLogin[l].signature = AlSignature(alRows)

AlInv == AlTyped /\ (~alMixed => AlCopied /\ AlReadOnce)

LEMMA AlMaxOf ==
  ASSUME NEW n \in Nat, NEW T \in SUBSET (1..n), T # {}
  PROVE  Max(T) \in T /\ \A k \in T: k <= Max(T)
<1>. DEFINE U == {n - k: k \in T}
<1>1. U \subseteq Nat /\ U # {}
  <2>1. \A k \in T: n - k \in Nat
    OBVIOUS
  <2>. QED BY <2>1
<1>2. PICK u \in U: \A v \in U: ~ (<<v, u>> \in OpToRel(<, Nat))
  BY <1>1, NatLessThanWellFounded, WFMin
<1>3. \A v \in U: ~ (v < u)
  BY <1>1, <1>2 DEF OpToRel
<1>4. PICK m \in T: u = n - m
  OBVIOUS
<1>5. \A k \in T: m >= k
  <2>1. SUFFICES ASSUME NEW k \in T PROVE m >= k
    OBVIOUS
  <2>2. ~(n - k < n - m)
    BY <1>3, <1>4
  <2>. QED BY <2>2
<1>. QED BY <1>5 DEF Max

LEMMA AlLatestOf ==
  ASSUME NEW rows \in SUBSET AlRow, NEW n \in Nat, \A r \in rows: r.at \in 1..n
  PROVE  /\ AlLatest(rows) \in Nat /\ AlLatest(rows) <= n
         /\ \A r \in rows: r.at <= AlLatest(rows)
         /\ rows # {} => \E r \in rows: r.at = AlLatest(rows)
<1>. DEFINE T == {r.at: r \in rows}
<1>1. CASE rows = {}
  BY <1>1 DEF AlLatest
<1>2. CASE rows # {}
  <2>1. T \in SUBSET (1..n) /\ T # {}
    BY <1>2
  <2>2. PICK m: m = Max(T)
    OBVIOUS
  <2>3. m \in T /\ \A k \in T: k <= m
    BY <2>1, <2>2, AlMaxOf
  <2>4. AlLatest(rows) = m
    BY <1>2, <2>2 DEF AlLatest
  <2>5. m \in Nat /\ m <= n
    BY <2>1, <2>3
  <2>. QED BY <2>3, <2>4, <2>5
<1>. QED BY <1>1, <1>2

LEMMA AlSignatureOf ==
  ASSUME NEW rows \in SUBSET AlRow, IsFiniteSet(rows), NEW n \in Nat, \A r \in rows: r.at \in 1..n
  PROVE  /\ AlSignature(rows) = <<Cardinality(rows), AlLatest(rows)>>
         /\ AlSignature(rows) \in Int \X Nat
         /\ AlSignature(rows) # AlNoSignature
<1>1. Cardinality(rows) \in Nat /\ AlLatest(rows) \in Nat
  BY FS_CardinalityType, AlLatestOf
<1>. QED BY <1>1 DEF AlSignature, AlLatest, AlNoSignature

(* The signature tells whether the copy is that of the rows.                 *)
LEMMA AlSame ==
  ASSUME AlTyped, NEW rows \in SUBSET AlRow, AlCopyOf(rows), AlSignature(alRows) = AlSignature(rows)
  PROVE  alRows = rows
<1>1. Cardinality(alRows) = Cardinality(rows) /\ AlLatest(alRows) = AlLatest(rows)
  BY AlSignatureOf DEF AlTyped, AlCopyOf
<1>2. CASE alRows = {}
  BY <1>1, <1>2, FS_EmptySet DEF AlCopyOf
<1>3. CASE alRows # {}
  <2>1. /\ \A r \in alRows: r.at <= AlLatest(rows)
        /\ \E r \in alRows: r.at = AlLatest(rows)
    BY <1>1, <1>3, AlLatestOf DEF AlTyped
  <2>2. alRows \subseteq rows
    BY <2>1 DEF AlCopyOf
  <2>. QED BY <1>1, <2>2, FS_Subset DEF AlCopyOf
<1>. QED BY <1>2, <1>3

LEMMA AlInitInv == AlInit => AlInv
<1>. SUFFICES ASSUME AlInit PROVE AlInv
  OBVIOUS
<1>1. AlNoSignature \in Int \X Nat
  BY DEF AlNoSignature
<1>2. [pc |-> "idle", signature |-> AlNoSignature, admits |-> FALSE]
        \in [pc: {"idle", "rules", "answered"}, signature: Int \X Nat, admits: BOOLEAN]
  BY <1>1
<1>3. AlTyped
  BY <1>2, FS_EmptySet DEF AlInit, AlTyped
<1>4. AlCopied /\ AlReadOnce
  BY DEF AlInit, AlCopied, AlReadOnce
<1>. QED BY <1>3, <1>4 DEF AlInv

(* Neither the copy nor a login changes.                                     *)
LEMMA AlRowsInv ==
  ASSUME AlInv, AlTyped', UNCHANGED <<alCache, alLogin>>, alClock <= alClock', alMixed => alMixed',
         ~alMixed' => /\ alRows' = alRows \/ \A l \in AlLogins: alLogin[l].pc # "rules"
                      /\ \A rows \in SUBSET AlRow: AlCopyOf(rows) => AlCopyOf(rows)'
  PROVE  AlInv'
BY DEF AlInv, AlCopied, AlReadOnce

LEMMA AlRowsFinite ==
  ASSUME NEW rules \in SUBSET AlRules, NEW at
  PROVE  IsFiniteSet({[rule |-> r, at |-> at]: r \in rules})
<1>. DEFINE rows == {[rule |-> r, at |-> at]: r \in rules}
<1>1. IsFiniteSet(rules)
  BY AlAssumption, FS_Subset
<1>2. PICK n \in Nat: ExistsSurjection(1..n, rules)
  BY <1>1, FS_NatSurjection
<1>3. PICK f \in [1..n -> rules]: \A r \in rules: \E i \in 1..n: f[i] = r
  BY <1>2 DEF ExistsSurjection, Surjection
<1>. DEFINE g == [i \in 1..n |-> [rule |-> f[i], at |-> at]]
<1>4. g \in [1..n -> rows] /\ \A x \in rows: \E i \in 1..n: g[i] = x
  BY <1>3
<1>5. ExistsSurjection(1..n, rows)
  BY <1>4 DEF ExistsSurjection, Surjection
<1>. QED BY <1>5, FS_NatSurjection

LEMMA AlAddInv == ASSUME AlInv, NEW rules \in SUBSET AlRules, AlAdd(rules) PROVE AlInv'
<1>. DEFINE rows == {[rule |-> r, at |-> alClock + 1]: r \in rules}
<1>1. /\ alClock' = alClock + 1 /\ alAdding' = alAdding \cup rows /\ alClock \in Nat
      /\ UNCHANGED <<alRows, alCache, alLogin, alMixed>>
  BY DEF AlAdd, AlInv, AlTyped
<1>2. IsFiniteSet(rows)
  BY AlRowsFinite
<1>3. rows \subseteq AlRow /\ \A r \in rows: r.at = alClock + 1
  BY <1>1 DEF AlRow
<1>. HIDE DEF rows
<1>4. IsFiniteSet(alAdding')
  BY <1>1, <1>2, FS_Union DEF AlInv, AlTyped
<1>5. \A r \in alRows' \cup alAdding': r.at \in 1..alClock'
  BY <1>1, <1>3 DEF AlInv, AlTyped
<1>6. \A r \in alRows', a \in alAdding': r.at # a.at
  BY <1>1, <1>3 DEF AlInv, AlTyped
<1>7. AlTyped'
  BY <1>1, <1>3, <1>4, <1>5, <1>6 DEF AlInv, AlTyped
<1>8. ASSUME NEW old \in SUBSET AlRow, AlCopyOf(old) PROVE AlCopyOf(old)'
  <2>1. AlLatest(old) \in Nat /\ AlLatest(old) <= alClock
    BY <1>1, <1>8, AlLatestOf DEF AlCopyOf
  <2>2. \A a \in alAdding': a.at # AlLatest(old)
    BY <1>1, <1>3, <1>8, <2>1 DEF AlCopyOf
  <2>3. \A r \in old: r.at \in 1..alClock'
    BY <1>1, <1>8 DEF AlCopyOf
  <2>. QED BY <1>1, <1>8, <2>2, <2>3 DEF AlCopyOf
<1>. QED BY <1>1, <1>7, <1>8, AlRowsInv

(* Rows that are committed are newer than every row that is there, or the    *)
(* order they were made in is broken.                                        *)
LEMMA AlAddedInv == ASSUME AlInv, NEW at \in Nat, AlAdded(at) PROVE AlInv'
<1>. DEFINE rows == {r \in alAdding: r.at = at}
<1>1. /\ alRows' = alRows \cup rows /\ alAdding' = alAdding \ rows
      /\ alMixed' = (alMixed \/ AlReading \/ \E r \in alRows \cup alAdding: r.at > at)
      /\ UNCHANGED <<alClock, alCache, alLogin>> /\ alClock \in Nat
  BY DEF AlAdded, AlInv, AlTyped
<1>2. rows \subseteq alAdding /\ \A r \in alAdding: r \in rows <=> r.at = at
  OBVIOUS
<1>. HIDE DEF rows
<1>3. IsFiniteSet(rows) /\ IsFiniteSet(alRows') /\ IsFiniteSet(alAdding')
  BY <1>1, <1>2, FS_Subset, FS_Union DEF AlInv, AlTyped
<1>4. alMixed' \in BOOLEAN
  BY <1>1 DEF AlInv, AlTyped, AlReading
<1>5. \A r \in alRows', a \in alAdding': r.at # a.at
  BY <1>1, <1>2 DEF AlInv, AlTyped
<1>6. AlTyped'
  BY <1>1, <1>2, <1>3, <1>4, <1>5 DEF AlInv, AlTyped
<1>7. ASSUME ~alMixed', NEW old \in SUBSET AlRow, AlCopyOf(old) PROVE AlCopyOf(old)'
  <2>1. AlLatest(old) \in Nat
    BY <1>1, <1>7, AlLatestOf DEF AlCopyOf
  <2>2. \A a \in alAdding': a.at # AlLatest(old)
    BY <1>1, <1>7 DEF AlCopyOf
  <2>3. ASSUME NEW r \in alRows', r.at = AlLatest(old) PROVE \A o \in alRows': o.at <= AlLatest(old) => o \in old
    <3>1. r \in alRows
      BY <1>1, <1>2, <1>7, <2>3 DEF AlCopyOf
    <3>2. AlLatest(old) <= at /\ AlLatest(old) # at
      <4>1. ~(r.at > at)
        BY <1>1, <1>7, <3>1
      <4>2. PICK a \in rows: TRUE
        BY DEF AlAdded, rows
      <4>3. at # AlLatest(old)
        BY <1>2, <1>7, <4>2 DEF AlCopyOf
      <4>. QED BY <2>1, <2>3, <4>1, <4>3
    <3>3. \A o \in rows: ~(o.at <= AlLatest(old))
      BY <1>2, <2>1, <3>2
    <3>. QED BY <1>1, <1>7, <2>3, <3>1, <3>3 DEF AlCopyOf
  <2>. QED BY <1>1, <1>7, <2>2, <2>3 DEF AlCopyOf
<1>8. ~alMixed' => \A l \in AlLogins: alLogin[l].pc # "rules"
  BY <1>1 DEF AlReading
<1>9. alMixed => alMixed'
  BY <1>1
<1>. QED BY <1>1, <1>6, <1>7, <1>8, <1>9, AlRowsInv

LEMMA AlDeleteInv == ASSUME AlInv, NEW r \in alRows, AlDelete(r) PROVE AlInv'
<1>1. /\ alRows' = alRows \ {r} /\ alMixed' = (alMixed \/ AlReading)
      /\ UNCHANGED <<alClock, alAdding, alCache, alLogin>> /\ alClock \in Nat
  BY DEF AlDelete, AlInv, AlTyped
<1>2. IsFiniteSet(alRows')
  BY <1>1, FS_Subset DEF AlInv, AlTyped
<1>3. alMixed' \in BOOLEAN /\ (alMixed => alMixed')
  BY <1>1 DEF AlInv, AlTyped, AlReading
<1>4. AlTyped'
  BY <1>1, <1>2, <1>3 DEF AlInv, AlTyped
<1>5. ASSUME NEW old \in SUBSET AlRow, AlCopyOf(old) PROVE AlCopyOf(old)'
  BY <1>1, <1>5 DEF AlCopyOf
<1>6. ~alMixed' => \A l \in AlLogins: alLogin[l].pc # "rules"
  BY <1>1 DEF AlReading
<1>. QED BY <1>1, <1>3, <1>4, <1>5, <1>6, AlRowsInv

(* Only logins change.                                                       *)
LEMMA AlLoginInv ==
  ASSUME AlInv, UNCHANGED <<alRows, alClock, alAdding, alCache, alMixed>>, NEW l \in AlLogins,
         NEW x \in [pc: {"idle", "rules", "answered"}, signature: Int \X Nat, admits: BOOLEAN],
         alLogin' = [alLogin EXCEPT ![l] = x],
         x.pc = "rules" => x.signature = AlSignature(alRows)
  PROVE  AlInv'
<1>1. \A o \in AlLogins: alLogin'[o] = IF o = l THEN x ELSE alLogin[o]
  BY DEF AlInv, AlTyped
<1>2. AlTyped'
  BY DEF AlInv, AlTyped
<1>3. AlReadOnce => AlReadOnce'
  BY <1>1 DEF AlReadOnce
<1>4. AlCopied => AlCopied'
  BY DEF AlCopied, AlCopyOf
<1>. QED BY <1>2, <1>3, <1>4 DEF AlInv

LEMMA AlDecided ==
  ASSUME NEW rules
  PROVE  [pc |-> "answered", signature |-> AlNoSignature, admits |-> AlAdmits(rules)]
           \in [pc: {"idle", "rules", "answered"}, signature: Int \X Nat, admits: BOOLEAN]
<1>1. AlNoSignature \in Int \X Nat /\ AlAdmits(rules) \in BOOLEAN
  BY DEF AlNoSignature, AlAdmits
<1>. QED BY <1>1

LEMMA AlConsultInv == ASSUME AlInv, NEW l \in AlLogins, AlConsult(l) PROVE AlInv'
<1>1. /\ UNCHANGED <<alRows, alClock, alAdding, alCache, alMixed>>
      /\ \/ AlDecide(l, alCache.rules)
         \/ alLogin' = [alLogin EXCEPT ![l].pc = "rules", ![l].signature = AlSignature(alRows)]
  BY DEF AlConsult
<1>2. CASE AlDecide(l, alCache.rules)
  <2>1. alLogin' = [alLogin EXCEPT ![l] = [pc |-> "answered", signature |-> AlNoSignature,
                                           admits |-> AlAdmits(alCache.rules)]]
    BY <1>2 DEF AlDecide
  <2>. QED BY <1>1, <2>1, AlDecided, AlLoginInv
<1>3. CASE alLogin' = [alLogin EXCEPT ![l].pc = "rules", ![l].signature = AlSignature(alRows)]
  <2>. DEFINE x == [alLogin[l] EXCEPT !.pc = "rules", !.signature = AlSignature(alRows)]
  <2>1. AlSignature(alRows) \in Int \X Nat
    BY AlSignatureOf DEF AlInv, AlTyped
  <2>2. /\ x \in [pc: {"idle", "rules", "answered"}, signature: Int \X Nat, admits: BOOLEAN]
        /\ x.pc = "rules" /\ x.signature = AlSignature(alRows)
    BY <2>1 DEF AlInv, AlTyped
  <2>3. alLogin' = [alLogin EXCEPT ![l] = x]
    BY <1>3 DEF AlInv, AlTyped
  <2>. HIDE DEF x
  <2>. QED BY <1>1, <2>2, <2>3, AlLoginInv
<1>. QED BY <1>1, <1>2, <1>3

LEMMA AlAgainInv == ASSUME AlInv, NEW l \in AlLogins, AlAgain(l) PROVE AlInv'
<1>. DEFINE x == [alLogin[l] EXCEPT !.pc = "idle", !.admits = FALSE]
<1>1. /\ UNCHANGED <<alRows, alClock, alAdding, alCache, alMixed>>
      /\ alLogin' = [alLogin EXCEPT ![l] = x]
  BY DEF AlAgain, AlInv, AlTyped
<1>2. x \in [pc: {"idle", "rules", "answered"}, signature: Int \X Nat, admits: BOOLEAN] /\ x.pc = "idle"
  BY DEF AlInv, AlTyped
<1>. HIDE DEF x
<1>. QED BY <1>1, <1>2, AlLoginInv

(* The copy is renewed with rows that are those of the signature.            *)
LEMMA AlLoadInv == ASSUME AlInv, NEW l \in AlLogins, AlLoad(l) PROVE AlInv'
<1>. DEFINE x == [pc |-> "answered", signature |-> AlNoSignature, admits |-> AlAdmits(AlIn(alRows))]
<1>1. /\ UNCHANGED <<alRows, alClock, alAdding, alMixed>> /\ alLogin[l].pc = "rules"
      /\ alCache' = [signature |-> alLogin[l].signature, rules |-> AlIn(alRows)]
      /\ alLogin' = [alLogin EXCEPT ![l] = x]
  BY DEF AlLoad, AlDecide
<1>2. x \in [pc: {"idle", "rules", "answered"}, signature: Int \X Nat, admits: BOOLEAN] /\ x.pc = "answered"
  BY AlDecided
<1>. HIDE DEF x
<1>3. \A o \in AlLogins: alLogin'[o] = IF o = l THEN x ELSE alLogin[o]
  BY <1>1 DEF AlInv, AlTyped
<1>4. AlTyped'
  BY <1>1, <1>2 DEF AlInv, AlTyped
<1>5. ASSUME ~alMixed' PROVE AlCopied' /\ AlReadOnce'
  <2>1. AlReadOnce /\ alLogin[l].signature = AlSignature(alRows)
    BY <1>1, <1>5 DEF AlInv, AlReadOnce
  <2>2. AlReadOnce'
    BY <1>1, <1>2, <1>3, <2>1 DEF AlReadOnce
  <2>3. PICK now \in SUBSET AlRow: now = alRows
    BY DEF AlInv, AlTyped
  <2>4. alCache'.signature = AlSignature(now) /\ alCache'.rules = AlIn(now)
    BY <1>1, <2>1, <2>3
  <2>5. (AlLatest(now) = 0 /\ now = {}) \/ \E r \in now: r.at = AlLatest(now)
    BY <2>3, AlLatestOf DEF AlInv, AlTyped, AlLatest
  <2>6. \A a \in alAdding: a.at # AlLatest(now)
    BY <2>3, <2>5 DEF AlInv, AlTyped
  <2>7. AlCopyOf(now)'
    BY <1>1, <2>3, <2>4, <2>6 DEF AlCopyOf, AlInv, AlTyped
  <2>. QED BY <2>2, <2>7 DEF AlCopied
<1>. QED BY <1>4, <1>5 DEF AlInv

LEMMA AlStepInv == AlInv /\ [AlNext]_alVars => AlInv'
<1>. SUFFICES ASSUME AlInv, [AlNext]_alVars PROVE AlInv'
  OBVIOUS
<1>1. ASSUME NEW rules \in SUBSET AlRules, AlAdd(rules) PROVE AlInv'
  BY <1>1, AlAddInv
<1>2. ASSUME NEW at \in 1..AlMaxChanges, AlAdded(at) PROVE AlInv'
  BY <1>2, AlAddedInv
<1>3. ASSUME NEW r \in alRows, AlDelete(r) PROVE AlInv'
  BY <1>3, AlDeleteInv
<1>4. ASSUME NEW l \in AlLogins, AlConsult(l) \/ AlLoad(l) \/ AlAgain(l) PROVE AlInv'
  BY <1>4, AlConsultInv, AlLoadInv, AlAgainInv
<1>5. CASE UNCHANGED alVars
  BY <1>5 DEF alVars, AlInv, AlTyped, AlCopied, AlCopyOf, AlReadOnce
<1>. QED BY <1>1, <1>2, <1>3, <1>4, <1>5 DEF AlNext

LEMMA AlInvariant == AlSpec => []AlInv
BY AlInitInv, AlStepInv, PTL DEF AlSpec

(* The login that was not decided yet is decided by the rules that are there.*)
LEMMA AlDecidedFresh ==
  ASSUME AlInv, AlNext, ~alMixed, NEW l \in AlLogins, alLogin[l].pc # "answered", alLogin'[l].pc = "answered"
  PROVE  alLogin'[l].admits = AlAdmits(AlIn(alRows))
<1>0. AlTyped /\ AlCopied
  BY DEF AlInv
<1>1. PICK o \in AlLogins: AlConsult(o) \/ AlLoad(o) \/ AlAgain(o)
  <2>1. alLogin' # alLogin
    OBVIOUS
  <2>. QED BY <2>1 DEF AlNext, AlAdd, AlAdded, AlDelete
<1>2. ASSUME NEW rules, AlDecide(o, rules) PROVE o = l /\ alLogin'[l].admits = AlAdmits(rules)
  BY <1>0, <1>2 DEF AlDecide, AlTyped
<1>3. CASE AlLoad(o)
  BY <1>2, <1>3 DEF AlLoad
<1>4. CASE AlAgain(o)
  BY <1>0, <1>4 DEF AlAgain, AlTyped
<1>5. CASE AlConsult(o)
  <2>1. CASE AlSignature(alRows) = alCache.signature
    <3>1. AlDecide(o, alCache.rules)
      BY <1>5, <2>1 DEF AlConsult
    <3>2. AlSignature(alRows) # AlNoSignature
      BY <1>0, AlSignatureOf DEF AlTyped
    <3>3. PICK rows \in SUBSET AlRow: AlCopyOf(rows)
      BY <1>0, <2>1, <3>2 DEF AlCopied
    <3>4. rows = alRows
      BY <1>0, <2>1, <3>3, AlSame DEF AlCopyOf
    <3>. QED BY <1>2, <3>1, <3>3, <3>4 DEF AlCopyOf
  <2>2. CASE AlSignature(alRows) # alCache.signature
    BY <1>0, <1>5, <2>2 DEF AlConsult, AlTyped
  <2>. QED BY <2>1, <2>2
<1>. QED BY <1>1, <1>3, <1>4, <1>5

(* A rule that is added or taken away counts from the next login, whatever   *)
(* copy of the rules the process has.                                        *)
THEOREM AlLoginFreshHolds == AlSpec => AlLoginFresh
<1>1. AlInv /\ [AlNext]_alVars =>
        [\A l \in AlLogins: alLogin[l].pc # "answered" /\ alLogin'[l].pc = "answered" /\ ~alMixed
           => alLogin'[l].admits = AlAdmits(AlIn(alRows))]_alVars
  BY AlDecidedFresh
<1>. QED BY <1>1, AlInvariant, PTL DEF AlSpec, AlLoginFresh
===============================================================================
