\* Each component beside the deployments, one at a time.
SPECIFICATION SvSpec
CONSTANTS
  StSlots = {s1, s2}
  StKeep = 2
  StMaxFaults = 1
  StMaxRequests = 2
  AcUsers = {u1, u2}
  AcTeams = {t1, t2}
  AcNone = none
  AcRequests = {r1}
  AcRoles = {"owner", "admin"}
  AcMaxInvites = 1
  EnSlugs = {"staging", "qa"}
  EnMaxOpen = 2
  EnMaxRequests = 5
  EnMaxEnvs = 3
  EnMaxVars = 1
  DmProjects = {p1, p2}
  DmHosts = {"a", "b"}
  DmMaxRows = 2
  DmMaxOpen = 2
  DmMaxRequests = 4
  PdProjects = {p1, p2}
  PdMaxDeployments = 2
  PdBatch = 1
  PdMaxFaults = 1
  AlRules = {"mine", "other"}
  AlMatching = {"mine"}
  AlLogins = {l1, l2}
  AlMaxChanges = 2
  LnSql = {"sql"}
  LnFiles = {"volume"}
  LnEnvs = {"prod", "staging"}
  LnMaxChanges = 2
  LnMaxStarts = 2
  ChIds = {i1, i2}
  ChRequests = {v1, v2}
  ChTtl = 2
  ChLoadTtl = 1
  ChMaxTime = 3
  GtProcs = {w1, w2}
  GtAttackTtl = 1
  GtOtherTtl = 1
  GtPassTtl = 4
  GtPassCacheTtl = 2
  GtMaxTime = 3
  RgRunners = {"node", "bun"}
  RgPresets = {"preset"}
  RgRunnerOf <- MCRunnerOf
  RgCategory <- MCCategory
  RgCatalogEnabled = {"unset"}
  RgRequests = {a1}
INVARIANTS StPasswordAgrees StNothingLeft StGoodKept
INVARIANTS AcOwnerKept AcOncePerTeam
INVARIANTS EnSlugsUnique EnProdServed EnVarsOwn
INVARIANTS DmOneActive DmProven DmServed
INVARIANTS ChAnsweredOnce GtAnswersFresh
INVARIANTS LnSecretsWork LnPathsMounted LnFenced
INVARIANTS PdNoOrphan RgOverridesWin ServicesTypeOK
PROPERTIES StDeletionDone StProvisioned
PROPERTIES AcRevokedStays AcAccountGone
PROPERTIES PdGoneInTheEnd PdStartedInTheEnd
PROPERTIES AlLoginFresh ChOneTime
CHECK_DEADLOCK FALSE
