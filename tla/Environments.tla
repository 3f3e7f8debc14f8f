----------------------------- MODULE Environments ----------------------------
(* The environments of one project and the variables scoped to them:         *)
(* app/models.py (Project, Deployment), the settings page of                 *)
(* app/routers/project.py, app/forms/project.py, app/utils/environment.py.   *)
(*                                                                           *)
(* Both are JSON columns, read when a request begins and overwritten as a    *)
(* whole when it commits; two requests can overlap. Colors, names, values    *)
(* and the pattern of all but the production environment are left out: any   *)
(* other environment has a wildcard that reaches every branch.               *)
EXTENDS Integers, Sequences, FiniteSets

CONSTANTS EnSlugs,      \* slugs besides "production"
          EnMaxOpen,    \* bound: requests open at a time
          EnMaxRequests,
          EnMaxEnvs,    \* bound: environments ever made, production included
          EnMaxVars     \* bound: variables of one key, over all scopes

\* The empty slug means all environments.
ASSUME EnAssumption == /\ {"", "production"} \cap EnSlugs = {} /\ EnMaxEnvs \in Nat \ {0}
                       /\ {EnMaxVars, EnMaxOpen, EnMaxRequests} \subseteq Nat

VARIABLES
  enEnvs,      \* environments, in order of creation; the position is the id
  enVars,      \* variables: the slug they are scoped to and, as history, the id
               \* of the environment they were saved for
  enLeft,      \* requests until the bound
  enReqs,      \* what the open requests will write
  enMixed      \* history: two requests overlapped, or one saved variables for a
               \* deleted environment, or renamed one or deleted it again

enVars_ == <<enEnvs, enVars, enLeft, enReqs, enMixed>>

EnProd == 1

\* has_active_environment_with_slug and get_environment_by_slug.
EnWithSlug(s) == {i \in DOMAIN enEnvs: enEnvs[i].on /\ enEnvs[i].slug = s}
\* Mutant: only a new environment is compared with the others.
EnSlugFreeOnce(s, id) == id # 0 \/ EnWithSlug(s) = {}
EnSlugFree(s, id) == EnWithSlug(s) \subseteq {id}

EnActive == {i \in DOMAIN enEnvs: enEnvs[i].on}
EnFirst(ids) == IF ids = {} THEN 0 ELSE CHOOSE i \in ids: \A j \in ids: i <= j

\* Mutant: any environment that reaches the branch, the latest first.
EnForLatest(branch) == LET on == {i \in EnActive: i = EnProd => branch = "main"}
                       IN IF on = {} THEN 0 ELSE CHOOSE i \in on: \A j \in on: j <= i
\* get_environment_for_branch: the first active environment is taken for the
\* production one, which needs its own branch; then the first that matches.
EnFor(branch) ==
  LET first == EnFirst(EnActive)
  IN IF first = EnProd /\ branch = "main" THEN first ELSE EnFirst(EnActive \ {first})

\* Project.get_env_vars, also copied into a new deployment: the variables of all
\* environments (scope "") unless one of the environment itself has the key.
EnEffective(i) == LET own == {v \in enVars: v.env = enEnvs[i].slug}
                  IN IF own = {} THEN {v \in enVars: v.env = ""} ELSE own

EnInit == /\ enEnvs = <<[slug |-> "production", on |-> TRUE]>>
          /\ enVars = {}
          /\ enLeft = EnMaxRequests /\ enReqs = {}
          /\ enMixed = FALSE
------------------------------------------------------------------------------
EnBegin(op, envs, vars, late) ==
  /\ Cardinality(enReqs) < EnMaxOpen /\ enLeft > 0
  /\ enLeft' = enLeft - 1
  /\ enReqs' = enReqs \cup {[op |-> op, envs |-> envs, vars |-> vars]}
  /\ enMixed' = (enMixed \/ late \/ enReqs # {})
  /\ UNCHANGED <<enEnvs, enVars>>

\* create_environment.
EnCreate(slug) ==
  /\ Len(enEnvs) < EnMaxEnvs /\ EnSlugFree(slug, 0)
  /\ EnBegin("create", Append(enEnvs, [slug |-> slug, on |-> TRUE]), {}, FALSE)

\* Mutant: the variables keep the old slug.
EnCarriedNot(id, slug) == enVars
\* update_environment: the variables scoped to the old slug get the new one.
EnCarried(id, slug) == {IF v.env = enEnvs[id].slug THEN [v EXCEPT !.env = slug] ELSE v: v \in enVars}
\* Deleted environments can be edited too; production cannot be renamed.
EnRename(id, slug) ==
  /\ id \in DOMAIN enEnvs \ {EnProd} /\ slug # enEnvs[id].slug /\ EnSlugFree(slug, id)
  /\ EnBegin("rename", [enEnvs EXCEPT ![id].slug = slug], EnCarried(id, slug), ~enEnvs[id].on)

\* delete_environment: not production; its variables are removed.
EnDelete(id) ==
  /\ id \in DOMAIN enEnvs \ {EnProd}
  /\ EnBegin("delete", [enEnvs EXCEPT ![id].on = FALSE], {v \in enVars: v.env # enEnvs[id].slug},
             ~enEnvs[id].on)

\* project_settings, env_vars: the choice of a scope lists deleted environments.
EnSave(i, add) ==
  LET slug == IF i = 0 THEN "" ELSE enEnvs[i].slug
      others == {v \in enVars: v.env # slug}
  IN /\ i \in {0} \cup DOMAIN enEnvs
     /\ i # 0 /\ ~enEnvs[i].on => EnWithSlug(slug) = {}
     /\ add => Cardinality(others) < EnMaxVars
     /\ EnBegin("save", <<>>, IF add THEN others \cup {[env |-> slug, for |-> i]} ELSE others,
                add /\ i # 0 /\ ~enEnvs[i].on)

\* The commit writes the columns the request has assigned.
EnCommit(r) ==
  /\ r \in enReqs
  /\ enEnvs' = IF r.op = "save" THEN enEnvs ELSE r.envs
  /\ enVars' = IF r.op = "create" THEN enVars ELSE r.vars
  /\ enReqs' = enReqs \ {r}
  /\ UNCHANGED <<enLeft, enMixed>>

EnNext ==
  \/ \E r \in enReqs: EnCommit(r)
  \/ \E s \in EnSlugs: EnCreate(s) \/ \E id \in 1..EnMaxEnvs: EnRename(id, s)
  \/ \E id \in 1..EnMaxEnvs: EnDelete(id)
  \/ \E i \in 0..EnMaxEnvs, add \in BOOLEAN: EnSave(i, add)

EnSpec == EnInit /\ [][EnNext]_enVars_
------------------------------------------------------------------------------
EnTypeOK ==
  /\ \A i \in DOMAIN enEnvs: enEnvs[i] \in [slug: EnSlugs \cup {"production"}, on: BOOLEAN]
  /\ \A v \in enVars: v \in [env: EnSlugs \cup {"production", ""}, for: 0..EnMaxEnvs]
  /\ \A r \in enReqs: r.op \in {"create", "rename", "delete", "save"}

\* No two active environments share a slug, and so hostnames and variables, even
\* when two requests overlap: the one that commits last drops the other's list.
EnSlugsUnique == \A s \in EnSlugs \cup {"production"}: Cardinality(EnWithSlug(s)) <= 1

\* The production branch is deployed to production whatever the wildcards of the
\* other environments reach and in whatever order they came and went.
EnProdServed == EnFor("main") = EnProd

\* An environment gets the variables saved for it and those of all environments,
\* never those of one that had its slug before: renaming carries them along and
\* deleting removes them. Not so once requests overlapped, or variables were
\* saved for a deleted environment, which the form offers, or a deleted one was
\* renamed or deleted again: the variables of its old slug are another's by then.
EnVarsOwn ==
  ~enMixed => \A i \in DOMAIN enEnvs: enEnvs[i].on => \A v \in EnEffective(i): v.for \in {0, i}
==============================================================================
