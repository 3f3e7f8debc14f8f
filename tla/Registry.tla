------------------------------- MODULE Registry ------------------------------
(* The runners and presets of an instance (app/services/registry.py): a      *)
(* catalog fetched from elsewhere, the overrides of the administrators       *)
(* (app/routers/admin.py), both files, and what they resolve to; the images  *)
(* of the runners (app/workers/tasks/registry.py).                           *)
(*                                                                           *)
(* An entry of the catalog has one field besides its slug, enabled, and one  *)
(* of the overrides that field or none; names, images and commands are left  *)
(* out, and so are entries the catalog does not have.                        *)
EXTENDS Integers

CONSTANTS RgRunners, RgPresets,
          RgRunnerOf,        \* the runner of each preset
          RgCategory,        \* of runners and presets
          RgCatalogEnabled,  \* what a catalog may say of "enabled"
          RgRequests         \* concurrent requests of administrators

RgItems == RgRunners \cup RgPresets
ASSUME RgAssumption == /\ RgRunnerOf \in [RgPresets -> RgRunners] /\ DOMAIN RgCategory = RgItems
                       /\ RgCatalogEnabled \subseteq {"unset", "true", "false"}

VARIABLES
  rgCatalog,    \* catalog.json: of each item, whether it is enabled, or "absent"
  rgOverrides,  \* overrides.json: of each item "none", "empty", "true" or "false"
  rgRead,       \* each request: the two files as it read them when it began
  rgImages,     \* runners whose image is on the host
  rgSet,        \* history: what was last asked for, of the items in the catalog
  rgRaced       \* history: a request overlapped another or an update

rgVars == <<rgCatalog, rgOverrides, rgRead, rgImages, rgSet, rgRaced>>

RgNone == [i \in RgItems |-> "none"]
RgIdle == [catalog |-> RgNone, overrides |-> RgNone]
------------------------------------------------------------------------------
(* What the files resolve to.                                                *)

\* _prune_overrides of one item: "false" is never kept; disabling what the
\* catalog enables leaves an entry without fields, which the next pruning drops.
RgPrunedOf(base, override) ==
  CASE override = "false" /\ base = "true" -> "empty"
    [] override = "true" /\ base \notin {"true", "absent"} -> "true"
    [] OTHER -> "none"
\* Mutant: overrides of presets are dropped with those the catalog lacks.
RgPrunedRunners(catalog, overrides) ==
  [i \in RgItems |-> IF i \in RgRunners THEN RgPrunedOf(catalog[i], overrides[i]) ELSE "none"]
RgPruned(catalog, overrides) == [i \in RgItems |-> RgPrunedOf(catalog[i], overrides[i])]

\* _load_state and _merge_by_slug: an override left by pruning wins; unset is
\* disabled.
RgEnabled == LET overrides == RgPruned(rgCatalog, rgOverrides)
             IN {i \in RgItems: overrides[i] = "true" \/ (overrides[i] = "none" /\ rgCatalog[i] = "true")}
\* _merge: a preset stays enabled with its runner, of its category, or without it
\* when another runner of that category is enabled.
RgOffered == {p \in RgPresets \cap RgEnabled:
                IF RgRunnerOf[p] \in RgEnabled THEN RgCategory[RgRunnerOf[p]] = RgCategory[p]
                ELSE \E r \in RgRunners \cap RgEnabled: RgCategory[r] = RgCategory[p]}
------------------------------------------------------------------------------
\* The installer copies a catalog and overrides that enable some of its items.
RgInit == /\ rgCatalog \in [RgItems -> RgCatalogEnabled]
          /\ rgOverrides \in [RgItems -> {"none", "true"}]
          /\ rgRead = [r \in RgRequests |-> RgIdle]
          /\ rgImages = {}
          /\ rgSet = RgNone
          /\ rgRaced = FALSE

\* update_catalog. Choices about items it lacks are forgotten.
RgUpdate(catalog) ==
  /\ rgCatalog' = catalog
  /\ rgSet' = [i \in RgItems |-> IF catalog[i] = "absent" THEN "none" ELSE rgSet[i]]
  /\ rgRaced' = (rgRaced \/ \E r \in RgRequests: rgRead[r] # RgIdle)
  /\ UNCHANGED <<rgOverrides, rgRead, rgImages>>

\* admin_settings: a request reads both files when it begins (there are several
\* web processes) ...
RgBegin(r) ==
  /\ rgRead[r] = RgIdle
  /\ rgRead' = [rgRead EXCEPT ![r] = [catalog |-> rgCatalog, overrides |-> RgPruned(rgCatalog, rgOverrides)]]
  /\ rgRaced' = (rgRaced \/ \E o \in RgRequests: rgRead[o] # RgIdle)
  /\ UNCHANGED <<rgCatalog, rgOverrides, rgImages, rgSet>>
\* ... and set_runner or set_preset writes all the overrides back, pruned by the
\* catalog it read.
RgSetItem(r, i, enabled) ==
  /\ rgRead[r] # RgIdle
  /\ rgOverrides' = RgPruned(rgRead[r].catalog, [rgRead[r].overrides EXCEPT ![i] = enabled])
  /\ rgRead' = [rgRead EXCEPT ![r] = RgIdle]
  /\ rgSet' = IF rgCatalog[i] = "absent" THEN rgSet ELSE [rgSet EXCEPT ![i] = enabled]
  /\ UNCHANGED <<rgCatalog, rgImages, rgRaced>>

\* pull_runner_image, pull_all_runner_images and start_deployment: runners of the
\* catalog, and all those enabled. Any image may fail.
RgPull(runners) ==
  /\ \/ runners \subseteq RgEnabled
     \/ \E r \in RgRunners: runners = {r} /\ rgCatalog[r] # "absent"
  /\ rgImages' = rgImages \cup runners
  /\ UNCHANGED <<rgCatalog, rgOverrides, rgRead, rgSet, rgRaced>>
\* clear_runner_image, clear_all_runner_images: those that no container uses.
RgClear(runners) ==
  /\ \A r \in runners: rgCatalog[r] # "absent"
  /\ rgImages' = rgImages \ runners
  /\ UNCHANGED <<rgCatalog, rgOverrides, rgRead, rgSet, rgRaced>>

RgNext ==
  \/ \E catalog \in [RgItems -> RgCatalogEnabled \cup {"absent"}]: RgUpdate(catalog)
  \/ \E r \in RgRequests:
       RgBegin(r) \/ \E i \in RgItems, enabled \in {"true", "false"}: RgSetItem(r, i, enabled)
  \/ \E runners \in SUBSET RgRunners: RgPull(runners) \/ RgClear(runners)
RgSpec == RgInit /\ [][RgNext]_rgVars
------------------------------------------------------------------------------
RgSays == {"unset", "absent", "none", "empty", "true", "false"}
RgTypeOK ==
  /\ rgCatalog \in [RgItems -> RgCatalogEnabled \cup {"absent"}] /\ rgOverrides \in [RgItems -> RgSays]
  /\ rgRead \in [RgRequests -> [catalog: [RgItems -> RgSays], overrides: [RgItems -> RgSays]]]
  /\ rgImages \subseteq RgRunners /\ rgSet \in [RgItems -> RgSays] /\ rgRaced \in BOOLEAN

\* What the administrators last chose of the items of the catalog, one request
\* after the other, is what the instance offers, through updates of the catalog
\* and choices about other items; and no preset is offered once it, or every
\* runner of its category, was turned off (_prune_overrides, _merge).
RgOverridesWin ==
  ~rgRaced =>
    /\ \A i \in RgItems: rgSet[i] # "none" => (i \in RgEnabled <=> rgSet[i] = "true")
    /\ \A p \in RgOffered: \E r \in RgRunners: RgCategory[r] = RgCategory[p] /\ rgSet[r] # "false"
==============================================================================
