------------------------------ MODULE MCServices ------------------------------
(* Instances for TLC of the components beside the deployments. They share no *)
(* state the models keep, so that one run checks each by itself: the initial *)
(* state chooses which one takes steps.                                      *)
EXTENDS Storage, Accounts, Environments, Domains, Projects, Allowlist, Links, Challenge, Gate,
        MCRegistry

VARIABLE focus
svVars == <<focus, stVars, acVars, enVars_, dmVars, pdVars, alVars, lnVars, chVars, gtVars, rgVars>>

\* The links of one storage: a database all environments have, or a volume, also
\* a new one, that only "staging" has.
SvLinks == \/ /\ focus # "links" /\ \A s \in LnStorages: lnStatus[s] = "gone"
           \/ /\ focus = "links"
              /\ \/ /\ \A s \in LnSql: lnStatus[s] = "active" /\ lnLinks[s] = {}
                    /\ \A s \in LnFiles: lnStatus[s] = "gone"
                 \/ /\ \A s \in LnSql: lnStatus[s] = "gone"
                    /\ \A s \in LnFiles: lnStatus[s] # "gone" /\ lnLinks[s] = {"staging"}

SvInit == /\ focus \in {"storage", "accounts", "environments", "domains", "projects", "allowlist",
                        "links", "challenge", "gate", "registry"}
          /\ StInit /\ AcInit /\ EnInit /\ DmInit /\ PdInit /\ AlInit /\ ChInit /\ GtInit /\ RgInit
          /\ focus # "gate" => gtLevel.on
          /\ focus # "registry" => \A i \in RgItems: rgCatalog[i] = "unset" /\ rgOverrides[i] = "none"
          /\ LnInit /\ SvLinks

SvOnly(component, step) == focus = component /\ step /\ UNCHANGED focus

SvNext ==
  \/ SvOnly("storage", StNext) /\ UNCHANGED <<acVars, enVars_, dmVars, pdVars, alVars, lnVars, chVars, gtVars, rgVars>>
  \/ SvOnly("accounts", AcNext) /\ UNCHANGED <<stVars, enVars_, dmVars, pdVars, alVars, lnVars, chVars, gtVars, rgVars>>
  \/ SvOnly("environments", EnNext) /\ UNCHANGED <<stVars, acVars, dmVars, pdVars, alVars, lnVars, chVars, gtVars, rgVars>>
  \/ SvOnly("domains", DmNext) /\ UNCHANGED <<stVars, acVars, enVars_, pdVars, alVars, lnVars, chVars, gtVars, rgVars>>
  \/ SvOnly("projects", PdNext) /\ UNCHANGED <<stVars, acVars, enVars_, dmVars, alVars, lnVars, chVars, gtVars, rgVars>>
  \/ SvOnly("allowlist", AlNext) /\ UNCHANGED <<stVars, acVars, enVars_, dmVars, pdVars, lnVars, chVars, gtVars, rgVars>>
  \/ SvOnly("links", LnNext) /\ UNCHANGED <<stVars, acVars, enVars_, dmVars, pdVars, alVars, chVars, gtVars, rgVars>>
  \/ SvOnly("challenge", ChNext) /\ UNCHANGED <<stVars, acVars, enVars_, dmVars, pdVars, alVars, lnVars, gtVars, rgVars>>
  \/ SvOnly("gate", GtNext) /\ UNCHANGED <<stVars, acVars, enVars_, dmVars, pdVars, alVars, lnVars, chVars, rgVars>>
  \/ SvOnly("registry", RgNext) /\ UNCHANGED <<stVars, acVars, enVars_, dmVars, pdVars, alVars, lnVars, chVars, gtVars>>

\* No fair action of a component is enabled in its initial state, so that these
\* conditions ask nothing of the components that take no steps.
SvSpec == SvInit /\ [][SvNext]_svVars /\ StFairness /\ AcFairness /\ PdFairness

\* The types of all components.
ServicesTypeOK == /\ StTypeOK /\ AcTypeOK /\ EnTypeOK /\ DmTypeOK /\ PdTypeOK
                  /\ AlTypeOK /\ LnTypeOK /\ ChTypeOK /\ GtTypeOK /\ RgTypeOK
===============================================================================
