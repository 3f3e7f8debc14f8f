------------------------------- MODULE Domains -------------------------------
(* The custom domains of several projects: the forms and handlers of the     *)
(* settings page (app/routers/project.py, app/forms/project.py), their       *)
(* verification (app/services/domain.py) and the routers of the domains in   *)
(* each project's Traefik file. The module Routing has the rest of the file. *)
(*                                                                           *)
(* A request loads rows, checks the form, perhaps asks DNS, and commits      *)
(* later; requests of several processes overlap. A session writes only       *)
(* columns that differ from what it loaded, and keeps what it loaded to the  *)
(* end of the request (app/db.py, expire_on_commit=False). The database is   *)
(* PostgreSQL under READ COMMITTED. Redirects are served like routes; which  *)
(* environment a domain points to is left out, but not that it has none.     *)
EXTENDS Integers, FiniteSets

CONSTANTS DmProjects, DmHosts,
          DmMaxRows,   \* bound: rows ever added
          DmMaxOpen,   \* bound: requests open at a time
          DmMaxRequests

ASSUME DmAssumption == /\ DmProjects # {} /\ DmHosts # {} /\ "" \notin DmHosts
                       /\ {DmMaxRows, DmMaxOpen, DmMaxRequests} \subseteq Nat

VARIABLES
  dmRows,    \* rows of table domain; one is added with the next free id
  dmFile,    \* the Traefik file of a project: the host its router of a row serves, "" without one
  dmOpen,    \* open requests: a number, their step, the rows they loaded, the new values
  dmLeft,    \* requests until the bound
  dmUnseen,  \* history: an edit and a verification of a row overlapped
  dmMissed,  \* history: two verifications of a host overlapped, neither saw the other's row
  dmAside    \* history: rows the last write of a file took no notice of, or that
             \* changed since without anybody who writes it

dmVars == <<dmRows, dmFile, dmOpen, dmLeft, dmUnseen, dmMissed, dmAside>>

DmIds == 1..DmMaxRows
DmStatuses == {"none", "pending", "active", "failed", "disabled", "gone"}
DmNone == CHOOSE p \in DmProjects: TRUE
\* env: the row has an environment; proven (history): its host was seen to point
\* to this server.
DmNoRow == [project |-> DmNone, host |-> CHOOSE h \in DmHosts: TRUE, status |-> "none", env |-> FALSE,
            proven |-> FALSE]

DmExists(id) == dmRows[id].status \notin {"none", "gone"}
DmActiveOf(p) == {id \in DmIds: dmRows[id].project = p /\ dmRows[id].status = "active"}
\* What the file is to have.
DmRoute(p, id) == IF id \in DmActiveOf(p) THEN dmRows[id].host ELSE ""
\* ProjectDomainForm.async_validate_hostname: no other row, whatever its status.
DmHostFree(h, id) == \A o \in DmIds \ {id}: DmExists(o) => dmRows[o].host # h

DmInit == /\ dmRows = [id \in DmIds |-> DmNoRow]
          /\ dmFile = [p \in DmProjects |-> [id \in DmIds |-> ""]]
          /\ dmOpen = {}
          /\ dmLeft = DmMaxRequests
          /\ dmUnseen = FALSE /\ dmMissed = FALSE
          /\ dmAside = [p \in DmProjects |-> {}]

\* The rows a session has loaded, as they were then.
DmLoad(ids) == [id \in DmIds |-> IF id \in ids THEN dmRows[id] ELSE DmNoRow]
DmLoaded(q) == {id \in DmIds: q.loaded[id].status # "none"}
DmSeen(q) == q.loaded[q.id]

DmBegin(q) == /\ Cardinality(dmOpen) < DmMaxOpen /\ dmLeft > 0 /\ dmLeft' = dmLeft - 1
              /\ dmOpen' = dmOpen \cup {q}
              /\ UNCHANGED <<dmRows, dmFile, dmMissed, dmAside>>
\* A form about a row; the page has loaded all rows of its project.
DmForm(op, id, h) ==
  LET p == dmRows[id].project
  IN [no |-> dmLeft, op |-> op, project |-> p, id |-> id, host |-> h,
      loaded |-> DmLoad({o \in DmIds: DmExists(o) /\ dmRows[o].project = p})]
DmRewriting(no, p, loaded) == [no |-> no, op |-> "rewrite", project |-> p, loaded |-> loaded]

\* A commit of rows: requests become "open"; the file of "written" is going to be
\* written by one of them, and nobody knows of changes in other files.
DmChanged(p) == {id \in DmIds: DmRoute(p, id)' # DmRoute(p, id)}
DmCommit(open, written) ==
  LET lost == [p \in DmProjects |-> IF p \in written THEN {} ELSE DmChanged(p)]
  IN /\ dmOpen' = {IF q.op = "write" THEN [q EXCEPT !.aside = @ \cup lost[q.project]] ELSE q: q \in open}
     /\ dmAside' = [p \in DmProjects |-> dmAside[p] \cup lost[p]]
     /\ UNCHANGED <<dmFile, dmLeft, dmUnseen, dmMissed>>
DmCommitAndEnd(q) == DmCommit(dmOpen \ {q}, {})
DmCommitAndRewrite(q, loaded) ==
  DmCommit((dmOpen \ {q}) \cup {DmRewriting(q.no, q.project, loaded)}, {q.project})
DmEnd(q) == dmOpen' = dmOpen \ {q} /\ UNCHANGED <<dmRows, dmFile, dmLeft, dmUnseen, dmMissed, dmAside>>

\* A verification that has flushed its row holds the lock of it.
DmLocked(id, q) == \E r \in dmOpen \ {q}: r.op = "flushed" /\ r.id = id
DmOverlaps(id, ops) == \E q \in dmOpen: q.op \in ops /\ q.id = id
------------------------------------------------------------------------------
\* project_settings, domain: a new one ...
DmAdd(p, h) ==
  /\ DmHostFree(h, 0) /\ \E id \in DmIds: dmRows[id].status = "none"
  /\ DmBegin([no |-> dmLeft, op |-> "add", project |-> p, host |-> h])
  /\ UNCHANGED dmUnseen
DmAddCommit(q) ==
  LET free == {id \in DmIds: dmRows[id].status = "none"}
  IN /\ q.op = "add"
     /\ \/ free = {} /\ UNCHANGED dmRows
        \/ \E id \in free:
             /\ \A o \in free: id <= o
             /\ dmRows' = [dmRows EXCEPT ![id] = [project |-> q.project, host |-> q.host,
                                                  status |-> "pending", env |-> TRUE, proven |-> FALSE]]
     /\ DmCommitAndEnd(q)

\* ... and one that is edited; another hostname has to be verified again, and an
\* environment other than the one that was loaded is stored. The file is not rewritten.
DmEdit(id, h) ==
  /\ DmExists(id) /\ DmHostFree(h, id)
  /\ DmBegin(DmForm("edit", id, h))
  /\ dmUnseen' = (dmUnseen \/ DmOverlaps(id, {"verify", "flushed"}))
\* Mutant: the status survives the change of the hostname.
DmEditedKept(row, q, other) == [row EXCEPT !.host = q.host, !.env = @ \/ other, !.proven = @ /\ q.host = DmSeen(q).host]
DmEdited(row, q, other) ==
  LET moved == q.host # DmSeen(q).host
  IN [row EXCEPT !.host = IF moved THEN q.host ELSE @,
                 !.status = IF moved /\ DmSeen(q).status # "pending" THEN "pending" ELSE @,
                 !.proven = @ /\ ~moved,
                 !.env = @ \/ other]
DmEditCommit(q) ==
  /\ q.op = "edit" /\ ~DmLocked(q.id, q)
  /\ \E other \in BOOLEAN:
       /\ other \/ DmSeen(q).env
       /\ dmRows' = IF DmExists(q.id) THEN [dmRows EXCEPT ![q.id] = DmEdited(@, q, other)] ELSE dmRows
  /\ DmCommitAndEnd(q)

\* project_settings, remove_domain; deleting a row that is gone is no error.
DmRemove(id) ==
  /\ DmExists(id)
  /\ DmBegin(DmForm("remove", id, dmRows[id].host))
  /\ UNCHANGED dmUnseen
DmRemoved(q) ==
  /\ q.op = "remove" /\ ~DmLocked(q.id, q)
  /\ dmRows' = [dmRows EXCEPT ![q.id] = [DmNoRow EXCEPT !.status = "gone"]]
  /\ DmCommitAndRewrite(q, q.loaded)

\* project_settings, delete_environment: its active domains are loaded and
\* disabled, others keep pointing to it. A row that is gone fails the request.
DmDeleteEnvironment(p) ==
  /\ \E ids \in SUBSET {id \in DmActiveOf(p): dmRows[id].env}:
       /\ ids # {}
       /\ DmBegin([no |-> dmLeft, op |-> "disable", project |-> p, loaded |-> DmLoad(ids)])
  /\ UNCHANGED dmUnseen
DmEnvironmentDeleted(q) ==
  /\ q.op = "disable"
  /\ \A id \in DmLoaded(q): DmExists(id) /\ ~DmLocked(id, q)
  /\ dmRows' = [id \in DmIds |-> IF id \in DmLoaded(q) THEN [dmRows[id] EXCEPT !.status = "disabled", !.env = FALSE]
                                 ELSE dmRows[id]]
  /\ DmCommitAndRewrite(q, [id \in DmIds |-> [q.loaded[id] EXCEPT !.env = FALSE]])
DmNotDeleted(q) == q.op = "disable" /\ (\E id \in DmLoaded(q): ~DmExists(id)) /\ DmEnd(q)
------------------------------------------------------------------------------
\* project_settings, verify_domain: not for an active one.
DmVerify(id) ==
  /\ DmExists(id) /\ dmRows[id].status # "active"
  /\ DmBegin(DmForm("verify", id, dmRows[id].host))
  /\ dmUnseen' = (dmUnseen \/ DmOverlaps(id, {"edit"}))
\* DomainService.verify_domain: the environment, deleted or not, has a succeeded
\* deployment, and the host points here.
DmMayVerify(q) == DmSeen(q).env

\* The rows an UPDATE of the other rows of the hostname, of any project, finds.
DmRivals(q) == {id \in DmIds \ {q.id}: dmRows[id].host = q.host /\ dmRows[id].status \in {"pending", "active", "failed"}}
\* The answer of DNS: the row is flushed, which locks it, and the UPDATE starts.
\* It sees the committed rows. A row that is gone fails the request.
DmFlush(q) ==
  LET rivals == DmRivals(q)
      missed == \E r \in dmOpen: r.op = "flushed" /\ r.host = q.host /\ r.id \notin rivals /\ q.id \notin r.rivals
  IN /\ q.op = "verify" /\ DmMayVerify(q) /\ DmExists(q.id) /\ ~DmLocked(q.id, q)
     /\ dmOpen' = (dmOpen \ {q}) \cup {[no |-> q.no, op |-> "flushed", project |-> q.project, id |-> q.id,
                                        host |-> q.host, loaded |-> q.loaded, rivals |-> rivals]}
     /\ dmMissed' = (dmMissed \/ missed)
     /\ UNCHANGED <<dmRows, dmFile, dmLeft, dmUnseen, dmAside>>
DmNotFlushed(q) == q.op = "verify" /\ DmMayVerify(q) /\ ~DmExists(q.id) /\ DmEnd(q)

\* Mutant: only the rows of the same project are disabled.
DmDisabledOwn(id, q) == IF id \in q.rivals \cap DmRivals(q) /\ dmRows[id].project = q.project
                        THEN [dmRows[id] EXCEPT !.status = "disabled"] ELSE dmRows[id]
\* The UPDATE looks at a row again when its lock is free.
DmDisabled(id, q) == IF id \in q.rivals \cap DmRivals(q)
                     THEN [dmRows[id] EXCEPT !.status = "disabled"] ELSE dmRows[id]
DmVerified(q) ==
  /\ q.op = "flushed" /\ \A id \in q.rivals: ~DmLocked(id, q)
  /\ dmRows' = [id \in DmIds |->
                  IF id = q.id
                  THEN [dmRows[id] EXCEPT !.status = "active", !.proven = @ \/ dmRows[id].host = q.host]
                  ELSE DmDisabled(id, q)]
  /\ DmCommitAndRewrite(q, q.loaded)
DmRefused(q) ==
  /\ q.op = "verify" /\ ~DmLocked(q.id, q)
  /\ dmRows' = IF DmExists(q.id) /\ DmSeen(q).status # "failed"
               THEN [dmRows EXCEPT ![q.id].status = "failed"] ELSE dmRows
  /\ DmCommitAndEnd(q)

\* Requests that wait for rows others have locked, or may have, in a circle:
\* PostgreSQL fails one of them.
DmWants(q) == IF q.op = "flushed" THEN q.rivals ELSE DmLoaded(q)
DmMayHold(q) == DmWants(q) \cup (IF q.op = "flushed" THEN {q.id} ELSE {})
DmDeadlocked(q) ==
  /\ \E S \in SUBSET {r \in dmOpen: r.op \in {"flushed", "disable"}}:
       q \in S /\ \A r \in S: \E s \in S \ {r}: DmWants(r) \cap DmMayHold(s) # {}
  /\ DmEnd(q)
------------------------------------------------------------------------------
\* update_traefik_config after a deployment, a rollback or a change of the
\* security level: no domain is in the session.
DmDeployed(p) == DmBegin(DmRewriting(dmLeft, p, DmLoad({}))) /\ UNCHANGED dmUnseen

\* The rows are found as they are, but one the session has keeps its old columns.
DmKnown(q, id) == IF id \in DmLoaded(q) THEN q.loaded[id] ELSE dmRows[id]
\* Mutant: the routers of domains that went stay in the file.
DmContentMore(q, shown) == [id \in DmIds |-> IF id \in shown THEN DmKnown(q, id).host ELSE dmFile[q.project][id]]
DmContent(q, shown) == [id \in DmIds |-> IF id \in shown THEN DmKnown(q, id).host ELSE ""]
\* update_traefik_config, the query. A domain gets no router while the alias of
\* its environment is absent or its deployment not concluded (see Routing).
DmQuery(q) ==
  LET active == DmActiveOf(q.project)
      stale == {id \in active: DmKnown(q, id).host # dmRows[id].host}
  IN /\ q.op = "rewrite"
     /\ \E skipped \in SUBSET active:
          /\ \A id \in active: DmKnown(q, id).env \/ id \in skipped
          /\ dmOpen' = (dmOpen \ {q}) \cup {[no |-> q.no, op |-> "write", project |-> q.project,
                                             content |-> DmContent(q, active \ skipped),
                                             aside |-> skipped \cup stale]}
     /\ UNCHANGED <<dmRows, dmFile, dmLeft, dmUnseen, dmMissed, dmAside>>
\* The write replaces the file; a failure leaves it. What another request has
\* queried before is older than this.
DmWrite(q) ==
  /\ q.op = "write"
  /\ dmOpen' = {IF r.op = "write" /\ r.project = q.project THEN [r EXCEPT !.aside = DmIds] ELSE r: r \in dmOpen \ {q}}
  /\ \/ /\ dmFile' = [dmFile EXCEPT ![q.project] = q.content]
        /\ dmAside' = [dmAside EXCEPT ![q.project] = q.aside]
     \/ dmAside' = [dmAside EXCEPT ![q.project] = DmIds] /\ UNCHANGED dmFile
  /\ UNCHANGED <<dmRows, dmLeft, dmUnseen, dmMissed>>

DmNext ==
  \/ \E h \in DmHosts: (\E p \in DmProjects: DmAdd(p, h)) \/ \E id \in DmIds: DmEdit(id, h)
  \/ \E id \in DmIds: DmRemove(id) \/ DmVerify(id)
  \/ \E p \in DmProjects: DmDeleteEnvironment(p) \/ DmDeployed(p)
  \/ \E q \in dmOpen: \/ DmAddCommit(q) \/ DmEditCommit(q) \/ DmRemoved(q)
                      \/ DmEnvironmentDeleted(q) \/ DmNotDeleted(q)
                      \/ DmFlush(q) \/ DmNotFlushed(q) \/ DmVerified(q) \/ DmRefused(q) \/ DmDeadlocked(q)
                      \/ DmQuery(q) \/ DmWrite(q)
DmSpec == DmInit /\ [][DmNext]_dmVars
------------------------------------------------------------------------------
DmTypeOK ==
  /\ dmRows \in [DmIds -> [project: DmProjects, host: DmHosts, status: DmStatuses, env: BOOLEAN, proven: BOOLEAN]]
  /\ dmFile \in [DmProjects -> [DmIds -> DmHosts \cup {""}]]
  /\ dmAside \in [DmProjects -> SUBSET DmIds]
  /\ \A q \in dmOpen: q.project \in DmProjects
                      /\ q.op \in {"add", "edit", "verify", "flushed", "remove", "disable", "rewrite", "write"}

\* A hostname is active in one project only, even when overlapping requests have
\* made several rows of it, because verifying one disables the others. Excepted
\* are an edit that overlapped a verification, and two verifications that both
\* ran their UPDATE before either committed and of which neither finds the row of
\* the other, because both were disabled (app/routers/project.py:2081-2119).
DmOneActive ==
  ~dmUnseen /\ ~dmMissed => \A i, j \in DmIds: dmRows[i].status = "active" /\ dmRows[j].status = "active"
                                               /\ dmRows[i].host = dmRows[j].host => i = j

\* A domain is active only with a hostname that was seen to point to this server,
\* unless an edit overlapped its verification.
DmProven == ~dmUnseen => \A id \in DmIds: dmRows[id].status = "active" => dmRows[id].proven

\* When nobody is about to rewrite the file of a project, its router of a row
\* serves the row's host if the row is active, and there is none otherwise.
\* Excepted, by dmAside, are only: a row the last write skipped for want of an
\* alias or wrote with the hostname its session had loaded before another request
\* changed it; a row that nobody writes the file for, because an edit moved it, a
\* late verification failed it, or one in another project disabled it; and all
\* rows of a file whose last write failed or was queried before another's.
DmServed ==
  \A p \in DmProjects:
    (\A q \in dmOpen: q.op \in {"rewrite", "write"} => q.project # p) =>
      \A id \in DmIds \ dmAside[p]: dmFile[p][id] = DmRoute(p, id)
==============================================================================
