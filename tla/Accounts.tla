------------------------------ MODULE Accounts -------------------------------
(* Users, teams, memberships and invites, and the jobs that delete teams and *)
(* users: app/routers/auth.py, user.py and team.py, app/forms/team.py,       *)
(* app/services/notification.py, app/workers/tasks/team.py and user.py.      *)
(*                                                                           *)
(* A request that decides from what it read is two actions, its check and    *)
(* its commit, because other requests and jobs run in between. A user stands *)
(* for an account and its email address; names, slugs and avatars are left   *)
(* out, and so are users who sign in again after their deletion.             *)
EXTENDS Integers, Sequences, FiniteSets

CONSTANTS AcUsers, AcTeams, AcNone, AcRequests,
          AcRoles,       \* "owner", and also "admin" and "member" or one of them
          AcMaxInvites   \* bound: invites ever sent

ASSUME AcAssumption == /\ AcNone \notin AcUsers \cup AcTeams /\ AcMaxInvites \in Nat
                       /\ "owner" \in AcRoles /\ AcRoles \subseteq {"owner", "admin", "member"}

VARIABLES
  acUser,      \* "none" before the first login, "active", "gone"
  acDefault,   \* default_team_id of each user
  acTeam,      \* "none", "active", "gone": status "deleted" is never stored
  acContent,   \* the team has a project
  acRoles,     \* rows of team_member, oldest first, by team and user
  acInvites,   \* rows of team_invite in the order they were sent, "settled" if
               \* accepted or declined, AcNoInvite in the place of deleted ones
  acNoted,     \* users with rows in notification
  acReq,       \* requests between their check and their commit
  acQueue,     \* queued jobs, <<kind, id>>
  acJob,       \* the job a worker is running
  acAsked,     \* history: users whose deletion was asked for
  acRaced,     \* history: checks overlapped, a deletion overlapped a check or a new
               \* team, or an admin removed an owner
  acLate       \* history: a project was created while its team was deleted

acTables == <<acUser, acDefault, acTeam, acContent, acRoles, acInvites, acNoted>>
acHistory == <<acRaced, acLate>>
acVars == <<acTables, acReq, acQueue, acAsked, acJob, acHistory>>

AcIdle == [op |-> "idle", team |-> AcNone, user |-> AcNone, arg |-> 0, role |-> "owner"]
AcNoInvite == [team |-> AcNone, user |-> AcNone, by |-> AcNone, role |-> "owner", status |-> "deleted"]
AcNoJob == [kind |-> "idle", team |-> AcNone, user |-> AcNone, todo |-> {}]

\* get_team_by_slug and get_role: the first row of the user in the team.
AcIn(u, t) == Len(acRoles[t][u]) > 0
AcRole(u, t) == acRoles[t][u][1]
\* get_current_user and get_access.
AcSignedIn(u) == acUser[u] = "active"
AcMember(u, t) == AcSignedIn(u) /\ acTeam[t] = "active" /\ AcIn(u, t)
AcAdmin(u, t) == AcMember(u, t) /\ AcRole(u, t) \in {"owner", "admin"}
AcOwnsIn(roles, u, t) == \E i \in DOMAIN roles[t][u]: roles[t][u][i] = "owner"
AcOwns(u, t) == AcOwnsIn(acRoles, u, t)
\* Rows that do not exist yet are interchangeable: the next one.
AcNextUser(u) == acUser[u] = "none" /\ u = CHOOSE o \in AcUsers: acUser[o] = "none"
AcNextTeam(t) == acTeam[t] = "none" /\ t = CHOOSE o \in AcTeams: acTeam[o] = "none"
AcOtherOwner(u, t) == \E o \in AcUsers \ {u}: AcOwns(o, t)

AcInit == /\ acUser = [u \in AcUsers |-> "none"]
          /\ acDefault = [u \in AcUsers |-> AcNone]
          /\ acTeam = [t \in AcTeams |-> "none"]
          /\ acContent = [t \in AcTeams |-> FALSE]
          /\ acRoles = [t \in AcTeams |-> [u \in AcUsers |-> <<>>]]
          /\ acInvites = <<>>
          /\ acNoted = {}
          /\ acReq = [r \in AcRequests |-> AcIdle]
          /\ acQueue = {} /\ acAsked = {}
          /\ acJob = AcNoJob
          /\ acRaced = FALSE /\ acLate = FALSE
------------------------------------------------------------------------------
(* Requests of one step.                                                     *)

\* auth_github_callback and _create_user_with_team, for an address the
\* allowlist admits: a new user owns a team of its own, the default one.
AcLogin(u, t) ==
  /\ AcNextUser(u) /\ AcNextTeam(t)
  /\ acUser' = [acUser EXCEPT ![u] = "active"]
  /\ acTeam' = [acTeam EXCEPT ![t] = "active"]
  /\ acDefault' = [acDefault EXCEPT ![u] = t]
  /\ acRoles' = [acRoles EXCEPT ![t][u] = <<"owner">>]
  /\ UNCHANGED <<acContent, acInvites, acNoted, acReq, acAsked, acQueue, acJob, acHistory>>

\* new_team, also by a user who is being deleted.
AcNewTeam(u, t) ==
  /\ AcSignedIn(u) /\ AcNextTeam(t)
  /\ acTeam' = [acTeam EXCEPT ![t] = "active"]
  /\ acRoles' = [acRoles EXCEPT ![t][u] = <<"owner">>]
  /\ acRaced' = (acRaced \/ acJob.user = u)
  /\ UNCHANGED <<acUser, acDefault, acContent, acInvites, acNoted, acReq, acAsked, acQueue, acJob, acLate>>

\* A project or a storage of the team is created, even while a job deletes it.
\* Bound: one team has any at a time.
AcNewContent(u, t) ==
  /\ AcMember(u, t) /\ \A o \in AcTeams: ~acContent[o]
  /\ acContent' = [acContent EXCEPT ![t] = TRUE]
  /\ acLate' = (acLate \/ acJob.team = t)
  /\ UNCHANGED <<acUser, acDefault, acTeam, acRoles, acInvites, acNoted, acReq, acAsked, acQueue, acJob,
                 acRaced>>

\* team_settings, delete_member: any admin removes anyone, owners included.
AcRemoveMember(a, u, t) ==
  /\ AcAdmin(a, t) /\ AcIn(u, t)
  /\ acRoles' = [acRoles EXCEPT ![t][u] = Tail(@)]
  /\ acRaced' = (acRaced \/ AcRole(u, t) = "owner")
  /\ UNCHANGED <<acUser, acDefault, acTeam, acContent, acInvites, acNoted, acReq, acAsked, acQueue, acJob, acLate>>

\* team_settings, revoke_member_invite: the row of a pending invite is deleted.
AcRevoke(a, i) ==
  /\ i \in DOMAIN acInvites /\ acInvites[i].status = "pending" /\ AcAdmin(a, acInvites[i].team)
  /\ acInvites' = [acInvites EXCEPT ![i] = AcNoInvite]
  /\ UNCHANGED <<acUser, acDefault, acTeam, acContent, acRoles, acNoted, acReq, acAsked, acQueue, acJob, acHistory>>

\* Mutant: an invite once answered can be answered again.
AcPendingAny(i) == i \in DOMAIN acInvites /\ acInvites[i].status # "deleted" /\ AcSignedIn(acInvites[i].user)
\* _pending_invite.
AcPending(i) == i \in DOMAIN acInvites /\ acInvites[i].status = "pending" /\ AcSignedIn(acInvites[i].user)
\* user_notifications, decline_invite; an invite that expires is as good as declined.
AcDecline(i) ==
  /\ AcPending(i)
  /\ acInvites' = [acInvites EXCEPT ![i].status = "settled"]
  /\ UNCHANGED <<acUser, acDefault, acTeam, acContent, acRoles, acNoted, acReq, acAsked, acQueue, acJob, acHistory>>

\* Bound: one deletion at a time, from its request to the end of its job.
AcNoDeletion == acQueue = {} /\ acJob = AcNoJob

\* team_settings, danger: not for a team that is anybody's default. The job is
\* enqueued; the status goes to the form and the team stays usable.
AcDeleteTeam(u, t) ==
  /\ AcNoDeletion /\ AcMember(u, t) /\ AcRole(u, t) = "owner"
  /\ \A o \in AcUsers: acDefault[o] # t
  /\ acQueue' = acQueue \cup {<<"team", t>>}
  /\ UNCHANGED <<acTables, acReq, acAsked, acJob, acHistory>>

\* user_settings, danger.
AcDeleteUser(u) ==
  /\ AcNoDeletion /\ AcSignedIn(u)
  /\ acQueue' = acQueue \cup {<<"user", u>>}
  /\ acAsked' = acAsked \cup {u}
  /\ UNCHANGED <<acTables, acReq, acJob, acHistory>>

\* admin_settings, delete_user: by the superadmin, who cannot be deleted. The user
\* is marked as deleted, which nothing but this page looks at, and stays signed in.
AcAdminDelete(a, u) == AcSignedIn(a) /\ a # u /\ AcDeleteUser(u)
------------------------------------------------------------------------------
(* Requests that check and then act.                                         *)

AcBusy(r) == acReq[r].op # "idle"
AcBegin(r, req) ==
  /\ ~AcBusy(r)
  /\ acReq' = [acReq EXCEPT ![r] = req]
  /\ acRaced' = (acRaced \/ acJob.kind # "idle" \/ \E o \in AcRequests: AcBusy(o))
  /\ UNCHANGED <<acTables, acAsked, acQueue, acJob, acLate>>
AcEnd(r) == acReq' = [acReq EXCEPT ![r] = AcIdle]

\* TeamMemberAddForm.async_validate_email: not a member, no pending invite, and
\* an account with this address.
AcMayInvite(u, t) ==
  /\ acUser[u] = "active" /\ ~AcIn(u, t)
  /\ \A i \in DOMAIN acInvites:
       ~(acInvites[i].team = t /\ acInvites[i].user = u /\ acInvites[i].status = "pending")

\* team_settings, add_member: the invite is for a member or an admin ...
AcInviteCheck(r, a, u, t, role) ==
  /\ AcAdmin(a, t) /\ AcMayInvite(u, t) /\ role # "owner"
  /\ Len(acInvites) + Cardinality({o \in AcRequests: acReq[o].op = "invite"}) < AcMaxInvites
  /\ AcBegin(r, [op |-> "invite", team |-> t, user |-> u, arg |-> a, role |-> role])
\* ... and the invited user is notified; keys may have gone meanwhile.
AcInviteCommit(r) ==
  LET q == acReq[r]
  IN /\ q.op = "invite"
     /\ IF acTeam[q.team] = "active" /\ acUser[q.arg] = "active"
        THEN /\ acInvites' = Append(acInvites, [team |-> q.team, user |-> q.user, by |-> q.arg,
                                                role |-> q.role, status |-> "pending"])
             /\ acNoted' = IF acUser[q.user] = "active" THEN acNoted \cup {q.user} ELSE acNoted
        ELSE UNCHANGED <<acInvites, acNoted>>
     /\ AcEnd(r)
     /\ UNCHANGED <<acUser, acDefault, acTeam, acContent, acRoles, acAsked, acQueue, acJob, acHistory>>

\* team_settings, member_role, with TeamMemberRoleForm.async_validate_role: an
\* owner is demoted only if there is another one.
AcRoleCheck(r, a, u, t, role) ==
  /\ AcAdmin(a, t) /\ AcIn(u, t)
  /\ AcRole(u, t) = "owner" /\ role # "owner" => AcOtherOwner(u, t)
  /\ AcBegin(r, [op |-> "role", team |-> t, user |-> u, arg |-> 0, role |-> role])
AcRoleCommit(r) ==
  LET q == acReq[r]
  IN /\ q.op = "role"
     /\ acRoles' = IF AcIn(q.user, q.team) THEN [acRoles EXCEPT ![q.team][q.user][1] = q.role] ELSE acRoles
     /\ AcEnd(r)
     /\ UNCHANGED <<acUser, acDefault, acTeam, acContent, acInvites, acNoted, acAsked, acQueue, acJob, acHistory>>

\* Mutant: the owners are counted with the one who leaves.
AcMayLeaveAnyway(u, t) == acDefault[u] # t /\ (AcRole(u, t) = "owner" => AcOwns(u, t))
\* user_settings, teams: not the default team, and not its last owner.
AcMayLeave(u, t) == acDefault[u] # t /\ (AcRole(u, t) = "owner" => AcOtherOwner(u, t))
AcLeaveCheck(r, u, t) ==
  /\ AcMember(u, t) /\ AcMayLeave(u, t)
  /\ AcBegin(r, [op |-> "leave", team |-> t, user |-> u, arg |-> 0, role |-> AcRole(u, t)])
AcLeaveCommit(r) ==
  LET q == acReq[r]
  IN /\ q.op = "leave"
     /\ acRoles' = IF AcIn(q.user, q.team) THEN [acRoles EXCEPT ![q.team][q.user] = Tail(@)] ELSE acRoles
     /\ AcEnd(r)
     /\ UNCHANGED <<acUser, acDefault, acTeam, acContent, acInvites, acNoted, acAsked, acQueue, acJob, acHistory>>

\* user_notifications, accept_invite.
AcAcceptCheck(r, i) ==
  /\ AcPending(i)
  /\ AcBegin(r, [op |-> "accept", team |-> acInvites[i].team, user |-> acInvites[i].user,
                 arg |-> i, role |-> acInvites[i].role])
\* Mutant: the invite is not written to, so nobody notices that it is gone.
AcAcceptableLate(q) == acTeam[q.team] = "active" /\ acUser[q.user] = "active"
\* The UPDATE of the invite fails the request if its row is gone.
AcAcceptable(q) == acInvites[q.arg].status # "deleted" /\ acUser[q.user] = "active"
\* Its status is not looked at again, and nothing keeps a user from a second
\* membership.
AcAcceptCommit(r) ==
  LET q == acReq[r]
  IN /\ q.op = "accept"
     /\ IF AcAcceptable(q)
        THEN /\ acInvites' = [acInvites EXCEPT ![q.arg].status = "settled"]
             /\ acRoles' = [acRoles EXCEPT ![q.team][q.user] = Append(@, q.role)]
        ELSE UNCHANGED <<acInvites, acRoles>>
     /\ AcEnd(r)
     /\ UNCHANGED <<acUser, acDefault, acTeam, acContent, acNoted, acAsked, acQueue, acJob, acHistory>>
------------------------------------------------------------------------------
(* Jobs.                                                                     *)

AcDropInvites(doomed) ==
  [i \in DOMAIN acInvites |-> IF i \in doomed THEN AcNoInvite ELSE acInvites[i]]
AcHold(job) == acJob' = job /\ acRaced' = (acRaced \/ \E r \in AcRequests: AcBusy(r))

\* Teams with one row of an owner, the user's: delete_user deletes them too.
AcOwnerRows(t) == {e \in AcUsers \X (1..AcMaxInvites + 1):
                     e[2] <= Len(acRoles[t][e[1]]) /\ acRoles[t][e[1]][e[2]] = "owner"}
AcSoleTeams(u) == {t \in AcTeams: AcOwns(u, t) /\ Cardinality(AcOwnerRows(t)) = 1}

\* delete_team and delete_user begin: a missing row ends the job. The projects
\* known now are deleted one by one.
AcTeamLoad(t) ==
  /\ acJob = AcNoJob /\ <<"team", t>> \in acQueue
  /\ acQueue' = acQueue \ {<<"team", t>>}
  /\ IF acTeam[t] = "active"
     THEN AcHold([AcNoJob EXCEPT !.kind = "team", !.team = t]) /\ acContent' = [acContent EXCEPT ![t] = FALSE]
     ELSE UNCHANGED <<acJob, acContent, acRaced>>
  /\ UNCHANGED <<acUser, acDefault, acTeam, acRoles, acInvites, acNoted, acReq, acAsked, acLate>>
AcUserLoad(u) ==
  /\ acJob = AcNoJob /\ <<"user", u>> \in acQueue
  /\ acQueue' = acQueue \ {<<"user", u>>}
  /\ IF acUser[u] = "active"
     THEN AcHold([AcNoJob EXCEPT !.kind = "user", !.user = u, !.todo = AcSoleTeams(u)])
     ELSE UNCHANGED <<acJob, acRaced>>
  /\ UNCHANGED <<acTables, acReq, acAsked, acLate>>

\* delete_user calls delete_team for each of them, in a session of its own.
AcUserTeam(t) ==
  /\ acJob.kind = "user" /\ acJob.team = AcNone /\ t \in acJob.todo
  /\ acJob' = [acJob EXCEPT !.team = IF acTeam[t] = "active" THEN t ELSE AcNone, !.todo = @ \ {t}]
  /\ acContent' = [acContent EXCEPT ![t] = FALSE]
  /\ UNCHANGED <<acUser, acDefault, acTeam, acRoles, acInvites, acNoted, acReq, acAsked, acQueue, acHistory>>

AcDefaultCleared(t) == [u \in AcUsers |-> IF acDefault[u] = t THEN AcNone ELSE acDefault[u]]
\* The end of delete_team: members, invites and default teams go, then the team,
\* unless a project created meanwhile still refers to it: then nothing does.
AcTeamFinal(t) ==
  /\ acJob.team = t /\ t # AcNone
  /\ IF acContent[t]
     THEN acJob' = AcNoJob /\ UNCHANGED acTables
     ELSE /\ acTeam' = [acTeam EXCEPT ![t] = "gone"]
          /\ acRoles' = [acRoles EXCEPT ![t] = [u \in AcUsers |-> <<>>]]
          /\ acInvites' = AcDropInvites({i \in DOMAIN acInvites: acInvites[i].team = t})
          /\ acDefault' = AcDefaultCleared(t)
          /\ acJob' = IF acJob.kind = "team" THEN AcNoJob ELSE [acJob EXCEPT !.team = AcNone]
          /\ UNCHANGED <<acUser, acContent, acNoted>>
  /\ UNCHANGED <<acReq, acAsked, acQueue, acHistory>>

\* Mutant: the invites the user has sent are not deleted and refer to the row.
AcReferredInviter(u) == u \in acNoted \/ \E i \in DOMAIN acInvites: acInvites[i].by = u
\* What still refers to the row of the user: its notifications.
AcReferred(u) == u \in acNoted
\* The end of delete_user: memberships, invites, identities and the user, unless
\* a notification still refers to it: then nothing but the teams is deleted.
AcUserFinal(u) ==
  /\ acJob.kind = "user" /\ acJob.user = u /\ acJob.team = AcNone /\ acJob.todo = {}
  /\ acJob' = AcNoJob
  /\ IF AcReferred(u)
     THEN UNCHANGED acTables
     ELSE /\ acUser' = [acUser EXCEPT ![u] = "gone"]
          /\ acDefault' = [acDefault EXCEPT ![u] = AcNone]
          /\ acRoles' = [t \in AcTeams |-> [acRoles[t] EXCEPT ![u] = <<>>]]
          /\ acInvites' = AcDropInvites({i \in DOMAIN acInvites: u \in {acInvites[i].user, acInvites[i].by}})
          /\ UNCHANGED <<acTeam, acContent, acNoted>>
  /\ UNCHANGED <<acReq, acAsked, acQueue, acHistory>>

AcJobStep == \E t \in AcTeams, u \in AcUsers:
  AcTeamLoad(t) \/ AcUserLoad(u) \/ AcUserTeam(t) \/ AcTeamFinal(t) \/ AcUserFinal(u)
AcCommit(r) == AcInviteCommit(r) \/ AcRoleCommit(r) \/ AcLeaveCommit(r) \/ AcAcceptCommit(r)
AcNext ==
  \/ \E u \in AcUsers, t \in AcTeams:
       \/ AcLogin(u, t) \/ AcNewTeam(u, t) \/ AcNewContent(u, t)
       \/ AcDeleteTeam(u, t) \/ AcDeleteUser(u)
       \/ \E a \in AcUsers: AcRemoveMember(a, u, t) \/ AcAdminDelete(a, u)
       \/ \E a \in AcUsers, r \in AcRequests, role \in AcRoles:
            AcInviteCheck(r, a, u, t, role) \/ AcRoleCheck(r, a, u, t, role)
       \/ \E r \in AcRequests: AcLeaveCheck(r, u, t)
  \/ \E i \in 1..AcMaxInvites:
       \/ \E a \in AcUsers: AcRevoke(a, i)
       \/ AcDecline(i)
       \/ \E r \in AcRequests: AcAcceptCheck(r, i)
  \/ \E r \in AcRequests: AcCommit(r)
  \/ AcJobStep

\* The worker runs its jobs.
AcFairness == WF_acVars(AcJobStep)
AcSpec == AcInit /\ [][AcNext]_acVars /\ AcFairness
------------------------------------------------------------------------------
(* Properties.                                                               *)

\* Every value is typed and every reference in the tables is to an existing row.
AcTypeOK ==
  /\ acUser \in [AcUsers -> {"none", "active", "gone"}]
  /\ acTeam \in [AcTeams -> {"none", "active", "gone"}]
  /\ acContent \in [AcTeams -> BOOLEAN]
  /\ acNoted \subseteq {u \in AcUsers: acUser[u] = "active"}
  /\ \A u \in AcUsers: acDefault[u] # AcNone => acUser[u] = "active" /\ acTeam[acDefault[u]] = "active"
  /\ \A t \in AcTeams, u \in AcUsers:
       /\ acRoles[t][u] \in Seq(AcRoles)
       /\ AcIn(u, t) => acUser[u] = "active" /\ acTeam[t] = "active"
  /\ \A i \in DOMAIN acInvites:
       acInvites[i].status # "deleted" => acTeam[acInvites[i].team] = "active"
                                          /\ acUser[acInvites[i].by] = "active"

\* "There must be at least one owner" (forms/team.py): leaving, demoting,
\* deleting one's account and accepting invites in any order leave every team
\* with an owner, unless two of them overlap, an admin removes an owner or a user
\* makes a team while being deleted.
AcOwnerKept ==
  \A t \in AcTeams: acTeam[t] = "active" /\ ~acRaced => \E u \in AcUsers: AcOwns(u, t)

\* A user is in a team once, although no constraint of the table says so, unless
\* two requests overlapped.
AcOncePerTeam == ~acRaced => \A t \in AcTeams, u \in AcUsers: Len(acRoles[t][u]) <= 1

\* A revoked invite lets nobody in: a membership by invite appears only in a step
\* that settles an existing invite of that user, even if the accept
\* had read the invite before it was revoked.
AcRevokedStays ==
  [][\A t \in AcTeams, u \in AcUsers:
       Len(acRoles'[t][u]) > Len(acRoles[t][u]) /\ acTeam[t] = "active"
       => \E i \in DOMAIN acInvites: /\ acInvites[i].team = t /\ acInvites[i].user = u
                                     /\ acInvites'[i].status = "settled"]_acVars

\* A user who asks for it is deleted, with the teams nobody else owns, unless
\* the user was ever notified of something or a team got a project meanwhile.
AcAccountGone ==
  []<>(\A u \in acAsked: acUser[u] = "gone" \/ u \in acNoted \/ acLate)
==============================================================================
