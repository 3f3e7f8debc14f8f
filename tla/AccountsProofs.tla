---------------------------- MODULE AccountsProofs ----------------------------
(* Theorems about Accounts for any users, teams, requests and invites.        *)
EXTENDS Accounts, FiniteSetTheorems, SequenceTheorems, TLAPS

AcAnyRole == {"owner", "admin", "member"}
AcRows == Seq(AcAnyRole)
AcInvite == [team: AcTeams \cup {AcNone}, user: AcUsers \cup {AcNone}, by: AcUsers \cup {AcNone},
             role: AcAnyRole, status: {"pending", "settled", "deleted"}]
AcRequest == [op: {"idle", "invite", "role", "leave", "accept"}, team: AcTeams \cup {AcNone},
              user: AcUsers \cup {AcNone}, arg: AcUsers \cup Nat, role: AcAnyRole]

AcTypes ==
  /\ acUser \in [AcUsers -> {"none", "active", "gone"}] /\ acTeam \in [AcTeams -> {"none", "active", "gone"}]
  /\ acRoles \in [AcTeams -> [AcUsers -> AcRows]]
  /\ acInvites \in Seq(AcInvite)
  /\ acReq \in [AcRequests -> AcRequest]
  /\ acJob \in [kind: {"idle", "team", "user"}, team: AcTeams \cup {AcNone}, user: AcUsers \cup {AcNone},
                todo: SUBSET AcTeams]
  /\ acRaced \in BOOLEAN

(* What invites, requests and the job refer to.                               *)
AcInviteKnown(i) == acInvites[i].status # "deleted" =>
  acInvites[i].team \in AcTeams /\ acInvites[i].user \in AcUsers /\ acTeam[acInvites[i].team] # "none"
AcReqKnown(q) == q.op # "idle" =>
  /\ q.team \in AcTeams /\ q.user \in AcUsers /\ acTeam[q.team] # "none"
  /\ q.op = "invite" => q.arg \in AcUsers
  /\ q.op = "accept" => /\ q.arg \in DOMAIN acInvites
                        /\ acInvites[q.arg].status # "deleted" =>
                             acInvites[q.arg].team = q.team /\ acInvites[q.arg].user = q.user
AcKnown == /\ \A i \in DOMAIN acInvites: AcInviteKnown(i)
           /\ \A r \in AcRequests: AcReqKnown(acReq[r])
           /\ acJob.kind = "user" => acJob.user \in AcUsers /\ acUser[acJob.user] = "active"
           /\ acJob.kind = "idle" => acJob.team = AcNone

(* As long as nothing has overlapped: a request is alone, ...                 *)
AcAlone == \A r \in AcRequests: AcBusy(r) =>
  acJob.kind = "idle" /\ \A o \in AcRequests: AcBusy(o) => o = r
(* ... one is in a team once, not while invited or being invited, ...         *)
AcAsks(i, t, u) == acInvites[i].status = "pending" /\ acInvites[i].team = t /\ acInvites[i].user = u
AcOnce == \A t \in AcTeams, u \in AcUsers:
  /\ Len(acRoles[t][u]) <= 1
  /\ \A i, j \in DOMAIN acInvites: AcAsks(i, t, u) => ~AcIn(u, t) /\ (AcAsks(j, t, u) => i = j)
AcReqOnce(q) ==
  /\ q.op \in {"invite", "accept"} => ~AcIn(q.user, q.team)
  /\ \A i \in DOMAIN acInvites: AcAsks(i, q.team, q.user) => /\ q.op # "invite"
                                                             /\ q.op = "accept" => i = q.arg
(* ... and a team has an owner, besides one who leaves or is demoted, and     *)
(* besides a user who is deleted, unless it goes first.                       *)
AcOwned == \A t \in AcTeams: acTeam[t] = "active" => \E u \in AcUsers: AcOwns(u, t)
AcReqOwned(q) == q.op = "leave" \/ (q.op = "role" /\ q.role # "owner") => AcOtherOwner(q.user, q.team)
AcJobOwned == acJob.kind = "user" =>
  \A t \in AcTeams: acTeam[t] = "active" => t \in acJob.todo \/ t = acJob.team \/ AcOtherOwner(acJob.user, t)

AcQuiet == /\ AcAlone /\ AcOnce /\ AcOwned /\ AcJobOwned
           /\ \A r \in AcRequests: AcReqOnce(acReq[r]) /\ AcReqOwned(acReq[r])
AcInv == AcTypes /\ AcKnown /\ (~acRaced => AcQuiet)

(* Rows of one user in one team.                                              *)
LEMMA AcRowFacts ==
  ASSUME NEW s \in AcRows
  PROVE  /\ Len(s) \in Nat /\ DOMAIN s = 1..Len(s)
         /\ \A role \in AcAnyRole: /\ Append(s, role) \in AcRows /\ Len(Append(s, role)) = Len(s) + 1
                                   /\ \A i \in DOMAIN s: i \in DOMAIN Append(s, role) /\ Append(s, role)[i] = s[i]
         /\ Len(s) > 0 => Tail(s) \in AcRows /\ Len(Tail(s)) = Len(s) - 1
         /\ \A role \in AcAnyRole: Len(s) > 0 => /\ [s EXCEPT ![1] = role] \in AcRows
                                                 /\ Len([s EXCEPT ![1] = role]) = Len(s)
<1>1. Len(s) \in Nat /\ DOMAIN s = 1..Len(s)
  BY LenProperties DEF AcRows
<1>2. ASSUME NEW role \in AcAnyRole
      PROVE  /\ Append(s, role) \in AcRows /\ Len(Append(s, role)) = Len(s) + 1
             /\ \A i \in DOMAIN s: i \in DOMAIN Append(s, role) /\ Append(s, role)[i] = s[i]
  <2>1. /\ Append(s, role) \in AcRows /\ Len(Append(s, role)) = Len(s) + 1
        /\ \A i \in 1..Len(s): Append(s, role)[i] = s[i]
    BY AppendProperties DEF AcRows
  <2>2. DOMAIN Append(s, role) = 1..(Len(s) + 1)
    BY <2>1, LenProperties DEF AcRows
  <2>. QED BY <1>1, <2>1, <2>2
<1>3. Len(s) > 0 => Tail(s) \in AcRows /\ Len(Tail(s)) = Len(s) - 1
  <2>1. Len(s) > 0 => s # <<>>
    BY EmptySeq
  <2>. QED BY <2>1, HeadTailProperties DEF AcRows
<1>4. ASSUME NEW role \in AcAnyRole, Len(s) > 0
      PROVE  [s EXCEPT ![1] = role] \in AcRows /\ Len([s EXCEPT ![1] = role]) = Len(s)
  <2>1. 1 \in 1..Len(s)
    BY <1>1, <1>4
  <2>. QED BY <2>1, <1>4, ExceptSeq DEF AcRows
<1>. QED BY <1>1, <1>2, <1>3, <1>4

(* One row of acRoles changes.                                                *)
LEMMA AcRowStep ==
  ASSUME AcTypes, NEW t \in AcTeams, NEW u \in AcUsers, NEW s \in AcRows,
         acRoles' = [acRoles EXCEPT ![t][u] = s]
  PROVE  /\ acRoles' \in [AcTeams -> [AcUsers -> AcRows]]
         /\ acRoles'[t][u] = s
         /\ \A t2 \in AcTeams, u2 \in AcUsers: t2 # t \/ u2 # u => acRoles'[t2][u2] = acRoles[t2][u2]
BY DEF AcTypes

LEMMA AcInvitesShape ==
  ASSUME NEW invites \in Seq(AcInvite)
  PROVE  /\ Len(invites) \in Nat /\ DOMAIN invites = 1..Len(invites)
         /\ \A i \in DOMAIN invites: invites[i] \in AcInvite
BY LenProperties

LEMMA AcInvitesMapped ==
  ASSUME NEW invites \in Seq(AcInvite), NEW new, DOMAIN new = DOMAIN invites,
         new = [i \in DOMAIN invites |-> new[i]], \A i \in DOMAIN invites: new[i] \in AcInvite
  PROVE  new \in Seq(AcInvite)
<1>1. Len(invites) \in Nat /\ DOMAIN invites = 1..Len(invites)
  BY AcInvitesShape
<1>2. new \in [1..Len(invites) -> AcInvite]
  BY <1>1
<1>. QED BY <1>1, <1>2, SeqDef

LEMMA AcInitInv == AcInit => AcInv
<1>. SUFFICES ASSUME AcInit PROVE AcInv
  OBVIOUS
<1>1. <<>> \in AcRows /\ Len(<<>>) = 0 /\ <<>> \in Seq(AcInvite) /\ DOMAIN acInvites = {}
  BY EmptySeq DEF AcRows, AcInit
<1>2. AcTypes
  BY <1>1 DEF AcInit, AcTypes, AcIdle, AcNoJob, AcRequest, AcAnyRole
<1>3. \A r \in AcRequests: acReq[r].op = "idle" /\ ~AcBusy(r)
  BY DEF AcInit, AcIdle, AcBusy
<1>4. acJob.kind = "idle" /\ acJob.team = AcNone /\ (\A t \in AcTeams: acTeam[t] = "none") /\ \A t \in AcTeams, u \in AcUsers: acRoles[t][u] = <<>>
  BY DEF AcInit, AcNoJob
<1>5. AcKnown
  BY <1>1, <1>3, <1>4 DEF AcKnown, AcReqKnown
<1>6. AcQuiet
  BY <1>1, <1>3, <1>4 DEF AcQuiet, AcAlone, AcOnce, AcOwned, AcJobOwned, AcReqOnce, AcReqOwned
<1>. QED BY <1>2, <1>5, <1>6 DEF AcInv

(* Steps that change nothing the invariant is about.                          *)
LEMMA AcStillInv ==
  ASSUME AcInv, UNCHANGED <<acUser, acTeam, acRoles, acInvites, acReq, acJob, acRaced>>
  PROVE  AcInv'
<1>1. AcTypes'
  BY DEF AcInv, AcTypes
<1>2. AcKnown'
  BY DEF AcInv, AcKnown, AcInviteKnown, AcReqKnown
<1>3. AcQuiet => AcQuiet'
  BY DEF AcQuiet, AcAlone, AcBusy, AcOnce, AcOwned, AcJobOwned, AcReqOnce, AcReqOwned, AcAsks, AcIn, AcOwns,
         AcOwnsIn, AcOtherOwner
<1>. QED BY <1>1, <1>2, <1>3 DEF AcInv

(* A new team has an owner.                                                   *)
LEMMA AcTeamMadeInv ==
  ASSUME AcInv, NEW u \in AcUsers, NEW t \in AcTeams, acTeam[t] = "none", AcTypes',
         acTeam' = [acTeam EXCEPT ![t] = "active"], acRoles' = [acRoles EXCEPT ![t][u] = <<"owner">>],
         acJob.kind = "user" => acUser'[acJob.user] = "active",
         ~acRaced' => ~acRaced /\ (acJob.kind = "user" => acJob.user # u),
         UNCHANGED <<acInvites, acReq, acJob>>
  PROVE  AcInv'
<1>1. <<"owner">> \in AcRows /\ Len(<<"owner">>) = 1 /\ DOMAIN <<"owner">> = {1} /\ <<"owner">>[1] = "owner"
  BY DEF AcRows, AcAnyRole
<1>2. /\ acRoles'[t][u] = <<"owner">>
      /\ \A t2 \in AcTeams, u2 \in AcUsers: t2 # t \/ u2 # u => acRoles'[t2][u2] = acRoles[t2][u2]
  BY <1>1 DEF AcInv, AcTypes
<1>3. \A t2 \in AcTeams: acTeam'[t2] = IF t2 = t THEN "active" ELSE acTeam[t2]
  BY DEF AcInv, AcTypes
<1>4. AcKnown'
  BY <1>3 DEF AcInv, AcKnown, AcInviteKnown, AcReqKnown
<1>5. /\ AcOwns(u, t)'
      /\ \A t2 \in AcTeams, u2 \in AcUsers: t2 # t => (AcOwns(u2, t2)' <=> AcOwns(u2, t2))
      /\ \A t2 \in AcTeams, u2 \in AcUsers: t2 # t => (AcIn(u2, t2)' <=> AcIn(u2, t2))
  BY <1>1, <1>2 DEF AcOwns, AcOwnsIn, AcIn
<1>6. ASSUME AcQuiet, ~acRaced' PROVE AcQuiet'
  <2>1. AcAlone'
    BY <1>6 DEF AcQuiet, AcAlone, AcBusy
  <2>2. AcOnce'
    <3>1. \A i \in DOMAIN acInvites, u2 \in AcUsers: ~AcAsks(i, t, u2)
      BY DEF AcInv, AcKnown, AcInviteKnown, AcAsks
    <3>. QED BY <1>1, <1>2, <1>5, <1>6, <3>1 DEF AcQuiet, AcOnce, AcAsks
  <2>3. AcOwned'
    BY <1>3, <1>5, <1>6 DEF AcQuiet, AcOwned
  <2>4. AcJobOwned'
    BY <1>3, <1>5, <1>6 DEF AcQuiet, AcJobOwned, AcOtherOwner
  <2>5. ASSUME NEW r \in AcRequests PROVE AcReqOnce(acReq[r])' /\ AcReqOwned(acReq[r])'
    <3>1. acReq[r].op # "idle" => acReq[r].team \in AcTeams /\ acReq[r].team # t /\ acReq[r].user \in AcUsers
      BY <2>5 DEF AcInv, AcKnown, AcReqKnown
    <3>. QED BY <1>5, <1>6, <3>1 DEF AcQuiet, AcReqOnce, AcReqOwned, AcAsks, AcOtherOwner
  <2>. QED BY <2>1, <2>2, <2>3, <2>4, <2>5 DEF AcQuiet
<1>. QED BY <1>4, <1>6 DEF AcInv

LEMMA AcLoginInv == ASSUME AcInv, NEW u \in AcUsers, NEW t \in AcTeams, AcLogin(u, t) PROVE AcInv'
<1>1. /\ acTeam' = [acTeam EXCEPT ![t] = "active"] /\ acRoles' = [acRoles EXCEPT ![t][u] = <<"owner">>]
      /\ acUser' = [acUser EXCEPT ![u] = "active"] /\ acUser[u] = "none" /\ acTeam[t] = "none"
      /\ UNCHANGED <<acInvites, acReq, acJob, acRaced>>
  BY DEF AcLogin, AcNextUser, AcNextTeam, acHistory
<1>2. <<"owner">> \in AcRows
  BY DEF AcRows, AcAnyRole
<1>3. AcTypes'
  BY <1>1, <1>2, AcRowStep DEF AcInv, AcTypes
<1>4. acJob.kind = "user" => acUser'[acJob.user] = "active" /\ acJob.user # u
  BY <1>1 DEF AcInv, AcTypes, AcKnown
<1>. QED BY <1>1, <1>3, <1>4, AcTeamMadeInv

LEMMA AcNewTeamInv == ASSUME AcInv, NEW u \in AcUsers, NEW t \in AcTeams, AcNewTeam(u, t) PROVE AcInv'
<1>1. /\ acTeam' = [acTeam EXCEPT ![t] = "active"] /\ acRoles' = [acRoles EXCEPT ![t][u] = <<"owner">>]
      /\ acTeam[t] = "none" /\ acRaced' = (acRaced \/ acJob.user = u)
      /\ UNCHANGED <<acUser, acInvites, acReq, acJob>>
  BY DEF AcNewTeam, AcNextTeam
<1>2. <<"owner">> \in AcRows
  BY DEF AcRows, AcAnyRole
<1>3. AcTypes'
  BY <1>1, <1>2, AcRowStep DEF AcInv, AcTypes
<1>4. acJob.kind = "user" => acUser'[acJob.user] = "active"
  BY <1>1 DEF AcInv, AcKnown
<1>. QED BY <1>1, <1>3, <1>4, AcTeamMadeInv

(* Memberships that are not new, as long as owners are left where needed.     *)
LEMMA AcFewerRowsInv ==
  ASSUME AcInv, AcTypes', UNCHANGED <<acUser, acTeam, acInvites, acJob>>, acRaced => acRaced',
         \A r \in AcRequests: acReq'[r] = acReq[r] \/ acReq'[r] = AcIdle,
         \A t \in AcTeams, u \in AcUsers: Len(acRoles'[t][u]) <= Len(acRoles[t][u]),
         ~acRaced' /\ AcQuiet => AcOwned' /\ AcJobOwned' /\ \A r \in AcRequests: AcReqOwned(acReq[r])'
  PROVE  AcInv'
<1>1. AcIdle.op = "idle"
  BY DEF AcIdle
<1>2. AcKnown'
  BY <1>1 DEF AcInv, AcKnown, AcInviteKnown, AcReqKnown
<1>3. \A r \in AcRequests: AcBusy(r)' => AcBusy(r) /\ acReq'[r] = acReq[r]
  BY <1>1 DEF AcBusy
<1>4. \A t \in AcTeams, u \in AcUsers: /\ AcIn(u, t)' => AcIn(u, t)
                                       /\ Len(acRoles[t][u]) <= 1 => Len(acRoles'[t][u]) <= 1
  <2>1. ASSUME NEW t \in AcTeams, NEW u \in AcUsers
        PROVE  Len(acRoles[t][u]) \in Nat /\ Len(acRoles'[t][u]) \in Nat
    BY AcRowFacts DEF AcInv, AcTypes
  <2>. QED BY <2>1 DEF AcIn
<1>5. ASSUME ~acRaced', AcQuiet PROVE AcQuiet'
  <2>1. AcAlone'
    BY <1>3, <1>5 DEF AcQuiet, AcAlone
  <2>2. AcOnce'
    BY <1>4, <1>5 DEF AcQuiet, AcOnce, AcAsks
  <2>3. ASSUME NEW r \in AcRequests PROVE AcReqOnce(acReq[r])'
    <3>1. CASE ~AcBusy(r)'
      <4>1. acReq'[r].op = "idle"
        BY <3>1 DEF AcBusy
      <4>. QED BY <4>1 DEF AcReqOnce
    <3>2. CASE AcBusy(r)'
      <4>1. acReq'[r] = acReq[r] /\ acReq[r].team \in AcTeams /\ acReq[r].user \in AcUsers
        BY <1>3, <3>2 DEF AcInv, AcKnown, AcReqKnown, AcBusy
      <4>. QED BY <1>4, <1>5, <4>1 DEF AcQuiet, AcReqOnce, AcAsks
    <3>. QED BY <3>1, <3>2
  <2>. QED BY <1>5, <2>1, <2>2, <2>3 DEF AcQuiet
<1>. QED BY <1>2, <1>5 DEF AcInv

(* Invites that are settled or deleted.                                       *)
AcWorn(i) == \/ acInvites'[i] = acInvites[i] \/ acInvites'[i] = AcNoInvite
             \/ /\ acInvites[i].status = "pending"
                /\ acInvites'[i] = [acInvites[i] EXCEPT !.status = "settled"]
AcFewerInvites == /\ acInvites' \in Seq(AcInvite) /\ DOMAIN acInvites' = DOMAIN acInvites
                  /\ \A i \in DOMAIN acInvites: AcWorn(i)

LEMMA AcFewerInvitesAsk ==
  ASSUME AcTypes, AcFewerInvites, NEW i \in DOMAIN acInvites
  PROVE  /\ acInvites'[i].status # "deleted" =>
              /\ acInvites[i].status # "deleted"
              /\ acInvites'[i].team = acInvites[i].team /\ acInvites'[i].user = acInvites[i].user
         /\ \A t, u: AcAsks(i, t, u)' => AcAsks(i, t, u)
<1>1. acInvites[i] \in AcInvite
  BY AcInvitesShape DEF AcTypes
<1>2. AcNoInvite.status = "deleted"
  BY DEF AcNoInvite
<1>. QED BY <1>1, <1>2 DEF AcFewerInvites, AcWorn, AcAsks, AcInvite

LEMMA AcFewerInvitesInv ==
  ASSUME AcInv, AcFewerInvites, UNCHANGED <<acUser, acTeam, acRoles, acReq, acJob, acRaced>>
  PROVE  AcInv'
<1>1. AcTypes'
  BY DEF AcInv, AcTypes, AcFewerInvites
<1>2. \A i \in DOMAIN acInvites:
        /\ acInvites'[i].status # "deleted" =>
              /\ acInvites[i].status # "deleted"
              /\ acInvites'[i].team = acInvites[i].team /\ acInvites'[i].user = acInvites[i].user
        /\ \A t, u: AcAsks(i, t, u)' => AcAsks(i, t, u)
  BY AcFewerInvitesAsk DEF AcInv
<1>3. DOMAIN acInvites' = DOMAIN acInvites
  BY DEF AcFewerInvites
<1>4. AcKnown'
  BY <1>2, <1>3 DEF AcInv, AcKnown, AcInviteKnown, AcReqKnown
<1>5. AcQuiet => AcQuiet'
  BY <1>2, <1>3 DEF AcQuiet, AcAlone, AcBusy, AcOnce, AcOwned, AcJobOwned, AcReqOnce, AcReqOwned, AcIn, AcOwns,
                    AcOwnsIn, AcOtherOwner
<1>. QED BY <1>1, <1>4, <1>5 DEF AcInv

LEMMA AcDeclineInv == ASSUME AcInv, NEW i, AcDecline(i) \/ \E a \in AcUsers: AcRevoke(a, i) PROVE AcInv'
<1>1. /\ i \in DOMAIN acInvites /\ acInvites[i].status = "pending"
      /\ \/ acInvites' = [acInvites EXCEPT ![i].status = "settled"]
         \/ acInvites' = [acInvites EXCEPT ![i] = AcNoInvite]
      /\ UNCHANGED <<acUser, acTeam, acRoles, acReq, acJob, acRaced>>
  BY DEF AcDecline, AcRevoke, AcPending, acHistory
<1>2. acInvites \in Seq(AcInvite) /\ \A j \in DOMAIN acInvites: acInvites[j] \in AcInvite
  BY AcInvitesShape DEF AcInv, AcTypes
<1>3. AcNoInvite \in AcInvite
  BY DEF AcNoInvite, AcInvite, AcAnyRole
<1>4. \A j \in DOMAIN acInvites: acInvites'[j] \in AcInvite /\ AcWorn(j)
  BY <1>1, <1>2, <1>3, SMTT(30) DEF AcInvite, AcWorn
<1>5. DOMAIN acInvites' = DOMAIN acInvites /\ acInvites' = [j \in DOMAIN acInvites |-> acInvites'[j]]
  BY <1>1, <1>2
<1>6. acInvites' \in Seq(AcInvite)
  BY <1>2, <1>4, <1>5, AcInvitesMapped
<1>7. AcFewerInvites
  BY <1>4, <1>5, <1>6 DEF AcFewerInvites
<1>. QED BY <1>1, <1>7, AcFewerInvitesInv

(* An admin removes a member: not an owner, unless it counts as a race.       *)
LEMMA AcRemoveInv ==
  ASSUME AcInv, NEW a, NEW u \in AcUsers, NEW t \in AcTeams, AcRemoveMember(a, u, t) PROVE AcInv'
<1>. DEFINE s == Tail(acRoles[t][u])
<1>1. /\ Len(acRoles[t][u]) > 0 /\ acRoles' = [acRoles EXCEPT ![t][u] = s]
      /\ acRaced' = (acRaced \/ acRoles[t][u][1] = "owner")
      /\ UNCHANGED <<acUser, acTeam, acInvites, acReq, acJob>>
  BY DEF AcRemoveMember, AcIn, AcRole, AcInv, AcTypes
<1>2. /\ acRoles[t][u] \in AcRows /\ s \in AcRows /\ Len(s) = Len(acRoles[t][u]) - 1
      /\ Len(acRoles[t][u]) \in Nat /\ DOMAIN acRoles[t][u] = 1..Len(acRoles[t][u])
  BY <1>1, AcRowFacts DEF AcInv, AcTypes
<1>. HIDE DEF s
<1>3. /\ acRoles' \in [AcTeams -> [AcUsers -> AcRows]] /\ acRoles'[t][u] = s
      /\ \A t2 \in AcTeams, u2 \in AcUsers: t2 # t \/ u2 # u => acRoles'[t2][u2] = acRoles[t2][u2]
  <2>1. /\ acRoles \in [AcTeams -> [AcUsers -> AcRows]] /\ s \in AcRows
        /\ acRoles' = [acRoles EXCEPT ![t][u] = s]
    BY <1>1, <1>2 DEF AcInv, AcTypes
  <2>. QED BY <2>1
<1>4. AcTypes'
  BY <1>1, <1>3 DEF AcInv, AcTypes
<1>5. \A t2 \in AcTeams, u2 \in AcUsers: Len(acRoles'[t2][u2]) <= Len(acRoles[t2][u2])
  <2>1. \A t2 \in AcTeams, u2 \in AcUsers: Len(acRoles[t2][u2]) \in Nat
    BY AcRowFacts DEF AcInv, AcTypes
  <2>. QED BY <1>2, <1>3, <2>1
<1>6. ASSUME ~acRaced', AcQuiet
      PROVE  AcOwned' /\ AcJobOwned' /\ \A r \in AcRequests: AcReqOwned(acReq[r])'
  <2>1. ~AcOwns(u, t)
    <3>1. Len(acRoles[t][u]) <= 1
      BY <1>6 DEF AcQuiet, AcOnce
    <3>2. DOMAIN acRoles[t][u] = {1}
      BY <1>1, <1>2, <3>1
    <3>. QED BY <1>1, <1>6, <3>2 DEF AcOwns, AcOwnsIn
  <2>2. \A t2 \in AcTeams, u2 \in AcUsers: AcOwns(u2, t2) => AcOwns(u2, t2)'
    BY <1>3, <2>1 DEF AcOwns, AcOwnsIn
  <2>3. \A r \in AcRequests: AcReqOwned(acReq[r]) => AcReqOwned(acReq[r])'
    BY <1>1, <2>2 DEF AcReqOwned, AcOtherOwner, AcInv, AcKnown, AcReqKnown
  <2>. QED BY <1>1, <1>6, <2>2, <2>3 DEF AcQuiet, AcOwned, AcJobOwned, AcOtherOwner
<1>. QED BY <1>1, <1>4, <1>5, <1>6, AcFewerRowsInv

(* A request begins, knowing what it needs if it is alone.                    *)
LEMMA AcBeginInv ==
  ASSUME AcInv, NEW r \in AcRequests, NEW req \in AcRequest, AcBegin(r, req), req.op # "idle", AcReqKnown(req),
         ~acRaced /\ AcQuiet => AcReqOnce(req) /\ AcReqOwned(req)
  PROVE  AcInv'
<1>1. /\ UNCHANGED <<acUser, acTeam, acRoles, acInvites, acJob>>
      /\ acReq' = [acReq EXCEPT ![r] = req] /\ ~AcBusy(r)
      /\ acRaced' = (acRaced \/ acJob.kind # "idle" \/ \E o \in AcRequests: AcBusy(o))
  BY DEF AcBegin, acTables
<1>2. AcTypes'
  BY <1>1 DEF AcInv, AcTypes
<1>3. acReq'[r] = req /\ \A o \in AcRequests: o # r => acReq'[o] = acReq[o]
  BY <1>1 DEF AcInv, AcTypes
<1>4. AcKnown'
  BY <1>1, <1>3 DEF AcInv, AcKnown, AcInviteKnown, AcReqKnown
<1>5. ASSUME ~acRaced' PROVE AcQuiet'
  <2>1. ~acRaced /\ AcQuiet /\ acJob.kind = "idle" /\ \A o \in AcRequests: ~AcBusy(o)
    BY <1>1, <1>5 DEF AcInv
  <2>2. AcAlone'
    BY <1>1, <1>3, <2>1 DEF AcAlone, AcBusy
  <2>3. AcOnce' /\ AcOwned' /\ AcJobOwned'
    BY <1>1, <2>1 DEF AcQuiet, AcOnce, AcOwned, AcJobOwned, AcAsks, AcIn, AcOwns, AcOwnsIn
  <2>4. \A q: (AcReqOnce(q) <=> AcReqOnce(q)') /\ (AcReqOwned(q) <=> AcReqOwned(q)')
    BY <1>1 DEF AcReqOnce, AcReqOwned, AcAsks, AcIn, AcOtherOwner, AcOwns, AcOwnsIn
  <2>5. ASSUME NEW o \in AcRequests PROVE AcReqOnce(acReq[o])' /\ AcReqOwned(acReq[o])'
    <3>1. PICK q: q = acReq'[o] /\ AcReqOnce(q) /\ AcReqOwned(q)
      BY <1>3, <2>1 DEF AcQuiet
    <3>. QED BY <2>4, <3>1 DEF AcReqOnce, AcReqOwned
  <2>. QED BY <2>2, <2>3, <2>5 DEF AcQuiet
<1>. QED BY <1>2, <1>4, <1>5 DEF AcInv

(* A user's only row tells whether the user owns the team.                    *)
LEMMA AcRoleTells ==
  ASSUME AcInv, AcOnce, NEW t \in AcTeams, NEW u \in AcUsers
  PROVE  /\ AcIn(u, t) => AcRole(u, t) \in AcAnyRole /\ (AcOwns(u, t) <=> AcRole(u, t) = "owner")
         /\ AcOwns(u, t) => AcIn(u, t)
<1>1. acRoles[t][u] \in AcRows
  BY DEF AcInv, AcTypes
<1>2. Len(acRoles[t][u]) \in Nat /\ DOMAIN acRoles[t][u] = 1..Len(acRoles[t][u]) /\ Len(acRoles[t][u]) <= 1
  BY <1>1, AcRowFacts DEF AcOnce
<1>3. CASE AcIn(u, t)
  <2>1. DOMAIN acRoles[t][u] = {1} /\ 1 \in 1..Len(acRoles[t][u])
    BY <1>2, <1>3 DEF AcIn
  <2>2. acRoles[t][u][1] \in AcAnyRole
    BY <1>1, <2>1, ElementOfSeq DEF AcRows
  <2>. QED BY <1>3, <2>1, <2>2 DEF AcOwns, AcOwnsIn, AcRole
<1>4. CASE ~AcIn(u, t)
  <2>1. DOMAIN acRoles[t][u] = {}
    BY <1>2, <1>4 DEF AcIn
  <2>. QED BY <1>4, <2>1 DEF AcOwns, AcOwnsIn
<1>. QED BY <1>3, <1>4

LEMMA AcFirstRole ==
  ASSUME AcInv, NEW t \in AcTeams, NEW u \in AcUsers, AcIn(u, t)
  PROVE  AcRole(u, t) \in AcAnyRole
<1>1. acRoles[t][u] \in AcRows
  BY DEF AcInv, AcTypes
<1>2. 1 \in 1..Len(acRoles[t][u])
  BY <1>1, AcRowFacts DEF AcIn
<1>. QED BY <1>1, <1>2, ElementOfSeq DEF AcRows, AcRole

(* Whoever may go without asking leaves an owner behind.                      *)
LEMMA AcOwnerStays ==
  ASSUME AcInv, AcQuiet, NEW t \in AcTeams, NEW u \in AcUsers, acTeam[t] = "active", AcIn(u, t),
         AcRole(u, t) = "owner" => AcOtherOwner(u, t)
  PROVE  AcOtherOwner(u, t)
<1>1. PICK o \in AcUsers: AcOwns(o, t)
  BY DEF AcQuiet, AcOwned
<1>. QED BY <1>1, AcRoleTells DEF AcQuiet, AcOtherOwner

LEMMA AcInviteCheckInv ==
  ASSUME AcInv, NEW r \in AcRequests, NEW a \in AcUsers, NEW u \in AcUsers, NEW t \in AcTeams, NEW role \in AcRoles,
         AcInviteCheck(r, a, u, t, role)
  PROVE  AcInv'
<1>. DEFINE req == [op |-> "invite", team |-> t, user |-> u, arg |-> a, role |-> role]
<1>1. AcBegin(r, req) /\ AcMayInvite(u, t) /\ acTeam[t] = "active"
  BY DEF AcInviteCheck, AcAdmin, AcMember
<1>2. req \in AcRequest
  BY AcAssumption DEF AcRequest, AcAnyRole
<1>3. AcReqKnown(req)
  BY <1>1 DEF AcReqKnown
<1>4. AcReqOnce(req) /\ AcReqOwned(req)
  BY <1>1 DEF AcReqOnce, AcReqOwned, AcMayInvite, AcAsks
<1>. QED BY <1>1, <1>2, <1>3, <1>4, AcBeginInv

LEMMA AcRoleCheckInv ==
  ASSUME AcInv, NEW r \in AcRequests, NEW a \in AcUsers, NEW u \in AcUsers, NEW t \in AcTeams, NEW role \in AcRoles,
         AcRoleCheck(r, a, u, t, role)
  PROVE  AcInv'
<1>. DEFINE req == [op |-> "role", team |-> t, user |-> u, arg |-> 0, role |-> role]
<1>1. /\ AcBegin(r, req) /\ acTeam[t] = "active" /\ AcIn(u, t)
      /\ AcRole(u, t) = "owner" /\ role # "owner" => AcOtherOwner(u, t)
  BY DEF AcRoleCheck, AcAdmin, AcMember
<1>2. req \in AcRequest
  BY AcAssumption DEF AcRequest, AcAnyRole
<1>3. AcReqKnown(req)
  BY <1>1 DEF AcReqKnown
<1>4. AcQuiet => AcReqOnce(req) /\ AcReqOwned(req)
  BY <1>1, AcOwnerStays DEF AcReqOnce, AcReqOwned
<1>. QED BY <1>1, <1>2, <1>3, <1>4, AcBeginInv

LEMMA AcLeaveCheckInv ==
  ASSUME AcInv, NEW r \in AcRequests, NEW u \in AcUsers, NEW t \in AcTeams, AcLeaveCheck(r, u, t)
  PROVE  AcInv'
<1>. DEFINE req == [op |-> "leave", team |-> t, user |-> u, arg |-> 0, role |-> AcRole(u, t)]
<1>1. /\ AcBegin(r, req) /\ acTeam[t] = "active" /\ AcIn(u, t)
      /\ AcRole(u, t) = "owner" => AcOtherOwner(u, t)
  BY DEF AcLeaveCheck, AcMayLeave, AcMember
<1>2. req \in AcRequest
  BY <1>1, AcFirstRole DEF AcRequest
<1>3. AcReqKnown(req)
  BY <1>1 DEF AcReqKnown
<1>4. AcQuiet => AcReqOnce(req) /\ AcReqOwned(req)
  BY <1>1, AcOwnerStays DEF AcReqOnce, AcReqOwned
<1>. QED BY <1>1, <1>2, <1>3, <1>4, AcBeginInv

LEMMA AcAcceptCheckInv == ASSUME AcInv, NEW r \in AcRequests, NEW i, AcAcceptCheck(r, i) PROVE AcInv'
<1>. DEFINE req == [op |-> "accept", team |-> acInvites[i].team, user |-> acInvites[i].user,
                    arg |-> i, role |-> acInvites[i].role]
<1>1. AcBegin(r, req) /\ i \in DOMAIN acInvites /\ acInvites[i].status = "pending"
  BY DEF AcAcceptCheck, AcPending
<1>2. acInvites[i] \in AcInvite /\ i \in Nat
  BY <1>1, AcInvitesShape DEF AcInv, AcTypes
<1>3. req \in AcRequest
  BY <1>2 DEF AcRequest, AcInvite
<1>4. acInvites[i].team \in AcTeams /\ acInvites[i].user \in AcUsers /\ acTeam[acInvites[i].team] # "none"
  BY <1>1 DEF AcInv, AcKnown, AcInviteKnown
<1>5. AcReqKnown(req)
  BY <1>1, <1>4 DEF AcReqKnown
<1>6. AcQuiet => AcReqOnce(req) /\ AcReqOwned(req)
  BY <1>1, <1>4 DEF AcReqOnce, AcReqOwned, AcQuiet, AcOnce, AcAsks
<1>. QED BY <1>1, <1>3, <1>5, <1>6, AcBeginInv

(* A request that is alone ends, and none is left.                            *)
LEMMA AcEndAlone ==
  ASSUME AcInv, NEW r \in AcRequests, AcBusy(r), AcEnd(r)
  PROVE  /\ acReq' \in [AcRequests -> AcRequest] /\ acReq'[r] = AcIdle
         /\ \A o \in AcRequests: o # r => acReq'[o] = acReq[o]
         /\ AcAlone => acJob.kind = "idle" /\ \A o \in AcRequests: acReq'[o].op = "idle" /\ ~AcBusy(o)'
<1>1. AcIdle \in AcRequest /\ AcIdle.op = "idle"
  BY DEF AcIdle, AcRequest, AcAnyRole
<1>2. /\ acReq' \in [AcRequests -> AcRequest] /\ acReq'[r] = AcIdle
      /\ \A o \in AcRequests: o # r => acReq'[o] = acReq[o]
  BY <1>1 DEF AcEnd, AcInv, AcTypes
<1>. QED BY <1>1, <1>2 DEF AcAlone, AcBusy

(* The row of a member changes, and no request is left.                       *)
LEMMA AcRowCommitInv ==
  ASSUME AcInv, NEW r \in AcRequests, NEW t \in AcTeams, NEW u \in AcUsers, NEW s \in AcRows, AcBusy(r), AcEnd(r),
         Len(s) <= Len(acRoles[t][u]), acRoles' = [acRoles EXCEPT ![t][u] = s],
         AcQuiet => AcOtherOwner(u, t) \/ \E i \in DOMAIN s: s[i] = "owner",
         UNCHANGED <<acUser, acTeam, acInvites, acJob, acRaced>>
  PROVE  AcInv'
<1>1. /\ acRoles' \in [AcTeams -> [AcUsers -> AcRows]] /\ acRoles'[t][u] = s
      /\ \A t2 \in AcTeams, u2 \in AcUsers: t2 # t \/ u2 # u => acRoles'[t2][u2] = acRoles[t2][u2]
  <2>1. AcTypes
    BY DEF AcInv
  <2>. QED BY ONLY <2>1, acRoles' = [acRoles EXCEPT ![t][u] = s], s \in AcRows, t \in AcTeams, u \in AcUsers DEF AcTypes
<1>2. AcTypes'
  BY <1>1, AcEndAlone DEF AcInv, AcTypes
<1>3. \A t2 \in AcTeams, u2 \in AcUsers: Len(acRoles'[t2][u2]) <= Len(acRoles[t2][u2])
  <2>1. \A t2 \in AcTeams, u2 \in AcUsers: Len(acRoles[t2][u2]) \in Nat
    BY AcRowFacts DEF AcInv, AcTypes
  <2>. QED BY <1>1, <2>1
<1>4. ASSUME AcQuiet PROVE AcOwned' /\ AcJobOwned' /\ \A o \in AcRequests: AcReqOwned(acReq[o])'
  <2>1. acJob.kind = "idle" /\ \A o \in AcRequests: acReq'[o].op = "idle"
    BY <1>4, AcEndAlone DEF AcQuiet
  <2>2. \A t2 \in AcTeams, u2 \in AcUsers: (t2 # t \/ u2 # u) /\ AcOwns(u2, t2) => AcOwns(u2, t2)'
    BY <1>1 DEF AcOwns, AcOwnsIn
  <2>3. \E o \in AcUsers: AcOwns(o, t)'
    <3>1. CASE AcOtherOwner(u, t)
      BY <2>2, <3>1 DEF AcOtherOwner
    <3>2. CASE \E i \in DOMAIN s: s[i] = "owner"
      BY <1>1, <3>2 DEF AcOwns, AcOwnsIn
    <3>. QED BY <1>4, <3>1, <3>2
  <2>4. AcOwned'
    BY <1>4, <2>2, <2>3 DEF AcQuiet, AcOwned
  <2>. QED BY <2>1, <2>4 DEF AcJobOwned, AcReqOwned
<1>5. \A o \in AcRequests: acReq'[o] = acReq[o] \/ acReq'[o] = AcIdle
  BY AcEndAlone
<1>. QED BY <1>2, <1>3, <1>4, <1>5, AcFewerRowsInv

(* A request that finds nothing to write.                                     *)
LEMMA AcEndInv ==
  ASSUME AcInv, NEW r \in AcRequests, AcBusy(r), AcEnd(r),
         UNCHANGED <<acUser, acTeam, acRoles, acInvites, acJob, acRaced>>
  PROVE  AcInv'
<1>1. AcTypes'
  BY AcEndAlone DEF AcInv, AcTypes
<1>2. \A t \in AcTeams, u \in AcUsers: Len(acRoles'[t][u]) <= Len(acRoles[t][u])
  BY AcRowFacts DEF AcInv, AcTypes
<1>3. ASSUME AcQuiet PROVE AcOwned' /\ AcJobOwned' /\ \A o \in AcRequests: AcReqOwned(acReq[o])'
  <2>1. acJob.kind = "idle" /\ \A o \in AcRequests: acReq'[o].op = "idle"
    BY <1>3, AcEndAlone DEF AcQuiet
  <2>. QED BY <1>3, <2>1 DEF AcQuiet, AcOwned, AcJobOwned, AcReqOwned, AcOwns, AcOwnsIn
<1>4. \A o \in AcRequests: acReq'[o] = acReq[o] \/ acReq'[o] = AcIdle
  BY AcEndAlone
<1>. QED BY <1>1, <1>2, <1>3, <1>4, AcFewerRowsInv

LEMMA AcRoleCommitInv == ASSUME AcInv, NEW r \in AcRequests, AcRoleCommit(r) PROVE AcInv'
<1>. DEFINE q == acReq[r]
<1>1. /\ q.op = "role" /\ AcBusy(r) /\ AcEnd(r) /\ UNCHANGED <<acUser, acTeam, acInvites, acJob, acRaced>>
      /\ acRoles' = IF AcIn(q.user, q.team) THEN [acRoles EXCEPT ![q.team][q.user][1] = q.role] ELSE acRoles
  BY DEF AcRoleCommit, AcBusy, acHistory
<1>2. q.team \in AcTeams /\ q.user \in AcUsers /\ q.role \in AcAnyRole
  BY <1>1 DEF AcInv, AcKnown, AcReqKnown, AcTypes, AcRequest
<1>3. CASE AcIn(q.user, q.team)
  <2>. DEFINE old == acRoles[q.team][q.user]
              s == [old EXCEPT ![1] = q.role]
  <2>1. old \in AcRows /\ Len(old) > 0
    BY <1>2, <1>3 DEF AcInv, AcTypes, AcIn
  <2>2. s \in AcRows /\ Len(s) = Len(old) /\ Len(old) \in Nat /\ DOMAIN old = 1..Len(old)
    BY <1>2, <2>1, AcRowFacts
  <2>3. 1 \in DOMAIN s /\ s[1] = q.role
    BY <2>1, <2>2
  <2>4. acRoles' = [acRoles EXCEPT ![q.team][q.user] = s]
    BY <1>1, <1>2, <1>3 DEF AcInv, AcTypes
  <2>5. AcQuiet => AcOtherOwner(q.user, q.team) \/ \E i \in DOMAIN s: s[i] = "owner"
    BY <1>1, <2>3 DEF AcQuiet, AcReqOwned
  <2>6. Len(s) <= Len(old)
    BY <2>2
  <2>. HIDE DEF s
  <2>. QED BY <1>1, <1>2, <2>2, <2>4, <2>5, <2>6, AcRowCommitInv
<1>4. CASE ~AcIn(q.user, q.team)
  BY <1>1, <1>4, AcEndInv
<1>. QED BY <1>3, <1>4

LEMMA AcLeaveCommitInv == ASSUME AcInv, NEW r \in AcRequests, AcLeaveCommit(r) PROVE AcInv'
<1>. DEFINE q == acReq[r]
<1>1. /\ q.op = "leave" /\ AcBusy(r) /\ AcEnd(r) /\ UNCHANGED <<acUser, acTeam, acInvites, acJob, acRaced>>
      /\ acRoles' = IF AcIn(q.user, q.team) THEN [acRoles EXCEPT ![q.team][q.user] = Tail(@)] ELSE acRoles
  BY DEF AcLeaveCommit, AcBusy, acHistory
<1>2. q.team \in AcTeams /\ q.user \in AcUsers
  BY <1>1 DEF AcInv, AcKnown, AcReqKnown
<1>3. CASE AcIn(q.user, q.team)
  <2>. DEFINE old == acRoles[q.team][q.user]
              s == Tail(old)
  <2>1. old \in AcRows /\ Len(old) > 0
    BY <1>2, <1>3 DEF AcInv, AcTypes, AcIn
  <2>2. s \in AcRows /\ Len(s) = Len(old) - 1 /\ Len(old) \in Nat
    BY <2>1, AcRowFacts
  <2>3. acRoles' = [acRoles EXCEPT ![q.team][q.user] = s]
    BY <1>1, <1>2, <1>3 DEF AcInv, AcTypes
  <2>4. AcQuiet => AcOtherOwner(q.user, q.team)
    BY <1>1 DEF AcQuiet, AcReqOwned
  <2>. HIDE DEF s, old
  <2>5. Len(s) <= Len(old)
    BY <2>2
  <2>. USE DEF old
  <2>. QED BY <1>1, <1>2, <2>2, <2>3, <2>4, <2>5, AcRowCommitInv
<1>4. CASE ~AcIn(q.user, q.team)
  BY <1>1, <1>4, AcEndInv
<1>. QED BY <1>3, <1>4

LEMMA AcInviteCommitInv == ASSUME AcInv, NEW r \in AcRequests, AcInviteCommit(r) PROVE AcInv'
<1>. DEFINE q == acReq[r]
            new == [team |-> q.team, user |-> q.user, by |-> q.arg, role |-> q.role, status |-> "pending"]
<1>0. PICK n: n = Len(acInvites) + 1
  OBVIOUS
<1>1. /\ q.op = "invite" /\ AcBusy(r) /\ AcEnd(r) /\ UNCHANGED <<acUser, acTeam, acRoles, acJob, acRaced>>
      /\ acInvites' = IF acTeam[q.team] = "active" /\ acUser[q.arg] = "active"
                      THEN Append(acInvites, new) ELSE acInvites
  BY DEF AcInviteCommit, AcBusy, acHistory
<1>2. CASE acInvites' = acInvites
  BY <1>1, <1>2, AcEndInv
<1>3. CASE acTeam[q.team] = "active" /\ acInvites' = Append(acInvites, new)
  <2>1. q.team \in AcTeams /\ q.user \in AcUsers /\ q.arg \in AcUsers /\ q.role \in AcAnyRole
    BY <1>1 DEF AcInv, AcKnown, AcReqKnown, AcTypes, AcRequest
  <2>2. new \in AcInvite /\ acInvites \in Seq(AcInvite)
    BY <2>1 DEF AcInvite, AcInv, AcTypes
  <2>3. /\ Len(acInvites) \in Nat /\ DOMAIN acInvites = 1..Len(acInvites)
        /\ acInvites' \in Seq(AcInvite) /\ Len(acInvites') = n /\ acInvites'[n] = new
        /\ \A i \in 1..Len(acInvites): acInvites'[i] = acInvites[i]
    BY <1>0, <1>3, <2>2, AcInvitesShape, AppendProperties
  <2>4. DOMAIN acInvites' = 1..n
    BY <2>3, AcInvitesShape
  <2>5. /\ DOMAIN acInvites' = DOMAIN acInvites \cup {n}
        /\ \A i \in DOMAIN acInvites: acInvites'[i] = acInvites[i]
    BY <1>0, <2>3, <2>4
  <2>6. AcTypes'
    BY <1>1, <2>3, AcEndAlone DEF AcInv, AcTypes
  <2>7. AcKnown'
    <3>1. \A i \in DOMAIN acInvites': AcInviteKnown(i)'
      BY <1>1, <1>3, <2>1, <2>3, <2>5 DEF AcInv, AcKnown, AcInviteKnown
    <3>2. ASSUME NEW o \in AcRequests PROVE AcReqKnown(acReq[o])'
      <4>1. CASE o = r
        BY <1>1, <4>1, AcEndAlone DEF AcReqKnown, AcIdle
      <4>2. CASE o # r
        BY <1>1, <2>5, <4>2, AcEndAlone DEF AcReqKnown, AcInv, AcKnown
      <4>. QED BY <4>1, <4>2
    <3>. QED BY <1>1, <3>1, <3>2 DEF AcInv, AcKnown
  <2>8. ASSUME AcQuiet PROVE AcQuiet'
    <3>1. acJob.kind = "idle" /\ \A o \in AcRequests: acReq'[o].op = "idle" /\ ~AcBusy(o)'
      BY <1>1, <2>8, AcEndAlone DEF AcQuiet
    <3>2. ~AcIn(q.user, q.team) /\ \A i \in DOMAIN acInvites: ~AcAsks(i, q.team, q.user)
      BY <1>1, <2>8 DEF AcQuiet, AcReqOnce
    <3>3. \A t, u: /\ AcAsks(n, t, u)' => t = q.team /\ u = q.user
                   /\ \A i \in DOMAIN acInvites: AcAsks(i, t, u)' => AcAsks(i, t, u)
      <4>1. acInvites'[n].team = q.team /\ acInvites'[n].user = q.user
        BY <2>3
      <4>2. \A i \in DOMAIN acInvites: acInvites'[i] = acInvites[i]
        BY <2>5
      <4>. QED BY <4>1, <4>2 DEF AcAsks
    <3>4. AcOnce'
      <4>. SUFFICES ASSUME NEW t \in AcTeams, NEW u \in AcUsers, NEW i \in DOMAIN acInvites', NEW j \in DOMAIN acInvites',
                           AcAsks(i, t, u)'
                    PROVE  ~AcIn(u, t) /\ (AcAsks(j, t, u)' => i = j)
        BY <1>1, <2>8 DEF AcQuiet, AcOnce, AcIn
      <4>1. CASE i = n
        BY <2>5, <3>2, <3>3, <4>1
      <4>2. CASE i # n
        <5>1. AcAsks(i, t, u) /\ ~(t = q.team /\ u = q.user)
          BY <2>5, <3>2, <3>3, <4>2
        <5>. QED BY <2>5, <2>8, <3>3, <5>1 DEF AcQuiet, AcOnce
      <4>. QED BY <4>1, <4>2
    <3>5. AcOwned'
      BY <1>1, <2>8 DEF AcQuiet, AcOwned, AcOwns, AcOwnsIn
    <3>. QED BY <1>1, <3>1, <3>4, <3>5 DEF AcQuiet, AcAlone, AcJobOwned, AcReqOnce, AcReqOwned
  <2>. QED BY <1>1, <2>6, <2>7, <2>8 DEF AcInv
<1>. QED BY <1>1, <1>2, <1>3

LEMMA AcAcceptCommitInv == ASSUME AcInv, NEW r \in AcRequests, AcAcceptCommit(r) PROVE AcInv'
<1>. DEFINE q == acReq[r]
            s == Append(acRoles[q.team][q.user], q.role)
<1>1. /\ q.op = "accept" /\ AcBusy(r) /\ AcEnd(r) /\ UNCHANGED <<acUser, acTeam, acJob, acRaced>>
      /\ IF AcAcceptable(q)
         THEN /\ acInvites' = [acInvites EXCEPT ![q.arg].status = "settled"]
              /\ acRoles' = [acRoles EXCEPT ![q.team][q.user] = Append(@, q.role)]
         ELSE UNCHANGED <<acInvites, acRoles>>
  BY DEF AcAcceptCommit, AcBusy, acHistory
<1>2. CASE ~AcAcceptable(q)
  BY <1>1, <1>2, AcEndInv
<1>3. CASE AcAcceptable(q)
  <2>1. /\ q.team \in AcTeams /\ q.user \in AcUsers /\ q.arg \in DOMAIN acInvites /\ q.role \in AcAnyRole
        /\ acInvites[q.arg].status # "deleted" /\ acInvites[q.arg].team = q.team /\ acInvites[q.arg].user = q.user
    BY <1>1, <1>3 DEF AcInv, AcKnown, AcReqKnown, AcTypes, AcRequest, AcAcceptable
  <2>2. /\ acRoles[q.team][q.user] \in AcRows /\ s \in AcRows /\ Len(acRoles[q.team][q.user]) \in Nat
        /\ Len(s) = Len(acRoles[q.team][q.user]) + 1
        /\ \A i \in DOMAIN acRoles[q.team][q.user]: i \in DOMAIN s /\ s[i] = acRoles[q.team][q.user][i]
    <3>1. acRoles[q.team][q.user] \in AcRows
      BY <2>1 DEF AcInv, AcTypes
    <3>. QED BY <2>1, <3>1, AcRowFacts
  <2>3. acRoles' = [acRoles EXCEPT ![q.team][q.user] = s]
    BY <1>1, <1>3, <2>1 DEF AcInv, AcTypes
  <2>. HIDE DEF s
  <2>4. /\ acRoles' \in [AcTeams -> [AcUsers -> AcRows]] /\ acRoles'[q.team][q.user] = s
        /\ \A t \in AcTeams, u \in AcUsers: t # q.team \/ u # q.user => acRoles'[t][u] = acRoles[t][u]
    BY <2>1, <2>2, <2>3 DEF AcInv, AcTypes
  <2>5. /\ acInvites' \in Seq(AcInvite) /\ DOMAIN acInvites' = DOMAIN acInvites
        /\ acInvites'[q.arg] = [acInvites[q.arg] EXCEPT !.status = "settled"]
        /\ \A i \in DOMAIN acInvites: i # q.arg => acInvites'[i] = acInvites[i]
    <3>1. acInvites \in Seq(AcInvite) /\ \A i \in DOMAIN acInvites: acInvites[i] \in AcInvite
      BY AcInvitesShape DEF AcInv, AcTypes
    <3>2. /\ DOMAIN acInvites' = DOMAIN acInvites /\ acInvites' = [i \in DOMAIN acInvites |-> acInvites'[i]]
          /\ acInvites'[q.arg] = [acInvites[q.arg] EXCEPT !.status = "settled"]
          /\ \A i \in DOMAIN acInvites: i # q.arg => acInvites'[i] = acInvites[i]
      BY <1>1, <1>3, <2>1, <3>1
    <3>3. \A i \in DOMAIN acInvites: acInvites'[i] \in AcInvite
      BY <2>1, <3>1, <3>2, SMTT(30) DEF AcInvite
    <3>. QED BY <3>1, <3>2, <3>3, AcInvitesMapped
  <2>6. acInvites'[q.arg].status = "settled" /\ acInvites'[q.arg].team = q.team /\ acInvites'[q.arg].user = q.user
    <3>1. acInvites[q.arg] \in AcInvite
      BY <2>1, AcInvitesShape DEF AcInv, AcTypes
    <3>. QED BY <2>1, <2>5, <3>1 DEF AcInvite
  <2>7. AcTypes'
    BY <1>1, <2>4, <2>5, AcEndAlone DEF AcInv, AcTypes
  <2>8. AcKnown'
    <3>1. ASSUME NEW i \in DOMAIN acInvites' PROVE AcInviteKnown(i)'
      <4>1. i \in DOMAIN acInvites /\ AcInviteKnown(i) /\ AcInviteKnown(q.arg)
        BY <2>1, <2>5 DEF AcInv, AcKnown
      <4>2. CASE i = q.arg
        BY <1>1, <2>1, <2>6, <4>1, <4>2 DEF AcInviteKnown
      <4>3. CASE i # q.arg
        BY <1>1, <2>5, <4>1, <4>3 DEF AcInviteKnown
      <4>. QED BY <4>2, <4>3
    <3>2. ASSUME NEW o \in AcRequests PROVE AcReqKnown(acReq[o])'
      <4>1. CASE o = r
        BY <1>1, <4>1, AcEndAlone DEF AcReqKnown, AcIdle
      <4>2. CASE o # r
        <5>1. AcReqKnown(acReq[o]) /\ acReq'[o] = acReq[o]
          BY <1>1, <4>2, AcEndAlone DEF AcInv, AcKnown
        <5>2. CASE acReq[o].op = "accept" /\ acReq[o].arg = q.arg
          <6>1. acReq[o].team = q.team /\ acReq[o].user = q.user /\ acTeam[q.team] # "none"
            BY <2>1, <5>1, <5>2 DEF AcReqKnown
          <6>2. /\ acReq[o].arg \in DOMAIN acInvites' /\ acInvites'[acReq[o].arg].team = acReq[o].team
                /\ acInvites'[acReq[o].arg].user = acReq[o].user
                /\ acReq[o].team \in AcTeams /\ acReq[o].user \in AcUsers /\ acTeam'[acReq[o].team] # "none"
            BY <1>1, <2>1, <2>5, <2>6, <5>2, <6>1
          <6>3. acReq[o].op = "accept" /\ acReq'[o] = acReq[o]
            BY <5>1, <5>2
          <6>. QED BY <6>2, <6>3 DEF AcReqKnown
        <5>3. CASE ~(acReq[o].op = "accept" /\ acReq[o].arg = q.arg)
          BY <1>1, <2>5, <5>1, <5>3 DEF AcReqKnown
        <5>. QED BY <5>2, <5>3
      <4>. QED BY <4>1, <4>2
    <3>. QED BY <1>1, <3>1, <3>2 DEF AcInv, AcKnown
  <2>9. ASSUME AcQuiet PROVE AcQuiet'
    <3>1. acJob.kind = "idle" /\ \A o \in AcRequests: acReq'[o].op = "idle" /\ ~AcBusy(o)'
      BY <1>1, <2>9, AcEndAlone DEF AcQuiet
    <3>2. ~AcIn(q.user, q.team) /\ \A i \in DOMAIN acInvites: AcAsks(i, q.team, q.user) => i = q.arg
      BY <1>1, <2>9 DEF AcQuiet, AcReqOnce
    <3>3. \A i \in DOMAIN acInvites: \A t, u: AcAsks(i, t, u)' => AcAsks(i, t, u) /\ i # q.arg
      BY <2>5, <2>6 DEF AcAsks
    <3>4. Len(s) <= 1
      BY <2>2, <3>2 DEF AcIn
    <3>5. AcOnce'
      BY <2>4, <2>5, <2>9, <3>2, <3>3, <3>4 DEF AcQuiet, AcOnce, AcIn
    <3>6. \A t \in AcTeams, u \in AcUsers: AcOwns(u, t) => AcOwns(u, t)'
      BY <2>2, <2>4 DEF AcOwns, AcOwnsIn
    <3>7. AcOwned'
      BY <1>1, <2>9, <3>6 DEF AcQuiet, AcOwned
    <3>. QED BY <1>1, <3>1, <3>5, <3>7 DEF AcQuiet, AcAlone, AcJobOwned, AcReqOnce, AcReqOwned
  <2>. QED BY <1>1, <2>7, <2>8, <2>9 DEF AcInv
<1>. QED BY <1>2, <1>3

(* The jobs: what a deletion begins with ...                                  *)
LEMMA AcSoleTeamsAre ==
  ASSUME AcInv, AcQuiet, NEW u \in AcUsers, NEW t \in AcTeams, acTeam[t] = "active", ~AcOtherOwner(u, t)
  PROVE  t \in AcSoleTeams(u)
<1>1. AcOwns(u, t) /\ \A o \in AcUsers: o # u => ~AcOwns(o, t)
  BY DEF AcQuiet, AcOwned, AcOtherOwner
<1>2. ASSUME NEW o \in AcUsers
      PROVE  /\ Len(acRoles[t][o]) \in Nat /\ Len(acRoles[t][o]) <= 1
             /\ DOMAIN acRoles[t][o] = 1..Len(acRoles[t][o])
  BY AcRowFacts DEF AcInv, AcTypes, AcQuiet, AcOnce
<1>3. AcRole(u, t) = "owner" /\ AcIn(u, t)
  BY <1>1, AcRoleTells DEF AcQuiet
<1>4. <<u, 1>> \in AcOwnerRows(t)
  <2>1. 1 \in 1..AcMaxInvites + 1 /\ 1 <= Len(acRoles[t][u])
    BY <1>2, <1>3, AcAssumption DEF AcIn
  <2>. QED BY <1>3, <2>1 DEF AcOwnerRows, AcRole
<1>5. ASSUME NEW e \in AcOwnerRows(t) PROVE e = <<u, 1>>
  <2>1. /\ e = <<e[1], e[2]>> /\ e[1] \in AcUsers /\ e[2] \in Nat /\ e[2] >= 1
        /\ e[2] <= Len(acRoles[t][e[1]]) /\ acRoles[t][e[1]][e[2]] = "owner"
    BY AcAssumption DEF AcOwnerRows
  <2>2. e[2] = 1 /\ e[2] \in DOMAIN acRoles[t][e[1]]
    BY <1>2, <2>1
  <2>3. AcOwns(e[1], t)
    BY <2>1, <2>2 DEF AcOwns, AcOwnsIn
  <2>. QED BY <1>1, <2>1, <2>2, <2>3
<1>6. AcOwnerRows(t) = {<<u, 1>>}
  BY <1>4, <1>5
<1>7. Cardinality({<<u, 1>>}) = 1
  BY FS_Singleton
<1>. QED BY <1>1, <1>6, <1>7 DEF AcSoleTeams

LEMMA AcLoadInv ==
  ASSUME AcInv, NEW t \in AcTeams, NEW u \in AcUsers, AcTeamLoad(t) \/ AcUserLoad(u) PROVE AcInv'
<1>. DEFINE forTeam == [kind |-> "team", team |-> t, user |-> AcNone, todo |-> {}]
            forUser == [kind |-> "user", team |-> AcNone, user |-> u, todo |-> AcSoleTeams(u)]
<1>1. UNCHANGED <<acUser, acTeam, acRoles, acInvites, acReq>>
  BY DEF AcTeamLoad, AcUserLoad, acTables
<1>2. \/ UNCHANGED <<acJob, acRaced>>
      \/ acJob' = forTeam /\ AcHold(forTeam)
      \/ acUser[u] = "active" /\ acJob' = forUser /\ AcHold(forUser)
  BY DEF AcTeamLoad, AcUserLoad, AcHold, AcNoJob
<1>3. CASE UNCHANGED <<acJob, acRaced>>
  BY <1>1, <1>3, AcStillInv
<1>4. CASE /\ acJob' \in {forTeam, forUser} /\ (acJob' = forUser => acUser[u] = "active")
           /\ acRaced' = (acRaced \/ \E r \in AcRequests: AcBusy(r))
  <2>1. AcTypes'
    BY <1>1, <1>4 DEF AcInv, AcTypes, AcSoleTeams
  <2>2. AcKnown'
    BY <1>1, <1>4 DEF AcInv, AcKnown, AcInviteKnown, AcReqKnown
  <2>3. ASSUME ~acRaced' PROVE AcQuiet'
    <3>1. ~acRaced /\ AcQuiet /\ \A r \in AcRequests: ~AcBusy(r) /\ ~AcBusy(r)'
      BY <1>1, <1>4, <2>3 DEF AcInv, AcBusy
    <3>2. AcAlone' /\ AcOnce' /\ AcOwned'
      BY <1>1, <3>1 DEF AcQuiet, AcAlone, AcOnce, AcOwned, AcAsks, AcIn, AcOwns, AcOwnsIn
    <3>3. \A r \in AcRequests: AcReqOnce(acReq[r])' /\ AcReqOwned(acReq[r])'
      BY <3>1 DEF AcBusy, AcReqOnce, AcReqOwned
    <3>4. acJob'.kind = "user" => acJob' = forUser
      BY <1>4
    <3>5. AcJobOwned'
      BY <1>1, <3>1, <3>4, AcSoleTeamsAre DEF AcJobOwned, AcOtherOwner, AcOwns, AcOwnsIn
    <3>. QED BY <3>2, <3>3, <3>5 DEF AcQuiet
  <2>. QED BY <2>1, <2>2, <2>3 DEF AcInv
<1>. QED BY <1>2, <1>3, <1>4 DEF AcHold

LEMMA AcUserTeamInv == ASSUME AcInv, NEW t \in AcTeams, AcUserTeam(t) PROVE AcInv'
<1>1. /\ acJob.kind = "user" /\ acJob.team = AcNone /\ t \in acJob.todo
      /\ acJob' = [acJob EXCEPT !.team = IF acTeam[t] = "active" THEN t ELSE AcNone, !.todo = @ \ {t}]
      /\ UNCHANGED <<acUser, acTeam, acRoles, acInvites, acReq, acRaced>>
  BY DEF AcUserTeam, acHistory
<1>2. /\ acJob' \in [kind: {"idle", "team", "user"}, team: AcTeams \cup {AcNone}, user: AcUsers \cup {AcNone},
                      todo: SUBSET AcTeams]
      /\ acJob'.kind = "user" /\ acJob'.user = acJob.user /\ acJob'.todo = acJob.todo \ {t}
      /\ acJob'.team = IF acTeam[t] = "active" THEN t ELSE AcNone
  BY <1>1 DEF AcInv, AcTypes
<1>3. AcTypes'
  BY <1>1, <1>2 DEF AcInv, AcTypes
<1>4. AcKnown'
  BY <1>1, <1>2 DEF AcInv, AcKnown, AcInviteKnown, AcReqKnown
<1>5. ASSUME AcQuiet PROVE AcQuiet'
  <2>1. \A r \in AcRequests: ~AcBusy(r)
    BY <1>1, <1>5 DEF AcQuiet, AcAlone
  <2>2. AcAlone' /\ AcOnce' /\ AcOwned'
    BY <1>1, <1>5, <2>1 DEF AcQuiet, AcAlone, AcBusy, AcOnce, AcOwned, AcAsks, AcIn, AcOwns, AcOwnsIn
  <2>3. \A r \in AcRequests: AcReqOnce(acReq[r])' /\ AcReqOwned(acReq[r])'
    BY <1>1, <2>1 DEF AcBusy, AcReqOnce, AcReqOwned
  <2>4. AcJobOwned'
    BY <1>1, <1>2, <1>5, AcAssumption DEF AcQuiet, AcJobOwned, AcOtherOwner, AcOwns, AcOwnsIn
  <2>. QED BY <2>2, <2>3, <2>4 DEF AcQuiet
<1>. QED BY <1>1, <1>3, <1>4, <1>5 DEF AcInv

LEMMA AcDropInvitesFewer ==
  ASSUME AcTypes, NEW doomed, acInvites' = AcDropInvites(doomed) PROVE AcFewerInvites
<1>1. acInvites \in Seq(AcInvite) /\ \A i \in DOMAIN acInvites: acInvites[i] \in AcInvite
  BY AcInvitesShape DEF AcTypes
<1>2. AcNoInvite \in AcInvite
  BY DEF AcNoInvite, AcInvite, AcAnyRole
<1>3. /\ DOMAIN acInvites' = DOMAIN acInvites /\ acInvites' = [i \in DOMAIN acInvites |-> acInvites'[i]]
      /\ \A i \in DOMAIN acInvites: acInvites'[i] \in {acInvites[i], AcNoInvite}
  BY DEF AcDropInvites
<1>4. acInvites' \in Seq(AcInvite)
  BY <1>1, <1>2, <1>3, AcInvitesMapped
<1>. QED BY <1>3, <1>4 DEF AcFewerInvites, AcWorn

(* ... and what it ends with, when it has removed a team or a user.           *)
LEMMA AcFinalInv ==
  ASSUME AcInv, acJob.kind # "idle", AcTypes', AcFewerInvites, UNCHANGED <<acReq, acRaced>>,
         \A t \in AcTeams: (acTeam'[t] = "none" => acTeam[t] = "none") /\ (acTeam'[t] = "active" => acTeam[t] = "active"),
         \A t \in AcTeams, u \in AcUsers: acRoles'[t][u] \in {acRoles[t][u], <<>>},
         acJob'.kind = "idle" => acJob'.team = AcNone,
         acJob'.kind = "user" => acJob'.user \in AcUsers /\ acUser'[acJob'.user] = "active",
         AcQuiet => AcOwned' /\ AcJobOwned'
  PROVE  AcInv'
<1>1. \A i \in DOMAIN acInvites:
        /\ acInvites'[i].status # "deleted" =>
              /\ acInvites[i].status # "deleted"
              /\ acInvites'[i].team = acInvites[i].team /\ acInvites'[i].user = acInvites[i].user
        /\ \A t, u: AcAsks(i, t, u)' => AcAsks(i, t, u)
  BY AcFewerInvitesAsk DEF AcInv
<1>2. DOMAIN acInvites' = DOMAIN acInvites
  BY DEF AcFewerInvites
<1>3. AcKnown'
  <2>1. \A i \in DOMAIN acInvites': AcInviteKnown(i)'
    BY <1>1, <1>2 DEF AcInv, AcKnown, AcInviteKnown
  <2>2. ASSUME NEW r \in AcRequests PROVE AcReqKnown(acReq[r])'
    <3>1. AcReqKnown(acReq[r])
      BY DEF AcInv, AcKnown
    <3>. QED BY <1>1, <1>2, <3>1 DEF AcReqKnown
  <2>. QED BY <2>1, <2>2 DEF AcKnown
<1>4. \A t \in AcTeams, u \in AcUsers: /\ AcIn(u, t)' => AcIn(u, t)
                                       /\ Len(acRoles[t][u]) <= 1 => Len(acRoles'[t][u]) <= 1
  <2>1. Len(<<>>) = 0
    BY EmptySeq
  <2>. QED BY <2>1 DEF AcIn
<1>5. ASSUME AcQuiet PROVE AcQuiet'
  <2>1. \A r \in AcRequests: ~AcBusy(r) /\ acReq'[r].op = "idle"
    BY <1>5 DEF AcQuiet, AcAlone, AcBusy
  <2>2. AcOnce'
    BY <1>1, <1>2, <1>4, <1>5 DEF AcQuiet, AcOnce
  <2>3. AcAlone' /\ \A r \in AcRequests: AcReqOnce(acReq[r])' /\ AcReqOwned(acReq[r])'
    BY <2>1 DEF AcBusy, AcAlone, AcReqOnce, AcReqOwned
  <2>. QED BY <1>5, <2>2, <2>3 DEF AcQuiet
<1>. QED BY <1>3, <1>5 DEF AcInv

LEMMA AcTeamFinalInv == ASSUME AcInv, NEW t \in AcTeams, AcTeamFinal(t) PROVE AcInv'
<1>1. /\ acJob.team = t /\ t # AcNone /\ UNCHANGED <<acReq, acRaced>> /\ acJob.kind # "idle"
  BY DEF AcTeamFinal, acHistory, AcInv, AcKnown
<1>2. AcTypes /\ <<>> \in AcRows
  BY EmptySeq DEF AcInv, AcRows
<1>3. AcNoJob \in [kind: {"idle", "team", "user"}, team: AcTeams \cup {AcNone}, user: AcUsers \cup {AcNone},
                   todo: SUBSET AcTeams]
  BY DEF AcNoJob
<1>4. CASE acContent[t]
  <2>1. acJob' = AcNoJob /\ UNCHANGED <<acUser, acTeam, acRoles, acInvites>>
    BY <1>4 DEF AcTeamFinal, acTables
  <2>2. AcTypes'
    BY <1>1, <1>2, <1>3, <2>1 DEF AcTypes
  <2>3. AcFewerInvites
    BY <1>2, <2>1 DEF AcFewerInvites, AcWorn, AcTypes
  <2>4. AcJobOwned' /\ acJob'.kind = "idle" /\ acJob'.team = AcNone
    BY <2>1 DEF AcJobOwned, AcNoJob
  <2>5. AcQuiet => AcOwned'
    BY <2>1 DEF AcQuiet, AcOwned, AcOwns, AcOwnsIn
  <2>. QED BY <1>1, <2>1, <2>2, <2>3, <2>4, <2>5, AcFinalInv
<1>5. CASE ~acContent[t]
  <2>1. /\ acTeam' = [acTeam EXCEPT ![t] = "gone"]
        /\ acRoles' = [acRoles EXCEPT ![t] = [u \in AcUsers |-> <<>>]]
        /\ acInvites' = AcDropInvites({i \in DOMAIN acInvites: acInvites[i].team = t})
        /\ acJob' = IF acJob.kind = "team" THEN AcNoJob ELSE [acJob EXCEPT !.team = AcNone]
        /\ acUser' = acUser
    BY <1>5 DEF AcTeamFinal
  <2>2. AcFewerInvites
    BY <1>2, <2>1, AcDropInvitesFewer
  <2>3. /\ acJob' \in [kind: {"idle", "team", "user"}, team: AcTeams \cup {AcNone}, user: AcUsers \cup {AcNone},
                        todo: SUBSET AcTeams]
        /\ acJob'.team = AcNone
        /\ acJob'.kind = "user" => /\ acJob.kind = "user" /\ acJob'.user = acJob.user /\ acJob'.todo = acJob.todo
    <3>1. CASE acJob.kind = "team"
      BY <1>3, <2>1, <3>1 DEF AcNoJob
    <3>2. CASE acJob.kind # "team"
      BY <1>2, <2>1, <3>2 DEF AcTypes
    <3>. QED BY <3>1, <3>2
  <2>4. /\ acTeam' \in [AcTeams -> {"none", "active", "gone"}]
        /\ acRoles' \in [AcTeams -> [AcUsers -> AcRows]]
        /\ acTeam'[t] = "gone" /\ \A u \in AcUsers: acRoles'[t][u] = <<>>
        /\ \A t2 \in AcTeams: t2 # t => acTeam'[t2] = acTeam[t2] /\ acRoles'[t2] = acRoles[t2]
    BY <1>2, <2>1 DEF AcTypes
  <2>5. AcTypes'
    BY <1>1, <1>2, <2>1, <2>2, <2>3, <2>4 DEF AcTypes, AcFewerInvites
  <2>6. \A t2 \in AcTeams, u \in AcUsers: acRoles'[t2][u] \in {acRoles[t2][u], <<>>}
    BY <2>4
  <2>7. \A t2 \in AcTeams: /\ (acTeam'[t2] = "none" => acTeam[t2] = "none")
                           /\ (acTeam'[t2] = "active" => acTeam[t2] = "active" /\ t2 # t)
    BY <2>4
  <2>8. acJob'.kind = "user" => acJob'.user \in AcUsers /\ acUser'[acJob'.user] = "active"
    BY <2>1, <2>3 DEF AcInv, AcKnown
  <2>9. ASSUME AcQuiet PROVE AcOwned' /\ AcJobOwned'
    <3>1. \A t2 \in AcTeams, u \in AcUsers: t2 # t => (AcOwns(u, t2)' <=> AcOwns(u, t2))
      BY <2>4 DEF AcOwns, AcOwnsIn
    <3>2. AcOwned'
      BY <2>7, <2>9, <3>1 DEF AcQuiet, AcOwned
    <3>3. AcJobOwned'
      BY <1>1, <2>3, <2>7, <2>9, <3>1 DEF AcQuiet, AcJobOwned, AcOtherOwner
    <3>. QED BY <3>2, <3>3
  <2>. QED BY <1>1, <2>2, <2>3, <2>5, <2>6, <2>7, <2>8, <2>9, AcFinalInv
<1>. QED BY <1>4, <1>5

LEMMA AcUserFinalInv == ASSUME AcInv, NEW u \in AcUsers, AcUserFinal(u) PROVE AcInv'
<1>1. /\ acJob.kind = "user" /\ acJob.user = u /\ acJob.team = AcNone /\ acJob.todo = {}
      /\ acJob' = AcNoJob /\ UNCHANGED <<acReq, acRaced>>
  BY DEF AcUserFinal, acHistory
<1>2. AcTypes /\ <<>> \in AcRows
  BY EmptySeq DEF AcInv, AcRows
<1>3. /\ AcNoJob \in [kind: {"idle", "team", "user"}, team: AcTeams \cup {AcNone}, user: AcUsers \cup {AcNone},
                      todo: SUBSET AcTeams]
      /\ AcNoJob.kind = "idle" /\ AcNoJob.team = AcNone
  BY DEF AcNoJob
<1>4. AcJobOwned'
  BY <1>1, <1>3 DEF AcJobOwned
<1>5. CASE AcReferred(u)
  <2>1. UNCHANGED <<acUser, acTeam, acRoles, acInvites>>
    BY <1>5 DEF AcUserFinal, acTables
  <2>2. AcTypes'
    BY <1>1, <1>2, <1>3, <2>1 DEF AcTypes
  <2>3. AcFewerInvites
    BY <1>2, <2>1 DEF AcFewerInvites, AcWorn, AcTypes
  <2>4. AcQuiet => AcOwned'
    BY <2>1 DEF AcQuiet, AcOwned, AcOwns, AcOwnsIn
  <2>. QED BY <1>1, <1>3, <1>4, <2>1, <2>2, <2>3, <2>4, AcFinalInv
<1>6. CASE ~AcReferred(u)
  <2>1. /\ acUser' = [acUser EXCEPT ![u] = "gone"] /\ acTeam' = acTeam
        /\ acRoles' = [t \in AcTeams |-> [acRoles[t] EXCEPT ![u] = <<>>]]
        /\ acInvites' = AcDropInvites({i \in DOMAIN acInvites: u \in {acInvites[i].user, acInvites[i].by}})
    BY <1>6 DEF AcUserFinal
  <2>2. AcFewerInvites
    BY <1>2, <2>1, AcDropInvitesFewer
  <2>3. /\ acRoles' \in [AcTeams -> [AcUsers -> AcRows]]
        /\ \A t \in AcTeams: acRoles'[t][u] = <<>> /\ \A o \in AcUsers: o # u => acRoles'[t][o] = acRoles[t][o]
    BY <1>2, <2>1 DEF AcTypes
  <2>4. AcTypes'
    BY <1>1, <1>2, <1>3, <2>1, <2>2, <2>3 DEF AcTypes, AcFewerInvites
  <2>5. \A t \in AcTeams, o \in AcUsers: acRoles'[t][o] \in {acRoles[t][o], <<>>}
    BY <2>3
  <2>6. ASSUME AcQuiet PROVE AcOwned'
    <3>1. \A t \in AcTeams, o \in AcUsers: o # u /\ AcOwns(o, t) => AcOwns(o, t)'
      BY <2>3 DEF AcOwns, AcOwnsIn
    <3>2. \A t \in AcTeams: acTeam[t] = "active" => AcOtherOwner(u, t)
      BY <1>1, <2>6, AcAssumption DEF AcQuiet, AcJobOwned
    <3>. QED BY <2>1, <3>1, <3>2 DEF AcOwned, AcOtherOwner
  <2>. QED BY <1>1, <1>3, <1>4, <2>1, <2>2, <2>4, <2>5, <2>6, AcFinalInv
<1>. QED BY <1>5, <1>6

LEMMA AcStepInv == AcInv /\ [AcNext]_acVars => AcInv'
<1>. SUFFICES ASSUME AcInv, [AcNext]_acVars PROVE AcInv'
  OBVIOUS
<1>1. CASE UNCHANGED acVars
  BY <1>1, AcStillInv DEF acVars, acTables, acHistory
<1>2. ASSUME NEW u \in AcUsers, NEW t \in AcTeams,
             \/ AcLogin(u, t) \/ AcNewTeam(u, t) \/ AcNewContent(u, t)
             \/ AcDeleteTeam(u, t) \/ AcDeleteUser(u)
             \/ \E a \in AcUsers: AcRemoveMember(a, u, t) \/ AcAdminDelete(a, u)
             \/ \E a \in AcUsers, r \in AcRequests, role \in AcRoles:
                  AcInviteCheck(r, a, u, t, role) \/ AcRoleCheck(r, a, u, t, role)
             \/ \E r \in AcRequests: AcLeaveCheck(r, u, t)
      PROVE  AcInv'
  <2>1. CASE AcLogin(u, t) \/ AcNewTeam(u, t)
    BY <2>1, AcLoginInv, AcNewTeamInv
  <2>2. CASE AcNewContent(u, t) \/ AcDeleteTeam(u, t) \/ AcDeleteUser(u) \/ \E a \in AcUsers: AcAdminDelete(a, u)
    BY <2>2, AcStillInv DEF AcNewContent, AcDeleteTeam, AcDeleteUser, AcAdminDelete, acTables, acHistory
  <2>3. CASE \E a \in AcUsers: AcRemoveMember(a, u, t)
    BY <2>3, AcRemoveInv
  <2>4. CASE \E a \in AcUsers, r \in AcRequests, role \in AcRoles:
               AcInviteCheck(r, a, u, t, role) \/ AcRoleCheck(r, a, u, t, role)
    BY <2>4, AcInviteCheckInv, AcRoleCheckInv
  <2>5. CASE \E r \in AcRequests: AcLeaveCheck(r, u, t)
    BY <2>5, AcLeaveCheckInv
  <2>. QED BY <1>2, <2>1, <2>2, <2>3, <2>4, <2>5
<1>3. CASE \E i \in 1..AcMaxInvites: \/ \E a \in AcUsers: AcRevoke(a, i)
                                     \/ AcDecline(i)
                                     \/ \E r \in AcRequests: AcAcceptCheck(r, i)
  BY <1>3, AcDeclineInv, AcAcceptCheckInv
<1>4. CASE \E r \in AcRequests: AcCommit(r)
  BY <1>4, AcInviteCommitInv, AcRoleCommitInv, AcLeaveCommitInv, AcAcceptCommitInv DEF AcCommit
<1>5. CASE AcJobStep
  BY <1>5, AcLoadInv, AcUserTeamInv, AcTeamFinalInv, AcUserFinalInv DEF AcJobStep
<1>. QED BY <1>1, <1>2, <1>3, <1>4, <1>5 DEF AcNext

LEMMA AcInvariant == AcSpec => []AcInv
BY AcInitInv, AcStepInv, PTL DEF AcSpec

(* Every team has an owner as long as no two decisions about it overlap and   *)
(* no admin removes an owner.                                                 *)
THEOREM AcOwnerKeptHolds == AcSpec => []AcOwnerKept
<1>1. AcInv => AcOwnerKept
  BY DEF AcInv, AcQuiet, AcOwned, AcOwnerKept
<1>. QED BY <1>1, AcInvariant, PTL

(* Nobody is in a team twice as long as no two requests overlap.              *)
THEOREM AcOncePerTeamHolds == AcSpec => []AcOncePerTeam
<1>1. AcInv => AcOncePerTeam
  BY DEF AcInv, AcQuiet, AcOnce, AcOncePerTeam
<1>. QED BY <1>1, AcInvariant, PTL

(* A step that adds a row to an existing team settles an invite to it.        *)
AcMore(t, u) == Len(acRoles'[t][u]) > Len(acRoles[t][u]) /\ acTeam[t] = "active"
AcSettles(t, u) == \E i \in DOMAIN acInvites: /\ acInvites[i].team = t /\ acInvites[i].user = u
                                              /\ acInvites'[i].status = "settled"

LEMMA AcMoreByAccept ==
  ASSUME AcInv, NEW r \in AcRequests, AcAcceptCommit(r), NEW t \in AcTeams, NEW u \in AcUsers, AcMore(t, u)
  PROVE  AcSettles(t, u)
<1>. DEFINE q == acReq[r]
<1>1. Len(acRoles[t][u]) \in Nat
  BY AcRowFacts DEF AcInv, AcTypes
<1>2. acRoles' # acRoles
  BY <1>1 DEF AcMore
<1>3. /\ q.op = "accept" /\ AcAcceptable(q)
      /\ acInvites' = [acInvites EXCEPT ![q.arg].status = "settled"]
      /\ acRoles' = [acRoles EXCEPT ![q.team][q.user] = Append(@, q.role)]
  BY <1>2 DEF AcAcceptCommit
<1>4. /\ q.team \in AcTeams /\ q.user \in AcUsers /\ q.arg \in DOMAIN acInvites
      /\ acInvites[q.arg].team = q.team /\ acInvites[q.arg].user = q.user
  BY <1>3 DEF AcInv, AcKnown, AcReqKnown, AcAcceptable
<1>5. t = q.team /\ u = q.user
  BY <1>1, <1>3, <1>4 DEF AcInv, AcTypes, AcMore
<1>6. acInvites[q.arg] \in AcInvite /\ acInvites \in Seq(AcInvite)
  BY <1>4, AcInvitesShape DEF AcInv, AcTypes
<1>7. acInvites'[q.arg].status = "settled"
  BY <1>3, <1>4, <1>6 DEF AcInvite
<1>. QED BY <1>4, <1>5, <1>7 DEF AcSettles

(* Other steps write shorter rows or none, or those of a team that is new.    *)
LEMMA AcNoMore ==
  ASSUME AcInv, NEW t \in AcTeams, NEW u \in AcUsers, AcMore(t, u)
  PROVE  /\ \A u2 \in AcUsers, t2 \in AcTeams: ~AcLogin(u2, t2) /\ ~AcNewTeam(u2, t2)
         /\ \A a, u2 \in AcUsers, t2 \in AcTeams: ~AcRemoveMember(a, u2, t2)
         /\ \A r \in AcRequests: ~AcRoleCommit(r) /\ ~AcLeaveCommit(r)
         /\ \A t2 \in AcTeams, u2 \in AcUsers: ~AcTeamFinal(t2) /\ ~AcUserFinal(u2)
<1>1. /\ acRoles[t][u] \in AcRows /\ Len(acRoles[t][u]) \in Nat /\ acTeam[t] = "active"
      /\ Len(acRoles'[t][u]) > Len(acRoles[t][u])
  BY AcRowFacts DEF AcInv, AcTypes, AcMore
<1>2. acRoles'[t][u] # acRoles[t][u] /\ acRoles'[t][u] # <<>>
  <2>1. Len(<<>>) = 0
    BY EmptySeq
  <2>. QED BY <1>1, <2>1
<1>3. ASSUME NEW u2 \in AcUsers, NEW t2 \in AcTeams, AcLogin(u2, t2) \/ AcNewTeam(u2, t2) PROVE FALSE
  <2>1. acTeam[t2] = "none" /\ acRoles' = [acRoles EXCEPT ![t2][u2] = <<"owner">>]
    BY <1>3 DEF AcLogin, AcNewTeam, AcNextTeam
  <2>. QED BY <1>1, <1>2, <2>1 DEF AcInv, AcTypes
<1>4. ASSUME NEW u2 \in AcUsers, NEW t2 \in AcTeams, AcIn(u2, t2),
             acRoles' = [acRoles EXCEPT ![t2][u2] = Tail(@)]
      PROVE  FALSE
  <2>1. t = t2 /\ u = u2 /\ acRoles'[t][u] = Tail(acRoles[t][u])
    BY <1>2, <1>4 DEF AcInv, AcTypes
  <2>2. Len(Tail(acRoles[t][u])) = Len(acRoles[t][u]) - 1
    BY <1>1, <1>4, <2>1, AcRowFacts DEF AcIn
  <2>. QED BY <1>1, <2>1, <2>2
<1>5. ASSUME NEW a \in AcUsers, NEW u2 \in AcUsers, NEW t2 \in AcTeams, AcRemoveMember(a, u2, t2) PROVE FALSE
  BY <1>4, <1>5 DEF AcRemoveMember
<1>6. ASSUME NEW r \in AcRequests, AcLeaveCommit(r) PROVE FALSE
  <2>1. acReq[r].team \in AcTeams /\ acReq[r].user \in AcUsers
    BY <1>6 DEF AcLeaveCommit, AcInv, AcKnown, AcReqKnown
  <2>. QED BY <1>2, <1>4, <1>6, <2>1 DEF AcLeaveCommit
<1>7. ASSUME NEW r \in AcRequests, AcRoleCommit(r) PROVE FALSE
  <2>. DEFINE q == acReq[r]
  <2>1. q.team \in AcTeams /\ q.user \in AcUsers /\ q.role \in AcAnyRole
    BY <1>7 DEF AcRoleCommit, AcInv, AcKnown, AcReqKnown, AcTypes, AcRequest
  <2>2. AcIn(q.user, q.team) /\ acRoles' = [acRoles EXCEPT ![q.team][q.user][1] = q.role]
    BY <1>2, <1>7 DEF AcRoleCommit
  <2>3. t = q.team /\ u = q.user /\ acRoles'[t][u] = [acRoles[t][u] EXCEPT ![1] = q.role]
    BY <1>2, <2>1, <2>2 DEF AcInv, AcTypes
  <2>4. Len([acRoles[t][u] EXCEPT ![1] = q.role]) = Len(acRoles[t][u])
    BY <1>1, <2>1, <2>2, <2>3, AcRowFacts DEF AcIn
  <2>. QED BY <1>1, <2>3, <2>4
<1>8. ASSUME NEW t2 \in AcTeams, AcTeamFinal(t2) PROVE FALSE
  <2>1. acRoles' = [acRoles EXCEPT ![t2] = [o \in AcUsers |-> <<>>]]
    BY <1>2, <1>8 DEF AcTeamFinal, acTables
  <2>. QED BY <1>2, <2>1 DEF AcInv, AcTypes
<1>9. ASSUME NEW u2 \in AcUsers, AcUserFinal(u2) PROVE FALSE
  <2>1. acRoles' = [o \in AcTeams |-> [acRoles[o] EXCEPT ![u2] = <<>>]]
    BY <1>2, <1>9 DEF AcUserFinal, acTables
  <2>. QED BY <1>2, <2>1 DEF AcInv, AcTypes
<1>. QED BY <1>3, <1>5, <1>6, <1>7, <1>8, <1>9

LEMMA AcMoreSettles ==
  ASSUME AcInv, [AcNext]_acVars, NEW t \in AcTeams, NEW u \in AcUsers, AcMore(t, u)
  PROVE  AcSettles(t, u)
<1>1. acRoles' # acRoles
  <2>1. Len(acRoles[t][u]) \in Nat
    BY AcRowFacts DEF AcInv, AcTypes
  <2>. QED BY <2>1 DEF AcMore
<1>2. AcNext
  BY <1>1 DEF acVars, acTables
<1>3. \A u2, t2: ~AcNewContent(u2, t2) /\ ~AcDeleteTeam(u2, t2) /\ ~AcDeleteUser(u2) /\ \A a: ~AcAdminDelete(a, u2)
  BY <1>1 DEF AcNewContent, AcDeleteTeam, AcDeleteUser, AcAdminDelete, acTables
<1>4. \A r, a, u2, t2, role, i:
        /\ ~AcInviteCheck(r, a, u2, t2, role) /\ ~AcRoleCheck(r, a, u2, t2, role)
        /\ ~AcLeaveCheck(r, u2, t2) /\ ~AcAcceptCheck(r, i)
  BY <1>1 DEF AcInviteCheck, AcRoleCheck, AcLeaveCheck, AcAcceptCheck, AcBegin, acTables
<1>5. \A a, i, r: ~AcRevoke(a, i) /\ ~AcDecline(i) /\ ~AcInviteCommit(r)
  BY <1>1 DEF AcRevoke, AcDecline, AcInviteCommit
<1>6. \A t2, u2: ~AcTeamLoad(t2) /\ ~AcUserLoad(u2) /\ ~AcUserTeam(t2)
  BY <1>1 DEF AcTeamLoad, AcUserLoad, AcUserTeam, acTables
<1>7. ~AcJobStep
  BY <1>6, AcNoMore DEF AcJobStep
<1>8. \E r \in AcRequests: AcAcceptCommit(r)
  BY <1>2, <1>3, <1>4, <1>5, <1>7, AcNoMore DEF AcNext, AcCommit
<1>. QED BY <1>8, AcMoreByAccept

(* A revoked invite lets nobody in: no team gets another row without an       *)
(* invite to it that is still there and is settled by the same step.          *)
THEOREM AcRevokedStaysHolds == AcSpec => AcRevokedStays
<1>1. AcInv /\ [AcNext]_acVars =>
        [\A t \in AcTeams, u \in AcUsers:
           Len(acRoles'[t][u]) > Len(acRoles[t][u]) /\ acTeam[t] = "active"
           => \E i \in DOMAIN acInvites: /\ acInvites[i].team = t /\ acInvites[i].user = u
                                         /\ acInvites'[i].status = "settled"]_acVars
  BY AcMoreSettles DEF AcMore, AcSettles
<1>. QED BY <1>1, AcInvariant, PTL DEF AcSpec, AcRevokedStays
-------------------------------------------------------------------------------
(* What is left of a deletion that a user asked for. This is the part of      *)
(* AcAccountGone that does not depend on fairness.                            *)
AcOwes(u) == \/ acUser[u] = "gone" \/ u \in acNoted \/ acLate
             \/ <<"user", u>> \in acQueue
             \/ acJob.kind = "user" /\ acJob.user = u

(* The job of every user who asked is queued or running until the user is     *)
(* gone, unless a notification or a project made meanwhile is in its way.     *)
AcDeletionOwed == \A u \in acAsked: AcOwes(u)

(* The team being deleted has no content but what was made meanwhile.         *)
AcEmptied == \A t \in AcTeams: acJob.team = t /\ acContent[t] => acLate
AcOwedInv == /\ acContent \in [AcTeams -> BOOLEAN] /\ acLate \in BOOLEAN
             /\ acAsked \subseteq {u \in AcUsers: acUser[u] # "none"}
             /\ AcEmptied /\ AcDeletionOwed

(* What requests do to users, jobs and content: they take no job and end no   *)
(* user.                                                                      *)
AcRequestEffect ==
  /\ UNCHANGED acJob /\ acQueue \subseteq acQueue' /\ acNoted \subseteq acNoted' /\ (acLate => acLate')
  /\ acLate' \in BOOLEAN
  /\ \A u \in AcUsers: acUser[u] # "none" => acUser'[u] = acUser[u]
  /\ \/ acAsked' = acAsked
     \/ \E u \in AcUsers: /\ acAsked' = acAsked \cup {u} /\ acUser'[u] = "active"
                          /\ <<"user", u>> \in acQueue'
  /\ \/ acContent' = acContent
     \/ \E t \in AcTeams: acContent' = [acContent EXCEPT ![t] = TRUE] /\ acLate' = (acLate \/ acJob.team = t)

LEMMA AcRequestStep ==
  ASSUME AcTypes, acLate \in BOOLEAN, [AcNext]_acVars
  PROVE  AcRequestEffect \/ AcJobStep
<1>1. CASE UNCHANGED acVars
  BY <1>1 DEF acVars, acTables, acHistory, AcRequestEffect
<1>2. ASSUME NEW u \in AcUsers, NEW t \in AcTeams, AcLogin(u, t) PROVE AcRequestEffect
  BY <1>2 DEF AcLogin, AcNextUser, AcRequestEffect, AcTypes, acHistory
<1>3. ASSUME NEW u \in AcUsers, NEW t \in AcTeams, AcNewTeam(u, t) PROVE AcRequestEffect
  BY <1>3 DEF AcNewTeam, AcRequestEffect
<1>4. ASSUME NEW u \in AcUsers, NEW t \in AcTeams, AcNewContent(u, t) PROVE AcRequestEffect
  BY <1>4 DEF AcNewContent, AcRequestEffect
<1>5. ASSUME NEW u \in AcUsers, NEW t \in AcTeams, AcDeleteTeam(u, t) PROVE AcRequestEffect
  BY <1>5 DEF AcDeleteTeam, AcRequestEffect, acTables, acHistory
<1>6. ASSUME NEW u \in AcUsers, AcDeleteUser(u) \/ \E a \in AcUsers: AcAdminDelete(a, u) PROVE AcRequestEffect
  BY <1>6 DEF AcDeleteUser, AcAdminDelete, AcSignedIn, AcRequestEffect, acTables, acHistory
<1>7. ASSUME NEW a \in AcUsers, NEW u \in AcUsers, NEW t \in AcTeams, AcRemoveMember(a, u, t)
      PROVE  AcRequestEffect
  BY <1>7 DEF AcRemoveMember, AcRequestEffect
<1>8. ASSUME NEW r, NEW req, AcBegin(r, req) PROVE AcRequestEffect
  BY <1>8 DEF AcBegin, AcRequestEffect, acTables
<1>9. ASSUME NEW i, AcDecline(i) \/ \E a \in AcUsers: AcRevoke(a, i) PROVE AcRequestEffect
  BY <1>9 DEF AcDecline, AcRevoke, AcRequestEffect, acHistory
<1>10. ASSUME NEW r \in AcRequests, AcInviteCommit(r) PROVE AcRequestEffect
  <2>1. UNCHANGED <<acUser, acContent, acAsked, acQueue, acJob, acHistory>> /\ acNoted \subseteq acNoted'
    BY <1>10 DEF AcInviteCommit
  <2>. QED BY <2>1 DEF AcRequestEffect, acHistory
<1>11. ASSUME NEW r \in AcRequests, AcRoleCommit(r) \/ AcLeaveCommit(r) \/ AcAcceptCommit(r)
       PROVE  AcRequestEffect
  <2>1. UNCHANGED <<acUser, acContent, acNoted, acAsked, acQueue, acJob, acHistory>>
    BY <1>11 DEF AcRoleCommit, AcLeaveCommit, AcAcceptCommit
  <2>. QED BY <2>1 DEF AcRequestEffect, acHistory
<1>12. ASSUME NEW r, NEW u, NEW t, NEW i, NEW a, NEW role,
              \/ AcInviteCheck(r, a, u, t, role) \/ AcRoleCheck(r, a, u, t, role)
              \/ AcLeaveCheck(r, u, t) \/ AcAcceptCheck(r, i)
       PROVE  AcRequestEffect
  BY <1>8, <1>12 DEF AcInviteCheck, AcRoleCheck, AcLeaveCheck, AcAcceptCheck
<1>13. ASSUME NEW u \in AcUsers, NEW t \in AcTeams,
              \/ AcLogin(u, t) \/ AcNewTeam(u, t) \/ AcNewContent(u, t)
              \/ AcDeleteTeam(u, t) \/ AcDeleteUser(u)
              \/ \E a \in AcUsers: AcRemoveMember(a, u, t) \/ AcAdminDelete(a, u)
              \/ \E a \in AcUsers, r \in AcRequests, role \in AcRoles:
                   AcInviteCheck(r, a, u, t, role) \/ AcRoleCheck(r, a, u, t, role)
              \/ \E r \in AcRequests: AcLeaveCheck(r, u, t)
       PROVE  AcRequestEffect
  BY <1>2, <1>3, <1>4, <1>5, <1>6, <1>7, <1>12, <1>13
<1>14. CASE \E i \in 1..AcMaxInvites: \/ \E a \in AcUsers: AcRevoke(a, i)
                                      \/ AcDecline(i)
                                      \/ \E r \in AcRequests: AcAcceptCheck(r, i)
  BY <1>9, <1>12, <1>14
<1>15. CASE \E r \in AcRequests: AcCommit(r)
  BY <1>10, <1>11, <1>15 DEF AcCommit
<1>. QED BY <1>1, <1>13, <1>14, <1>15 DEF AcNext

LEMMA AcRequestOwed == ASSUME AcTypes, AcOwedInv, AcRequestEffect PROVE AcOwedInv'
<1>1. acAsked' \subseteq {u \in AcUsers: acUser'[u] # "none"}
  BY DEF AcOwedInv, AcRequestEffect
<1>2. acContent' \in [AcTeams -> BOOLEAN] /\ acLate' \in BOOLEAN
  BY DEF AcOwedInv, AcRequestEffect
<1>3. AcEmptied'
  <2>1. CASE acContent' = acContent
    BY <2>1 DEF AcOwedInv, AcEmptied, AcRequestEffect
  <2>2. ASSUME NEW t \in AcTeams, acContent' = [acContent EXCEPT ![t] = TRUE],
               acLate' = (acLate \/ acJob.team = t)
        PROVE  AcEmptied'
    <3>1. \A o \in AcTeams: acContent'[o] => acContent[o] \/ o = t
      BY <2>2 DEF AcOwedInv
    <3>. QED BY <2>2, <3>1 DEF AcOwedInv, AcEmptied, AcRequestEffect
  <2>. QED BY <2>1, <2>2 DEF AcRequestEffect
<1>4. ASSUME NEW u \in acAsked PROVE AcOwes(u)'
  <2>1. AcOwes(u) /\ acUser'[u] = acUser[u]
    BY DEF AcOwedInv, AcDeletionOwed, AcRequestEffect
  <2>. QED BY <2>1 DEF AcOwes, AcRequestEffect
<1>5. AcDeletionOwed'
  <2>1. CASE acAsked' = acAsked
    BY <1>4, <2>1 DEF AcDeletionOwed
  <2>2. ASSUME NEW u \in AcUsers, acAsked' = acAsked \cup {u}, <<"user", u>> \in acQueue' PROVE AcDeletionOwed'
    BY <1>4, <2>2 DEF AcDeletionOwed, AcOwes
  <2>. QED BY <2>1, <2>2 DEF AcRequestEffect
<1>. QED BY <1>1, <1>2, <1>3, <1>5 DEF AcOwedInv

(* A step of a job that keeps what is owed to everybody keeps it all.         *)
LEMMA AcJobOwed ==
  ASSUME AcTypes, AcOwedInv, UNCHANGED <<acAsked, acLate>>, acContent' \in [AcTeams -> BOOLEAN], AcEmptied',
         \A u \in AcUsers: acUser'[u] \in {acUser[u], "gone"},
         \A u \in acAsked: AcOwes(u)'
  PROVE  AcOwedInv'
BY DEF AcOwedInv, AcDeletionOwed

LEMMA AcLoadOwed ==
  ASSUME AcTypes, AcOwedInv, NEW t \in AcTeams, NEW u \in AcUsers, AcTeamLoad(t) \/ AcUserLoad(u)
  PROVE  AcOwedInv'
<1>1. /\ UNCHANGED <<acUser, acNoted, acAsked, acLate>> /\ acJob.kind = "idle"
      /\ acContent' \in {acContent, [acContent EXCEPT ![t] = FALSE]}
  BY DEF AcTeamLoad, AcUserLoad, AcNoJob, acTables
<1>2. \/ acJob' = acJob
      \/ acJob'.team = t /\ acContent' = [acContent EXCEPT ![t] = FALSE]
      \/ acJob'.team = AcNone /\ acJob'.kind = "user" /\ acJob'.user = u
  BY DEF AcTeamLoad, AcUserLoad, AcNoJob, AcHold
<1>3. acContent' \in [AcTeams -> BOOLEAN] /\ \A o \in AcTeams: acContent'[o] => acContent[o]
  BY <1>1 DEF AcOwedInv
<1>4. acContent' = [acContent EXCEPT ![t] = FALSE] => ~acContent'[t]
  BY DEF AcOwedInv
<1>5. AcEmptied'
  BY <1>1, <1>2, <1>3, <1>4, AcAssumption DEF AcEmptied, AcOwedInv
<1>6. ASSUME NEW o \in acAsked PROVE AcOwes(o)'
  <2>1. AcOwes(o) /\ acUser[o] # "none" /\ o \in AcUsers
    BY DEF AcOwedInv, AcDeletionOwed
  <2>2. CASE AcTeamLoad(t)
    BY <1>1, <2>1, <2>2 DEF AcOwes, AcTeamLoad
  <2>3. CASE AcUserLoad(u) /\ o # u
    BY <1>1, <2>1, <2>3 DEF AcOwes, AcUserLoad
  <2>4. CASE AcUserLoad(u) /\ o = u
    <3>1. acUser[u] = "active" => acJob'.kind = "user" /\ acJob'.user = u
      BY <2>4 DEF AcUserLoad, AcHold, AcNoJob
    <3>. QED BY <1>1, <2>1, <2>4, <3>1 DEF AcOwes, AcTypes
  <2>. QED BY <2>2, <2>3, <2>4
<1>. QED BY <1>1, <1>3, <1>5, <1>6, AcJobOwed

LEMMA AcUserTeamOwed == ASSUME AcTypes, AcOwedInv, NEW t \in AcTeams, AcUserTeam(t) PROVE AcOwedInv'
<1>1. /\ UNCHANGED <<acUser, acNoted, acAsked, acLate, acQueue>> /\ acContent' = [acContent EXCEPT ![t] = FALSE]
      /\ acJob' = [acJob EXCEPT !.team = IF acTeam[t] = "active" THEN t ELSE AcNone, !.todo = @ \ {t}]
  BY DEF AcUserTeam, acHistory
<1>2. acJob'.kind = acJob.kind /\ acJob'.user = acJob.user /\ acJob'.team \in {t, AcNone}
  BY <1>1 DEF AcTypes
<1>3. acContent' \in [AcTeams -> BOOLEAN] /\ ~acContent'[t]
  BY <1>1 DEF AcOwedInv
<1>4. AcEmptied'
  BY <1>2, <1>3, AcAssumption DEF AcEmptied
<1>5. \A u \in acAsked: AcOwes(u)'
  BY <1>1, <1>2 DEF AcOwedInv, AcDeletionOwed, AcOwes
<1>. QED BY <1>1, <1>3, <1>4, <1>5, AcJobOwed

LEMMA AcTeamFinalOwed == ASSUME AcTypes, AcOwedInv, NEW t \in AcTeams, AcTeamFinal(t) PROVE AcOwedInv'
<1>1. /\ UNCHANGED <<acUser, acContent, acNoted, acAsked, acLate, acQueue>> /\ acJob.team = t
      /\ \/ acContent[t] /\ acJob' = AcNoJob
         \/ acJob.kind = "team" /\ acJob' = AcNoJob
         \/ acJob' = [acJob EXCEPT !.team = AcNone]
  BY DEF AcTeamFinal, acTables, acHistory
<1>2. acJob'.team = AcNone
  BY <1>1 DEF AcNoJob, AcTypes
<1>3. AcEmptied'
  BY <1>2, AcAssumption DEF AcEmptied
<1>4. \A u \in acAsked: AcOwes(u)'
  <2>1. CASE acContent[t]
    BY <1>1, <2>1 DEF AcOwedInv, AcEmptied, AcOwes
  <2>2. CASE acJob.kind = "team"
    BY <1>1, <2>2 DEF AcOwedInv, AcDeletionOwed, AcOwes
  <2>3. CASE acJob' = [acJob EXCEPT !.team = AcNone]
    <3>1. acJob'.kind = acJob.kind /\ acJob'.user = acJob.user
      BY <2>3 DEF AcTypes
    <3>. QED BY <1>1, <3>1 DEF AcOwedInv, AcDeletionOwed, AcOwes
  <2>. QED BY <1>1, <2>1, <2>2, <2>3
<1>5. acContent' \in [AcTeams -> BOOLEAN]
  BY <1>1 DEF AcOwedInv
<1>. QED BY <1>1, <1>3, <1>4, <1>5, AcJobOwed

LEMMA AcUserFinalOwed == ASSUME AcTypes, AcOwedInv, NEW u \in AcUsers, AcUserFinal(u) PROVE AcOwedInv'
<1>1. /\ UNCHANGED <<acContent, acNoted, acAsked, acLate, acQueue>> /\ acJob.user = u /\ acJob' = AcNoJob
      /\ \/ u \in acNoted /\ acUser' = acUser
         \/ acUser' = [acUser EXCEPT ![u] = "gone"]
  BY DEF AcUserFinal, AcReferred, acTables, acHistory
<1>2. \A o \in AcUsers: acUser'[o] = acUser[o] \/ (o = u /\ acUser'[o] = "gone")
  BY <1>1 DEF AcTypes
<1>3. u \in acNoted \/ acUser'[u] = "gone"
  BY <1>1 DEF AcTypes
<1>4. AcEmptied'
  BY <1>1, AcAssumption DEF AcEmptied, AcNoJob
<1>5. ASSUME NEW o \in acAsked PROVE AcOwes(o)'
  BY <1>1, <1>2, <1>3 DEF AcOwedInv, AcDeletionOwed, AcOwes
<1>6. acContent' \in [AcTeams -> BOOLEAN]
  BY <1>1 DEF AcOwedInv
<1>. QED BY <1>1, <1>2, <1>4, <1>5, <1>6, AcJobOwed

(* For any number of users, teams and requests: no deletion that was asked    *)
(* for is forgotten, whichever of them overlap.                               *)
THEOREM AcDeletionOwedHolds == AcSpec => []AcDeletionOwed
<1>1. AcInit => AcOwedInv
  BY DEF AcInit, AcOwedInv, AcEmptied, AcDeletionOwed
<1>2. AcInv /\ AcOwedInv /\ [AcNext]_acVars => AcOwedInv'
  <2>. SUFFICES ASSUME AcTypes, AcOwedInv, [AcNext]_acVars PROVE AcOwedInv'
    BY DEF AcInv
  <2>1. CASE AcRequestEffect
    BY <2>1, AcRequestOwed
  <2>2. CASE AcJobStep
    BY <2>2, AcLoadOwed, AcUserTeamOwed, AcTeamFinalOwed, AcUserFinalOwed DEF AcJobStep
  <2>. QED BY <2>1, <2>2, AcRequestStep DEF AcOwedInv
<1>3. AcOwedInv => AcDeletionOwed
  BY DEF AcOwedInv
<1>. QED BY <1>1, <1>2, <1>3, AcInvariant, PTL DEF AcSpec
===============================================================================
