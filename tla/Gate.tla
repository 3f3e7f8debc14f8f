--------------------------------- MODULE Gate ---------------------------------
(* What a protected host answers: each web process keeps the level of a host *)
(* and the passes it has seen in memory for a while, whatever the database   *)
(* says meanwhile (app/services/security_host.py, verify_pass_cookie of      *)
(* app/services/browser_challenge.py, forward_auth of                        *)
(* app/routers/security.py, the security settings of                         *)
(* app/routers/project.py). One host and one browser that asks for pages;    *)
(* Challenge has what brings it a pass. Left out: assets and the challenge's *)
(* own pages, which are always let through, and clients without a browser.   *)
EXTENDS Integers

CONSTANTS GtProcs,                  \* web processes
          GtAttackTtl, GtOtherTtl,  \* _CACHE_TTL_ATTACK_SEC (30), _CACHE_TTL_OTHER_SEC (120)
          GtPassTtl, GtPassCacheTtl,\* security_pass_ttl_seconds, _PASS_CACHE_TTL_SEC (45)
          GtMaxTime                 \* bound: time

ASSUME GtAssumption == /\ {GtAttackTtl, GtOtherTtl, GtPassTtl, GtPassCacheTtl} \subseteq Nat \ {0}
                       /\ GtMaxTime \in Nat
                       /\ GtAttackTtl <= GtOtherTtl /\ GtPassCacheTtl < GtPassTtl

VARIABLES
  gtNow,       \* the clock
  gtLevel,     \* whether the host is under_attack, and the time of the last change
  gtLevels,    \* each process's cached level and its expiry; 0 is no entry
  gtReading,   \* a request that has read the level and not cached it yet
  gtCookie,    \* the browser's pass: its expiry, whether it is for its address
  gtPasses,    \* expiry of each process's entry for that pass
  gtMoved      \* history: when the browser's address changed after the pass

gtVars == <<gtNow, gtLevel, gtLevels, gtReading, gtCookie, gtPasses, gtMoved>>

GtNoLevel == [on |-> FALSE, until |-> 0]
GtNoReading == [pc |-> "idle", on |-> FALSE, at |-> 0]
GtNoCookie == [until |-> 0, here |-> FALSE]

GtInit == /\ gtNow = 0
          /\ gtLevel \in [on: BOOLEAN, since: {-GtOtherTtl - 1}]
          /\ gtLevels = [p \in GtProcs |-> GtNoLevel]
          /\ gtReading = [p \in GtProcs |-> GtNoReading]
          /\ gtCookie = GtNoCookie
          /\ gtPasses = [p \in GtProcs |-> 0]
          /\ gtMoved = 0

\* project_settings, security, or another deployment, alias or domain.
GtSetLevel ==
  /\ gtLevel' = [on |-> ~gtLevel.on, since |-> gtNow]
  /\ UNCHANGED <<gtNow, gtLevels, gtReading, gtCookie, gtPasses, gtMoved>>

\* _level_from_db; the other requests of the process run on ...
GtRead(p) ==
  /\ gtReading[p].pc = "idle" /\ gtLevels[p].until = 0
  /\ gtReading' = [gtReading EXCEPT ![p] = [pc |-> "read", on |-> gtLevel.on, at |-> gtNow]]
  /\ UNCHANGED <<gtNow, gtLevel, gtLevels, gtCookie, gtPasses, gtMoved>>
\* ... until _cache_set.
GtCached(on) == [on |-> on, until |-> gtNow + (IF on THEN GtAttackTtl ELSE GtOtherTtl)]
GtCache(p) ==
  /\ gtReading[p].pc = "read"
  /\ gtLevels' = [gtLevels EXCEPT ![p] = GtCached(gtReading[p].on)]
  /\ gtReading' = [gtReading EXCEPT ![p] = GtNoReading]
  /\ UNCHANGED <<gtNow, gtLevel, gtCookie, gtPasses, gtMoved>>

\* What verify_pass_cookie knows of the pass by itself.
GtValid == gtCookie.here /\ gtNow < gtCookie.until
\* Mutant: an entry is renewed whenever it is used.
GtSeenAgain(p) ==
  IF gtPasses[p] > gtNow \/ GtValid THEN gtNow + GtPassCacheTtl ELSE gtPasses[p]
\* verify_pass_cookie: an entry is made when the pass is verified, and only then.
GtSeen(p) ==
  IF ~(gtPasses[p] > gtNow) /\ GtValid THEN gtNow + GtPassCacheTtl ELSE gtPasses[p]
GtPassed(p) == gtNow < gtCookie.until /\ (gtPasses[p] > gtNow \/ GtValid)

\* forward_auth, and the challenge's own pages likewise: the pass, then the
\* level; "wait" for the level's query.
GtAnswer(p) ==
  CASE GtPassed(p) -> "through"
    [] ~GtPassed(p) /\ gtLevels[p].until = 0 -> "wait"
    [] ~GtPassed(p) /\ gtLevels[p].until > 0 -> IF gtLevels[p].on THEN "challenge" ELSE "through"
GtForwardAuth(p) ==
  /\ gtPasses' = [gtPasses EXCEPT ![p] = GtSeen(p)]
  /\ UNCHANGED <<gtNow, gtLevel, gtLevels, gtReading, gtCookie, gtMoved>>

\* challenge_verify, with an answer that is accepted: a new pass, in whose name no
\* process has an entry. It asks for the level first.
GtPass(p) ==
  /\ gtLevels[p].until > 0 /\ gtLevels[p].on
  /\ gtCookie' = [until |-> gtNow + GtPassTtl, here |-> TRUE]
  /\ gtPasses' = [q \in GtProcs |-> 0]
  /\ gtMoved' = 0
  /\ UNCHANGED <<gtNow, gtLevel, gtLevels, gtReading>>

\* The browser's address changes; the pass is not for the new one.
GtMove ==
  /\ gtCookie.here
  /\ gtCookie' = [gtCookie EXCEPT !.here = FALSE]
  /\ gtMoved' = gtNow
  /\ UNCHANGED <<gtNow, gtLevel, gtLevels, gtReading, gtPasses>>

\* A process starts again, or has too many entries and clears them all.
GtForget(p) ==
  /\ gtLevels' = [gtLevels EXCEPT ![p] = GtNoLevel]
  /\ gtPasses' = [gtPasses EXCEPT ![p] = 0]
  /\ UNCHANGED <<gtNow, gtLevel, gtReading, gtCookie, gtMoved>>

\* A query takes less than a unit of time; the browser drops an expired cookie.
GtTick ==
  LET Alive(until) == IF until <= gtNow + 1 THEN 0 ELSE until
  IN /\ gtNow < GtMaxTime
     /\ \A p \in GtProcs: gtReading[p].pc = "read" => gtReading[p].at = gtNow
     /\ gtNow' = gtNow + 1
     /\ gtLevels' = [p \in GtProcs |-> IF Alive(gtLevels[p].until) = 0 THEN GtNoLevel ELSE gtLevels[p]]
     /\ gtPasses' = [p \in GtProcs |-> IF Alive(gtCookie.until) = 0 THEN 0 ELSE Alive(gtPasses[p])]
     /\ gtCookie' = IF Alive(gtCookie.until) = 0 THEN GtNoCookie ELSE gtCookie
     /\ UNCHANGED <<gtLevel, gtReading, gtMoved>>

GtNext == \/ GtSetLevel \/ GtMove \/ GtTick
          \/ \E p \in GtProcs: \/ GtRead(p) \/ GtCache(p) \/ GtForwardAuth(p)
                               \/ GtPass(p) \/ GtForget(p)
GtSpec == GtInit /\ [][GtNext]_gtVars
------------------------------------------------------------------------------
GtTypeOK ==
  /\ \A p \in GtProcs: /\ gtLevels[p].until = 0 \/ gtLevels[p].until > gtNow
                       /\ gtPasses[p] = 0 \/ gtCookie.until > gtNow
                       /\ gtReading[p].pc \in {"idle", "read"}
  /\ gtCookie.here => gtCookie.until > gtNow

\* Whichever process answers: a page goes through only with a pass that was the
\* browser's within the lifetime of a cached one, or for a host that was not
\* protected within that of a cached level; it is challenged only without such a
\* pass and when the host was protected as lately. So processes that disagree,
\* between which a browser is sent to and fro, agree in that time. A level
\* read is cached up to a query later.
GtAnswersFresh ==
  LET Lately(ttl) == gtNow <= gtLevel.since + ttl + 1
  IN \A p \in GtProcs:
       /\ GtAnswer(p) = "through" =>
            \/ GtValid
            \/ gtNow < gtCookie.until /\ gtNow < gtMoved + GtPassCacheTtl
            \/ ~gtLevel.on
            \/ Lately(GtOtherTtl)
       /\ GtAnswer(p) = "challenge" => ~GtValid /\ (gtLevel.on \/ Lately(GtAttackTtl))
==============================================================================
