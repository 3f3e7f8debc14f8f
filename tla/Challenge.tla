------------------------------ MODULE Challenge -------------------------------
(* The browser challenge of protected hosts: issuing one, handing it to the  *)
(* browser, verifying its answer, and the load counter its difficulty comes  *)
(* from (app/services/browser_challenge.py, the challenge routes of          *)
(* app/routers/security.py). The web processes share only Redis; every step  *)
(* is one Redis command. Left out: which check of an answer fails, the rate  *)
(* limit before it, which refuses without another effect on what is here,    *)
(* and the difficulty, which is looked up in the load and kept with the key. *)
EXTENDS Integers, FiniteSets

CONSTANTS ChIds,                  \* challenges ever issued
          ChRequests,             \* verify requests under way at once
          ChTtl, ChLoadTtl,       \* lifetimes: 600 s, and 120 s after the last issue
          ChMaxTime               \* bound: time, in units of ChLoadTtl

ASSUME ChAssumption == /\ ChIds # {}
                       /\ {ChTtl, ChLoadTtl, ChMaxTime} \subseteq Nat
                       /\ 0 < ChLoadTtl /\ ChLoadTtl < ChTtl

VARIABLES
  chNow,       \* the clock
  chLoad,      \* sec:challenge_load: its value and its expiry; 0 for no expiry
  chIssues,    \* of each challenge: how far its issue is
  chKeys,      \* expiry of sec:challenge:<id>; 0 is no such key
  chBoots,     \* expiry of the boot session that holds it
  chKnown,     \* challenges a browser was given
  chVerifies,  \* the verify requests
  chOpen,      \* history: counted challenges whose answer has not been counted off
  chPasses,    \* history: passes each challenge brought
  chLapsed     \* history: the counter expired, or went below 0

chVars == <<chNow, chLoad, chIssues, chKeys, chBoots, chKnown, chVerifies, chOpen, chPasses, chLapsed>>

ChIdle == [pc |-> "idle", id |-> CHOOSE i \in ChIds: TRUE, ok |-> FALSE]
ChNoLoad == [count |-> 0, until |-> 0]

ChInit == /\ chNow = 0
          /\ chLoad = ChNoLoad
          /\ chIssues = [i \in ChIds |-> "unissued"]
          /\ chKeys = [i \in ChIds |-> 0]
          /\ chBoots = [i \in ChIds |-> 0]
          /\ chKnown = {}
          /\ chVerifies = [r \in ChRequests |-> ChIdle]
          /\ chOpen = {}
          /\ chPasses = [i \in ChIds |-> 0]
          /\ chLapsed = FALSE
------------------------------------------------------------------------------
(* challenge_page: issue_challenge, then create_boot_session.                *)

ChIssuing(i, from, to) ==
  chIssues[i] = from /\ chIssues' = [chIssues EXCEPT ![i] = to]

\* _bump_challenge_load: INCR and EXPIRE in one transaction.
ChBump(i) ==
  /\ ChIssuing(i, "unissued", "bumped")
  /\ chLoad' = [count |-> chLoad.count + 1, until |-> chNow + ChLoadTtl]
  /\ chOpen' = chOpen \cup {i}
  /\ UNCHANGED <<chNow, chKeys, chBoots, chKnown, chVerifies, chPasses, chLapsed>>

\* The key, and then the boot session.
ChStore(i) ==
  /\ ChIssuing(i, "bumped", "stored")
  /\ chKeys' = [chKeys EXCEPT ![i] = chNow + ChTtl]
  /\ UNCHANGED <<chNow, chLoad, chBoots, chKnown, chVerifies, chOpen, chPasses, chLapsed>>
ChBoot(i) ==
  /\ ChIssuing(i, "stored", "booted")
  /\ chBoots' = [chBoots EXCEPT ![i] = chNow + ChTtl]
  /\ UNCHANGED <<chNow, chLoad, chKeys, chKnown, chVerifies, chOpen, chPasses, chLapsed>>

\* read_boot_session, whether or not what it holds has been answered.
ChHasBoot(i) == chBoots[i] > 0
\* challenge_boot: the browser asks for what its cookie names.
ChReadBoot(i) ==
  /\ ChHasBoot(i)
  /\ chKnown' = chKnown \cup {i}
  /\ UNCHANGED <<chNow, chLoad, chIssues, chKeys, chBoots, chVerifies, chOpen, chPasses, chLapsed>>
------------------------------------------------------------------------------
(* challenge_verify. A browser may send an answer more than once.            *)

\* Mutant: read first and deleted with a later command.
ChTakenLater(i) == chKeys
\* _take_challenge: GETDEL.
ChTaken(i) == [chKeys EXCEPT ![i] = 0]
\* verify_challenge: whatever its outcome, a challenge that was found is used up.
ChTake(r, i) ==
  /\ chVerifies[r].pc = "idle" /\ i \in chKnown /\ chKeys[i] > 0
  /\ chKeys' = ChTaken(i)
  /\ \E ok \in BOOLEAN: chVerifies' = [chVerifies EXCEPT ![r] = [pc |-> "drop", id |-> i, ok |-> ok]]
  /\ UNCHANGED <<chNow, chLoad, chIssues, chBoots, chKnown, chOpen, chPasses, chLapsed>>

\* _drop_challenge_load: DECR, of a missing key to -1 and without an expiry ...
ChDrop(r) ==
  LET v == chVerifies[r]
      left == chLoad.count - 1
  IN /\ v.pc = "drop"
     /\ chLoad' = [chLoad EXCEPT !.count = left]
     /\ chVerifies' = [chVerifies EXCEPT ![r].pc = IF left < 0 THEN "zero" ELSE "answer"]
     /\ chOpen' = chOpen \ {v.id}
     /\ chLapsed' = (chLapsed \/ left < 0)
     /\ UNCHANGED <<chNow, chIssues, chKeys, chBoots, chKnown, chPasses>>
\* ... and a value below 0 is replaced, whatever became of it meanwhile.
ChZero(r) ==
  /\ chVerifies[r].pc = "zero"
  /\ chLoad' = [count |-> 0, until |-> chNow + ChLoadTtl]
  /\ chVerifies' = [chVerifies EXCEPT ![r].pc = "answer"]
  /\ UNCHANGED <<chNow, chIssues, chKeys, chBoots, chKnown, chOpen, chPasses, chLapsed>>

\* The pass, and the end of the boot session.
ChAnswer(r) ==
  LET v == chVerifies[r]
  IN /\ v.pc = "answer"
     /\ IF v.ok
        THEN /\ chPasses' = [chPasses EXCEPT ![v.id] = @ + 1]
             /\ chBoots' = [chBoots EXCEPT ![v.id] = 0]
        ELSE UNCHANGED <<chPasses, chBoots>>
     /\ chVerifies' = [chVerifies EXCEPT ![r] = ChIdle]
     /\ UNCHANGED <<chNow, chLoad, chIssues, chKeys, chKnown, chOpen, chLapsed>>

\* The request, or its process, ends early; what it did to Redis stays.
ChDie(r) ==
  /\ chVerifies[r].pc # "idle"
  /\ chVerifies' = [chVerifies EXCEPT ![r] = ChIdle]
  /\ UNCHANGED <<chNow, chLoad, chIssues, chKeys, chBoots, chKnown, chOpen, chPasses, chLapsed>>

\* Redis drops what has expired.
ChLiving(expiries) == [i \in ChIds |-> IF expiries[i] <= chNow + 1 THEN 0 ELSE expiries[i]]
ChTick ==
  LET lapses == chLoad.until = chNow + 1
  IN /\ chNow < ChMaxTime
     /\ chNow' = chNow + 1
     /\ chKeys' = ChLiving(chKeys)
     /\ chBoots' = ChLiving(chBoots)
     /\ chLoad' = IF lapses THEN ChNoLoad ELSE chLoad
     /\ chLapsed' = (chLapsed \/ lapses)
     /\ UNCHANGED <<chIssues, chKnown, chVerifies, chOpen, chPasses>>

ChNext == \/ \E i \in ChIds: ChBump(i) \/ ChStore(i) \/ ChBoot(i) \/ ChReadBoot(i)
          \/ \E r \in ChRequests: \/ \E i \in ChIds: ChTake(r, i)
                                  \/ ChDrop(r) \/ ChZero(r) \/ ChAnswer(r) \/ ChDie(r)
          \/ ChTick
ChSpec == ChInit /\ [][ChNext]_chVars
------------------------------------------------------------------------------
ChTypeOK ==
  /\ chLoad.count \in -Cardinality(ChIds)..Cardinality(ChIds)
  /\ \A i \in ChIds: chIssues[i] \in {"unissued", "bumped", "stored", "booted"}
  /\ \A r \in ChRequests: chVerifies[r].pc \in {"idle", "drop", "zero", "answer"}
  /\ {i \in ChIds: chKeys[i] > 0 \/ chBoots[i] > 0} \cup chKnown
       \subseteq {i \in ChIds: chIssues[i] \in {"stored", "booted"}}

\* However often and through however many processes a browser answers, a
\* challenge brings one pass at most, and is counted off once: the load that
\* decides the difficulty is exactly the challenges without an answer until the
\* counter lapses, and never exceeds them afterwards.
ChAnsweredOnce ==
  /\ \A i \in ChIds: chPasses[i] <= 1
  /\ chLoad.count <= Cardinality(chOpen)
  /\ ~chLapsed => chLoad.count = Cardinality(chOpen)

\* A challenge is open from the moment its key is stored until that is gone.
ChState(i) == CASE chIssues[i] \in {"unissued", "bumped"} -> "unissued"
                [] chIssues[i] \in {"stored", "booted"} -> IF chKeys[i] > 0 THEN "open" ELSE "spent"
Token == INSTANCE OneTimeToken
           WITH OtTokens <- ChIds, otState <- [i \in ChIds |-> ChState(i)], otPasses <- chPasses

\* Challenge implements OneTimeToken: through all the commands between which
\* requests overlap, processes die and keys expire, no challenge is opened again,
\* answered while it is open to another answer, or worth a second pass.
ChOneTime == Token!OtSpec
==============================================================================
