----------------------------- MODULE OneTimeToken -----------------------------
(* What a challenge promises, whatever Redis commands it is made of: a token *)
(* is issued once, open until it is spent, by an answer or by time, and from *)
(* then on worth one pass at most.                                           *)
EXTENDS Naturals

CONSTANT OtTokens

VARIABLES otState,   \* of each token: "unissued", "open", "spent"
          otPasses   \* the passes it has brought

otVars == <<otState, otPasses>>

OtMove(i, from, to) == otState[i] = from /\ otState' = [otState EXCEPT ![i] = to]

OtInit == /\ otState = [i \in OtTokens |-> "unissued"]
          /\ otPasses = [i \in OtTokens |-> 0]

OtIssue(i) == OtMove(i, "unissued", "open") /\ UNCHANGED otPasses
\* An answer spends one token.
OtSpend(i) == OtMove(i, "open", "spent") /\ UNCHANGED otPasses
\* Time may spend several.
OtLapse(tokens) ==
  /\ tokens # {} /\ \A i \in tokens: otState[i] = "open"
  /\ otState' = [i \in OtTokens |-> IF i \in tokens THEN "spent" ELSE otState[i]]
  /\ UNCHANGED otPasses
OtRedeem(i) ==
  /\ otState[i] = "spent" /\ otPasses[i] = 0
  /\ otPasses' = [otPasses EXCEPT ![i] = 1]
  /\ UNCHANGED otState

OtNext == \/ \E i \in OtTokens: OtIssue(i) \/ OtSpend(i) \/ OtRedeem(i)
          \/ \E tokens \in SUBSET OtTokens: OtLapse(tokens)
OtSpec == OtInit /\ [][OtNext]_otVars
===============================================================================
