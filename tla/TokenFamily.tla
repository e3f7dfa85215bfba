----------------------------- MODULE TokenFamily -----------------------------
(***************************************************************************)
(* What refresh token rotation promises (docs/prd-security-reliability.md, *)
(* docs/api-reference.md), without transactions, answers or browsers: the  *)
(* tokens of one login form a family; a family has at most one token that  *)
(* can be exchanged; an exchange spends it for a new one; and a family     *)
(* that has none left never gets another.                                  *)
(***************************************************************************)
CONSTANTS Tokens

VARIABLES
  live,   \* the token of each family that can be exchanged, as a set
  born    \* the tokens that were ever issued

familyVars == <<live, born>>

Init ==
  /\ live = [f \in Tokens |-> {}]
  /\ born = {}

\* A login; the family is named after its first token.
Issue(t) ==
  /\ t \notin born
  /\ live' = [live EXCEPT ![t] = {t}]
  /\ born' = born \cup {t}

Exchange(f, t, u) ==
  /\ live[f] = {t} /\ u \notin born
  /\ live' = [live EXCEPT ![f] = {u}]
  /\ born' = born \cup {u}

\* A logout or a replay.
End(f) ==
  /\ live[f] # {}
  /\ live' = [live EXCEPT ![f] = {}]
  /\ UNCHANGED born

Next ==
  \E f \in Tokens :
    \/ Issue(f)
    \/ End(f)
    \/ \E t \in live[f], u \in Tokens \ born : Exchange(f, t, u)

Spec == Init /\ [][Next]_familyVars
=============================================================================
