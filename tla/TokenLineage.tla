----------------------------- MODULE TokenLineage -----------------------------
(***************************************************************************)
(* What the rotation of refresh tokens promises: a token is issued once,   *)
(* by a login or in exchange for an earlier one, which ends there and then;*)
(* what has ended is never issued again and never live again.              *)
(***************************************************************************)
CONSTANTS Tokens, NoToken

VARIABLES
    stage,  \* "unissued", "live" or "ended"
    from    \* the token each was issued in exchange for, NoToken after a login

Init == /\ stage = [t \in Tokens |-> "unissued"]
        /\ from = [t \in Tokens |-> NoToken]

Issue(t) == /\ stage[t] = "unissued"
            /\ stage' = [stage EXCEPT ![t] = "live"]
            /\ UNCHANGED from

Exchange(s, t) == /\ stage[s] # "unissued" /\ stage[t] = "unissued"
                  /\ stage' = [stage EXCEPT ![s] = "ended", ![t] = "live"]
                  /\ from' = [from EXCEPT ![t] = s]

End(S) == /\ \A t \in S : stage[t] # "unissued"
          /\ stage' = [t \in Tokens |-> IF t \in S THEN "ended" ELSE stage[t]]
          /\ UNCHANGED from

Next == \/ \E t \in Tokens : Issue(t)
        \/ \E s, t \in Tokens : Exchange(s, t)
        \/ \E S \in SUBSET Tokens : End(S)

Spec == Init /\ [][Next]_<<stage, from>>
==============================================================================
