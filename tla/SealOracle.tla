----------------------------- MODULE SealOracle -----------------------------
(***************************************************************************)
(* What a resolver of single-use seals promises, whatever its protocol     *)
(* with the node: an answer that commits itself (anything but Unknown or   *)
(* an error) was true of the seal at one instant between the question and  *)
(* the answer, all of it at once.                                          *)
(***************************************************************************)
CONSTANTS Questions, NoQuestion, Evasions

VARIABLES
    truth,     \* question |-> the answers that are true now
    question,  \* the question being answered
    witnessed, \* the answers that were true at some instant since it was asked
    reply      \* the last answer

oracleVars == <<truth, question, witnessed, reply>>

Init ==
    /\ question = NoQuestion
    /\ witnessed = {}
    /\ reply \in Evasions

Ask(q) ==
    /\ question = NoQuestion
    /\ question' = q
    /\ witnessed' = truth[q]
    /\ reply' \in Evasions
    /\ UNCHANGED truth

Answer ==
    /\ question # NoQuestion
    /\ question' = NoQuestion
    /\ reply' \in witnessed \cup Evasions
    /\ UNCHANGED <<truth, witnessed>>

\* A question that is turned away at once.
Decline(q) ==
    /\ question = NoQuestion
    /\ witnessed' = truth[q]
    /\ reply' \in Evasions
    /\ UNCHANGED <<truth, question>>

World ==
    /\ truth' # truth
    /\ witnessed' = IF question = NoQuestion THEN witnessed ELSE witnessed \cup truth'[question]
    /\ UNCHANGED <<question, reply>>

Next == World \/ Answer \/ \E q \in Questions : Ask(q) \/ Decline(q)

Spec == Init /\ [][Next]_oracleVars

=============================================================================
