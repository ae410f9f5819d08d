----------------------------- MODULE AnswerOnce -----------------------------
(***************************************************************************)
(* What lib/auth-request-settlement.ts promises to the app that asked: a   *)
(* request is answered at most once, and the answer is never replaced.     *)
(***************************************************************************)
EXTENDS Naturals, Sequences

CONSTANT Requests

VARIABLE answers       \* the answers sent for each request, oldest first

Answer == {"approved", "denied"}

Init == answers = [r \in Requests |-> <<>>]

Give(r, a) ==
    /\ answers[r] = <<>>
    /\ answers' = [answers EXCEPT ![r] = <<a>>]

Next == \E r \in Requests, a \in Answer : Give(r, a)

Spec == Init /\ [][Next]_answers

=============================================================================
