--------------------------- MODULE AuthSettlement ---------------------------
(***************************************************************************)
(* The answer guard of lib/auth-request-settlement.ts.  One instance keeps *)
(* the settlement of every sign-in or connect request by its key.  Each    *)
(* method of the class runs without an await, so each is one action here;  *)
(* the components that own a request (ConnectDelivery) use them as parts   *)
(* of their own steps.                                                     *)
(***************************************************************************)
EXTENDS Naturals, Sequences

CONSTANT Requests      \* the request objects (a NIP-46 request is keyed by object)

VARIABLES
    settle,            \* the state map: a key that is absent there is "open" here
    delivering,        \* claimed, and the claimed delivery has not finished
    cancelRequested    \* cancelled while a claimed delivery was running

settlementVars == <<settle, delivering, cancelRequested>>

SettlementStates == {"open", "in-flight", "settled"}

SettlementTypeOK ==
    /\ settle \in [Requests -> SettlementStates]
    /\ delivering \subseteq Requests
    /\ cancelRequested \subseteq Requests

SettlementInit ==
    /\ settle = [r \in Requests |-> "open"]
    /\ delivering = {}
    /\ cancelRequested = {}

\* beginApproval, in the case it answers 'ok'.
BeginApproval(r) ==
    /\ settle[r] = "open"
    /\ settle' = [settle EXCEPT ![r] = "in-flight"]
    /\ UNCHANGED <<delivering, cancelRequested>>

\* Mutant of EndApproval: the settlement is dropped with the approval.
EndApprovalForgets(r) ==
    /\ settle' = [settle EXCEPT ![r] = "open"]
    /\ delivering' = delivering \ {r}
    /\ cancelRequested' = cancelRequested \ {r}

\* endApproval: an approval that never delivered leaves its request open.
EndApproval(r) ==
    /\ settle' = [settle EXCEPT ![r] = IF @ = "in-flight" THEN "open" ELSE @]
    /\ delivering' = delivering \ {r}
    /\ cancelRequested' = cancelRequested \ {r}

\* claimDelivery, in the case it answers true.
ClaimDelivery(r) ==
    /\ settle[r] = "in-flight"
    /\ settle' = [settle EXCEPT ![r] = "settled"]
    /\ delivering' = delivering \cup {r}
    /\ UNCHANGED cancelRequested

\* requestCancelDuringDelivery, in the case it answers true.
RequestCancelDuringDelivery(r) ==
    /\ r \in delivering
    /\ cancelRequested' = cancelRequested \cup {r}
    /\ UNCHANGED <<settle, delivering>>

\* finishDelivery answers whether a cancel was recorded meanwhile.
FinishDelivery(r) ==
    /\ delivering' = delivering \ {r}
    /\ cancelRequested' = cancelRequested \ {r}
    /\ UNCHANGED settle

\* unclaimDelivery: the send failed, the same approval may try again.
UnclaimDelivery(r) ==
    /\ delivering' = delivering \ {r}
    /\ settle' = [settle EXCEPT ![r] = IF @ = "settled" THEN "in-flight" ELSE @]
    /\ UNCHANGED cancelRequested

\* Mutant of Deny: a request that has its answer is denied as well.
DenyAnyway(r) ==
    /\ settle' = [settle EXCEPT ![r] = "settled"]
    /\ UNCHANGED <<delivering, cancelRequested>>

\* deny, when the request has no answer yet ('denied' or 'took-over').
Deny(r) ==
    /\ settle[r] # "settled"
    /\ settle' = [settle EXCEPT ![r] = "settled"]
    /\ UNCHANGED <<delivering, cancelRequested>>

=============================================================================
