----------------------- MODULE ConnectDelivery_proofs -----------------------
(***************************************************************************)
(* Proofs about ConnectDelivery: one answer per request and no serving of  *)
(* a cancelled request, for any number of requests, apps, relays and       *)
(* approvals, and with every disturbance; and what the record of an app is *)
(* once its approvals have ended.                                          *)
(***************************************************************************)
EXTENDS ConnectDelivery, TLAPS

-----------------------------------------------------------------------------
(* Type correctness.  Every step of an approval leaves the variables below *)
(* in their types; the lemmas give it for the shared parts of the steps.   *)

RelayTyped ==
    /\ relay \in [Requests -> Nat]
    /\ \A r \in Requests : relay[r] \in 1..NumRelays[r]

StepTyped ==
    /\ SettlementTypeOK
    /\ pc \in [Requests -> Steps]
    /\ undoFor \in [Requests -> {"stop", "next"}]
    /\ RelayTyped
    /\ route \in Approvals \cup {None}
    /\ tracked \in [Requests -> Approvals \cup {None}]

\* Ending an approval keeps the types of the settlement and of pc.
LEMMA EndTyped ==
    ASSUME TypeOK, NEW r \in Requests, End(r)
    PROVE  pc' \in [Requests -> Steps] /\ SettlementTypeOK'
  BY DEF TypeOK, End, Goto, Steps, EndApproval, SettlementTypeOK, SettlementStates

\* Going to the rollback keeps the types (Undo of undoSave).
LEMMA UndoTyped ==
    ASSUME TypeOK, NEW r \in Requests, NEW for \in {"stop", "next"}, Undo(r, for),
           SettlementTypeOK'
    PROVE  StepTyped'
  BY DEF TypeOK, StepTyped, RelayTyped, Undo, Goto, Steps, routeVars

\* Withdrawing keeps the types.
LEMMA WithdrawTyped ==
    ASSUME TypeOK, NEW r \in Requests, Withdraw(r)
    PROVE  StepTyped'
  BY EndTyped DEF TypeOK, StepTyped, RelayTyped, Withdraw, ClearRoute

\* Going to the next relay keeps the types: the index never passes NumRelays.
LEMMA NextRelayTyped ==
    ASSUME TypeOK, NEW r \in Requests, NextRelay(r)
    PROVE  StepTyped'
<1>1. CASE End(r) /\ UNCHANGED <<relay, undoFor, routeVars>>
  BY <1>1, EndTyped DEF TypeOK, StepTyped, RelayTyped, routeVars
<1>2. CASE Withdraw(r)
  BY <1>2, WithdrawTyped
<1>3. CASE /\ relay[r] < NumRelays[r]
           /\ relay' = [relay EXCEPT ![r] = @ + 1]
           /\ Goto(r, "arm")
           /\ UNCHANGED <<undoFor, routeVars, settlementVars>>
  <2>1. RelayTyped
    BY DEF TypeOK, RelayTyped
  <2>2. \A q \in Requests : NumRelays[q] \in Nat \ {0}
    BY ConnectAssumption
  <2>3. relay' \in [Requests -> Nat]
    BY <1>3, <2>1 DEF RelayTyped
  <2>4. relay[r] + 1 \in 1..NumRelays[r]
    BY <1>3, <2>1, <2>2 DEF RelayTyped
  <2>5. \A q \in Requests : relay'[q] = IF q = r THEN relay[r] + 1 ELSE relay[q]
    BY <1>3, <2>1 DEF RelayTyped
  <2>6. RelayTyped'
    BY <2>1, <2>3, <2>4, <2>5 DEF RelayTyped
  <2>7. UNCHANGED <<route, tracked, undoFor>> /\ SettlementTypeOK' /\ pc' \in [Requests -> Steps]
    BY <1>3 DEF TypeOK, Goto, Steps, routeVars, settlementVars, SettlementTypeOK
  <2> QED
    BY <2>6, <2>7 DEF TypeOK, StepTyped
<1> QED
  BY <1>1, <1>2, <1>3 DEF NextRelay

\* So does whatever follows a rollback.
LEMMA AfterUndoTyped ==
    ASSUME TypeOK, NEW r \in Requests, AfterUndo(r)
    PROVE  StepTyped'
  BY WithdrawTyped, NextRelayTyped DEF AfterUndo

\* A running approval has a nonce and a token to draw.
LEMMA MineTyped ==
    ASSUME TypeOK, Counted, NEW r \in Requests, ~At(r, "idle")
    PROVE  Mine(r) \in Approvals
  BY ConnectAssumption DEF TypeOK, Counted, Mine, Approvals

\* One step of the user keeps the types.
LEMMA UserTyped ==
    ASSUME TypeOK, NEW r \in Requests, User(r)
    PROVE  TypeOK'
<1> USE DEF settlementVars, uiVars, approvalVars, routeVars, recordVars, logVars
<1>1. CASE Arrive(r)
  BY <1>1 DEF TypeOK, SettlementTypeOK, Arrive
<1>2. CASE Approve(r)
  BY <1>2, ConnectAssumption
  DEF TypeOK, SettlementTypeOK, SettlementStates, Approve, BeginApproval, Goto, Steps
<1>3. CASE CancelOpen(r)
  <2>1. answers' \in [Requests -> Seq({"approved", "denied"})]
    BY <1>3 DEF TypeOK, CancelOpen
  <2> QED
    BY <1>3, <2>1
    DEF TypeOK, SettlementTypeOK, SettlementStates, CancelOpen, Deny, ClearRoute
<1>4. CASE CancelDuringDelivery(r)
  BY <1>4 DEF TypeOK, SettlementTypeOK, CancelDuringDelivery, RequestCancelDuringDelivery,
              ClearRoute
<1>5. CASE Dismiss(r)
  BY <1>5 DEF TypeOK, SettlementTypeOK, Dismiss
<1> QED
  BY <1>1, <1>2, <1>3, <1>4, <1>5 DEF User

\* One step of an approval keeps the types.
LEMMA ApprovalTyped ==
    ASSUME TypeOK, Counted, NEW r \in Requests, Approval(r)
    PROVE  TypeOK'
<1> USE DEF uiVars, recordVars, logVars
<1> DEFINE Rest == UNCHANGED <<uiVars, attempt, previous, recordVars, logVars>>
<1>1. StepTyped' /\ Rest => TypeOK'
  BY DEF TypeOK, StepTyped, RelayTyped
<1>2. CASE ResolveFails(r)
  BY <1>1, <1>2, EndTyped DEF ResolveFails, TypeOK, StepTyped, RelayTyped, routeVars
<1>3. CASE Resolved(r)
  <2>1. pc' \in [Requests -> Steps] /\ SettlementTypeOK'
    <3>1. CASE StillOpen(r)
      BY <1>3, <3>1 DEF Resolved, TypeOK, SettlementTypeOK, settlementVars, Goto, Steps
    <3>2. CASE ~StillOpen(r)
      BY <1>3, <3>2, EndTyped DEF Resolved
    <3> QED
      BY <3>1, <3>2
  <2>2. RelayTyped'
    <3>1. \A q \in Requests : NumRelays[q] \in Nat \ {0}
      BY ConnectAssumption
    <3>2. RelayTyped
      BY DEF TypeOK, RelayTyped
    <3>3. relay' = [relay EXCEPT ![r] = 1]
      BY <1>3 DEF Resolved
    <3> QED
      BY <3>1, <3>2, <3>3 DEF RelayTyped
  <2>3. UNCHANGED <<pending, arrived, attempt, undoFor, previous, store, touched, route, tracked,
                    answers, connected, revoked>>
    BY <1>3 DEF Resolved, routeVars
  <2> QED
    BY <2>1, <2>2, <2>3 DEF TypeOK, RelayTyped
<1>4. CASE LoadExisting(r) \/ LoadFails(r)
  <2>1. store[ClientOf[r]] \in Records /\ None \in Records
    BY ConnectAssumption DEF TypeOK, Records
  <2>2. previous' \in [Requests -> Records]
    BY <1>4, <2>1 DEF LoadExisting, LoadFails, TypeOK
  <2> QED
    BY <1>4, <2>2
    DEF LoadExisting, LoadFails, TypeOK, SettlementTypeOK, settlementVars, routeVars, Goto, Steps
<1>5. CASE InstallRoute(r)
  <2>1. ~At(r, "idle")
    BY <1>5 DEF InstallRoute, At
  <2>2. Mine(r) \in Approvals
    BY <2>1, MineTyped
  <2>3. StepTyped'
    <3>1. CASE StillOpen(r)
      <4>1. /\ route' = Mine(r) /\ tracked' = [tracked EXCEPT ![r] = Mine(r)]
            /\ pc' = [pc EXCEPT ![r] = "arm"]
            /\ UNCHANGED <<settlementVars, relay, undoFor>>
        BY <1>5, <3>1 DEF InstallRoute, Goto
      <4>2. route' \in Approvals \cup {None} /\ tracked' \in [Requests -> Approvals \cup {None}]
        BY <2>2, <4>1 DEF TypeOK
      <4>3. pc' \in [Requests -> Steps]
        BY <4>1 DEF TypeOK, Steps
      <4>4. SettlementTypeOK' /\ undoFor' \in [Requests -> {"stop", "next"}]
        BY <4>1 DEF TypeOK, SettlementTypeOK, settlementVars
      <4>5. RelayTyped'
        BY <4>1 DEF TypeOK, RelayTyped
      <4> QED
        BY <4>2, <4>3, <4>4, <4>5 DEF StepTyped
    <3>2. CASE ~StillOpen(r)
      BY <1>5, <3>2, EndTyped DEF InstallRoute, TypeOK, StepTyped, RelayTyped, routeVars
    <3> QED
      BY <3>1, <3>2
  <2> QED
    BY <1>1, <1>5, <2>3 DEF InstallRoute
<1>6. CASE Armed(r)
  <2>1. StepTyped'
    BY <1>6, WithdrawTyped
    DEF Armed, TypeOK, StepTyped, RelayTyped, SettlementTypeOK, settlementVars, routeVars, Goto, Steps
  <2> QED
    BY <1>1, <1>6, <2>1 DEF Armed
<1>7. CASE ArmFails(r) \/ SaveFails(r)
  BY <1>1, <1>7, NextRelayTyped DEF ArmFails, SaveFails
<1>8. CASE SaveClient(r)
  <2>1. ~At(r, "idle")
    BY <1>8 DEF SaveClient, At
  <2>2. Mine(r) \in Records
    BY <2>1, MineTyped DEF Records
  <2> QED
    BY <1>8, <2>2
    DEF SaveClient, TypeOK, SettlementTypeOK, settlementVars, routeVars, Goto, Steps
<1>9. CASE Saved(r) \/ SendFails(r) \/ ClaimRefused(r)
  <2>1. SettlementTypeOK'
    BY <1>9 DEF Saved, SendFails, ClaimRefused, TypeOK, SettlementTypeOK, settlementVars
  <2>2. StepTyped'
    BY <1>9, <2>1, UndoTyped
    DEF Saved, SendFails, ClaimRefused, TypeOK, StepTyped, RelayTyped, routeVars, Goto, Steps
  <2> QED
    BY <1>1, <1>9, <2>2 DEF Saved, SendFails, ClaimRefused
<1>10. CASE Claim(r)
  BY <1>10 DEF Claim, ClaimDelivery, TypeOK, SettlementTypeOK, SettlementStates, routeVars,
               Goto, Steps
<1>11. CASE Published(r)
  <2>1. ~At(r, "idle")
    BY <1>11 DEF Published, At
  <2>2. Mine(r) \in Approvals
    BY <2>1, MineTyped
  <2>3. StepTyped'
    <3>1. CASE r \in cancelRequested
      <4>1. SettlementTypeOK'
        BY <1>11, <3>1 DEF Published, FinishDelivery, TypeOK, SettlementTypeOK
      <4> QED
        BY <1>11, <3>1, <4>1, UndoTyped DEF Published
    <3>2. CASE r \notin cancelRequested
      BY <1>11, <3>2, EndTyped DEF Published, TypeOK, StepTyped, RelayTyped
    <3> QED
      BY <3>1, <3>2
  <2>4. answers' \in [Requests -> Seq({"approved", "denied"})]
    BY <1>11 DEF Published, TypeOK
  <2> QED
    BY <1>11, <2>2, <2>3, <2>4 DEF Published, TypeOK, StepTyped, RelayTyped
<1>12. CASE PublishFails(r)
  <2>1. SettlementTypeOK'
    BY <1>12 DEF PublishFails, UnclaimDelivery, TypeOK, SettlementTypeOK, SettlementStates
  <2> QED
    BY <1>1, <1>12, <2>1, UndoTyped DEF PublishFails
<1>13. CASE StillOurs(r)
  BY <1>13 DEF StillOurs, TypeOK, SettlementTypeOK, settlementVars, routeVars, Goto, Steps
<1>14. CASE NotOurs(r) \/ RewriteFails(r)
  BY <1>1, <1>14, AfterUndoTyped DEF NotOurs, RewriteFails
<1>15. CASE Rewrite(r)
  <2>1. store' \in [Clients -> Records]
    BY <1>15 DEF Rewrite, TypeOK
  <2> QED
    BY <1>15, <2>1, AfterUndoTyped DEF Rewrite, TypeOK, StepTyped, RelayTyped
<1> QED
  BY <1>2, <1>3, <1>4, <1>5, <1>6, <1>7, <1>8, <1>9, <1>10, <1>11, <1>12, <1>13, <1>14, <1>15
  DEF Approval, Signer, Delivery

\* What the other code does keeps the types.
LEMMA OthersTyped ==
    ASSUME TypeOK, Others
    PROVE  TypeOK'
<1> USE DEF settlementVars, uiVars, approvalVars, routeVars, logVars, recordVars
<1>1. CASE RouteExpires
  BY <1>1 DEF RouteExpires, TypeOK, SettlementTypeOK
<1>2. ASSUME NEW c \in Clients, Revoke(c) \/ TouchRead(c) \/ TouchWrite(c)
      PROVE  TypeOK'
  BY <1>2 DEF Revoke, TouchRead, TouchWrite, TypeOK, SettlementTypeOK, Records
<1> QED
  BY <1>1, <1>2 DEF Others

\* A stuttering step keeps every invariant: the variables are the same.
LEMMA Stutter ==
    ASSUME IndInv, UNCHANGED vars
    PROVE  IndInv'
  BY DEF IndInv, TypeOK, SettlementTypeOK, Counted, AnswerInv, ServeInv, Cancelled, At, vars,
         settlementVars, uiVars, approvalVars, routeVars, recordVars, logVars

-----------------------------------------------------------------------------
(* The strengthened invariant, part by part.                               *)

\* Most steps of an approval neither publish nor install: seen from the answers
\* and the route they only move on, end the approval, or take a route down.
Retreat(r) ==
    /\ ~At(r, "publish")
    /\ settle' \in {settle, [settle EXCEPT ![r] = IF @ = "in-flight" THEN "open" ELSE @]}
    /\ delivering' \subseteq delivering
    /\ \E s \in Steps \ {"publish"} : Goto(r, s)
    /\ cancelRequested' \in {cancelRequested, cancelRequested \ {r}}
    /\ route' \in {route, None}
    /\ UNCHANGED <<tracked, pending, arrived, answers, attempt>>

\* The four other steps: install, claim, publish and hand back the claim.
Installs(r) == InstallRoute(r) /\ StillOpen(r)

LEMMA NextRelayRetreats ==
    ASSUME NEW r \in Requests, ~At(r, "publish"), NextRelay(r) \/ Withdraw(r) \/ AfterUndo(r),
           UNCHANGED <<pending, arrived, answers, attempt>>
    PROVE  Retreat(r)
  BY DEF Retreat, NextRelay, Withdraw, AfterUndo, End, EndApproval, ClearRoute, Goto, Steps,
         routeVars, settlementVars

LEMMA ApprovalSteps ==
    ASSUME NEW r \in Requests, Approval(r)
    PROVE  /\ ~At(r, "idle")
           /\ \/ Retreat(r)
              \/ Installs(r)
              \/ Claim(r)
              \/ Published(r)
              \/ PublishFails(r)
<1> USE DEF uiVars, logVars
<1>1. CASE ResolveFails(r)
  BY <1>1 DEF ResolveFails, At, Retreat, End, EndApproval, Goto, Steps, routeVars
<1>2. CASE Resolved(r)
  BY <1>2 DEF Resolved, At, Retreat, End, EndApproval, Goto, Steps, routeVars, settlementVars
<1>3. CASE LoadExisting(r) \/ LoadFails(r) \/ SaveClient(r) \/ StillOurs(r)
  BY <1>3 DEF LoadExisting, LoadFails, SaveClient, StillOurs, At, Retreat, Goto, Steps,
              routeVars, settlementVars
<1>4. CASE InstallRoute(r)
  BY <1>4 DEF InstallRoute, Installs, At, Retreat, End, EndApproval, Goto, Steps, routeVars
<1>5. CASE Armed(r)
  <2>1. CASE StillOpen(r)
    BY <1>5, <2>1 DEF Armed, Withdraw, At, Retreat, Goto, Steps, routeVars, settlementVars
  <2>2. CASE Withdraw(r)
    BY <1>5, <2>2, NextRelayRetreats DEF Armed, At
  <2> QED
    BY <1>5, <2>1, <2>2 DEF Armed
<1>6. CASE ArmFails(r) \/ SaveFails(r) \/ NotOurs(r) \/ Rewrite(r) \/ RewriteFails(r)
  BY <1>6, NextRelayRetreats DEF ArmFails, SaveFails, NotOurs, Rewrite, RewriteFails, At
<1>7. CASE Saved(r) \/ SendFails(r) \/ ClaimRefused(r)
  BY <1>7 DEF Saved, SendFails, ClaimRefused, Undo, At, Retreat, Goto, Steps, routeVars,
              settlementVars
<1>8. CASE Claim(r) \/ Published(r) \/ PublishFails(r)
  BY <1>8 DEF Claim, Published, PublishFails, At
<1> QED
  BY <1>1, <1>2, <1>3, <1>4, <1>5, <1>6, <1>7, <1>8
  DEF Approval, Signer, Delivery

\* Every approval that runs has been counted.
LEMMA CountedKept ==
    ASSUME TypeOK, Counted, [Next]_vars
    PROVE  Counted'
<1> USE DEF TypeOK, Counted, At
<1>1. ASSUME NEW r \in Requests, Approval(r)
      PROVE  Counted'
  <2>1. pc[r] # "idle" /\ attempt' = attempt /\ \A q \in Requests \ {r} : pc'[q] = pc[q]
    BY <1>1, ApprovalSteps
    DEF Retreat, Installs, InstallRoute, Claim, Published, PublishFails, Undo, End, Goto
  <2> QED
    BY <2>1
<1>2. ASSUME NEW r \in Requests, User(r)
      PROVE  Counted'
  <2>1. CASE Approve(r)
    BY <2>1, ConnectAssumption DEF Approve, Goto
  <2>2. CASE ~Approve(r)
    BY <1>2, <2>2 DEF User, Arrive, CancelOpen, CancelDuringDelivery, Dismiss, approvalVars
  <2> QED
    BY <2>1, <2>2
<1>3. CASE Others \/ UNCHANGED vars
  BY <1>3 DEF Others, RouteExpires, Revoke, TouchRead, TouchWrite, approvalVars, vars
<1> QED
  BY <1>1, <1>2, <1>3 DEF Next

\* AnswerInv: the claim is the only way to an approval, Deny the only way to a
\* denial, and both need an unsettled request.
LEMMA AnswerInvKept ==
    ASSUME TypeOK, AnswerInv, [Next]_vars
    PROVE  AnswerInv'
<1> USE DEF TypeOK, SettlementTypeOK, SettlementStates, AnswerInv, At
<1>1. ASSUME NEW r \in Requests, Retreat(r)
      PROVE  AnswerInv'
  BY <1>1 DEF Retreat, Goto
<1>2. ASSUME NEW r \in Requests, Installs(r) \/ Claim(r) \/ PublishFails(r)
      PROVE  AnswerInv'
  BY <1>2 DEF Installs, InstallRoute, Claim, ClaimDelivery, PublishFails, UnclaimDelivery, Undo,
              Goto, settlementVars, logVars
<1>3. ASSUME NEW r \in Requests, Published(r)
      PROVE  AnswerInv'
  <2>1. answers' = [answers EXCEPT ![r] = <<"approved">>]
    <3>1. answers[r] = <<>>
      BY <1>3 DEF Published
    <3>2. Append(<<>>, "approved") = <<"approved">>
      OBVIOUS
    <3> QED
      BY <1>3, <3>1, <3>2 DEF Published
  <2>2. settle' = settle /\ delivering' = delivering \ {r}
    BY <1>3 DEF Published, FinishDelivery, End, EndApproval
  <2>3. pc' \in {[pc EXCEPT ![r] = "undo"], [pc EXCEPT ![r] = "idle"]}
    BY <1>3 DEF Published, Undo, End, Goto
  <2> SUFFICES ASSUME NEW q \in Requests
               PROVE  /\ pc'[q] = "publish" => settle[q] = "settled" /\ answers'[q] = <<>>
                      /\ q \in delivering' => pc'[q] = "publish"
                      /\ settle[q] # "settled" => answers'[q] = <<>>
                      /\ answers'[q] \in {<<>>, <<"approved">>, <<"denied">>}
    BY <2>2
  <2>4. CASE q = r
    BY <1>3, <2>1, <2>2, <2>3, <2>4 DEF Published
  <2>5. CASE q # r
    BY <2>1, <2>2, <2>3, <2>5
  <2> QED
    BY <2>4, <2>5
<1>4. ASSUME NEW r \in Requests, User(r)
      PROVE  AnswerInv'
  <2>1. CASE CancelOpen(r)
    <3>1. answers' = [answers EXCEPT ![r] = <<"denied">>]
      <4>1. answers[r] = <<>>
        BY <2>1 DEF CancelOpen, Deny
      <4>2. Append(<<>>, "denied") = <<"denied">>
        OBVIOUS
      <4> QED
        BY <2>1, <4>1, <4>2 DEF CancelOpen
    <3> QED
      BY <2>1, <3>1 DEF CancelOpen, Deny, approvalVars
  <2>2. CASE Approve(r)
    BY <2>2 DEF Approve, BeginApproval, Goto, logVars
  <2>3. CASE Arrive(r) \/ CancelDuringDelivery(r) \/ Dismiss(r)
    BY <2>3 DEF Arrive, CancelDuringDelivery, RequestCancelDuringDelivery, Dismiss,
                settlementVars, approvalVars, logVars
  <2> QED
    BY <1>4, <2>1, <2>2, <2>3 DEF User
<1>5. CASE Others \/ UNCHANGED vars
  BY <1>5 DEF Others, RouteExpires, Revoke, TouchRead, TouchWrite, vars, settlementVars,
              approvalVars, logVars
<1> QED
  BY <1>1, <1>2, <1>3, <1>4, <1>5, ApprovalSteps DEF Next

\* The three logs of answers differ.
LEMMA LogsDiffer ==
    <<>> # <<"denied">> /\ <<"approved">> # <<"denied">> /\ <<"approved">> # <<>>
<1>1. <<"approved">>[1] = "approved" /\ <<"denied">>[1] = "denied"
  OBVIOUS
<1>2. Len(<<>>) = 0 /\ Len(<<"denied">>) = 1 /\ Len(<<"approved">>) = 1
  OBVIOUS
<1> QED
  BY <1>1, <1>2

\* ServeInv: a route is installed only for a request that is still open, and a
\* Cancel takes down the route the tracker knows.
LEMMA ServeInvKept ==
    ASSUME TypeOK, Counted, AnswerInv, ServeInv, [Next]_vars
    PROVE  ServeInv'
<1> USE DEF TypeOK, SettlementTypeOK, SettlementStates, ServeInv, Cancelled
<1>none. None[1] \notin Requests /\ \A r \in Requests : Mine(r)[1] = r
  BY ConnectAssumption DEF None, Mine
<1>1. ASSUME NEW r \in Requests, Retreat(r)
      PROVE  ServeInv'
  BY <1>1, <1>none DEF Retreat
<1>2. ASSUME NEW r \in Requests, Installs(r)
      PROVE  ServeInv'
  <2>1. /\ route' = Mine(r) /\ tracked' = [tracked EXCEPT ![r] = Mine(r)]
        /\ UNCHANGED <<pending, arrived, cancelRequested, answers>>
    BY <1>2 DEF Installs, InstallRoute, settlementVars, uiVars, logVars
  <2>2. answers[r] = <<>> /\ r \notin cancelRequested
    BY <1>2 DEF Installs, StillOpen, StillPending, AnswerInv
  <2> QED
    BY <2>1, <2>2, <1>none, LogsDiffer
<1>3. ASSUME NEW r \in Requests, Claim(r) \/ PublishFails(r)
      PROVE  ServeInv'
  <2>1. UNCHANGED <<route, tracked, pending, arrived, cancelRequested, answers>>
    BY <1>3 DEF Claim, ClaimDelivery, PublishFails, UnclaimDelivery, Undo, routeVars, uiVars,
                logVars
  <2> QED
    BY <2>1
<1>4. ASSUME NEW r \in Requests, Published(r)
      PROVE  ServeInv'
  <2>1. answers'[r] = <<"approved">> /\ \A q \in Requests \ {r} : answers'[q] = answers[q]
    <3>1. answers[r] = <<>>
      BY <1>4 DEF Published, AnswerInv
    <3>2. Append(<<>>, "approved") = <<"approved">>
      OBVIOUS
    <3> QED
      BY <1>4, <3>1, <3>2 DEF Published
  <2>2. cancelRequested' = cancelRequested \ {r} /\ UNCHANGED <<route, pending, arrived>>
    <3>1. CASE r \in cancelRequested
      BY <1>4, <3>1 DEF Published, FinishDelivery, Undo, routeVars, uiVars
    <3>2. CASE r \notin cancelRequested
      BY <1>4, <3>2 DEF Published, End, EndApproval, uiVars
    <3> QED
      BY <3>1, <3>2
  <2>3. \A q \in Requests \ {r} : tracked'[q] = tracked[q]
    BY <1>4 DEF Published, Undo, routeVars
  <2> QED
    BY <2>1, <2>2, <2>3, LogsDiffer
<1>5. ASSUME NEW r \in Requests, User(r)
      PROVE  ServeInv'
  <2>1. CASE CancelOpen(r)
    <3>1. answers[r] = <<>> /\ r \notin cancelRequested
      BY <2>1 DEF CancelOpen, StillPending, Deny, AnswerInv
    <3>2. route'[1] # r /\ route' \in {route, None}
      BY <2>1, <3>1, <1>none DEF CancelOpen, ClearRoute
    <3>3. \A q \in Requests \ {r} : tracked'[q] = tracked[q] /\ answers'[q] = answers[q]
      BY <2>1 DEF CancelOpen
    <3>4. pending' = NoRequest /\ UNCHANGED <<cancelRequested, arrived>>
      BY <2>1 DEF CancelOpen, Deny
    <3> QED
      BY <3>1, <3>2, <3>3, <3>4, <1>none, ConnectAssumption
  <2>2. CASE CancelDuringDelivery(r)
    <3>1. r \notin cancelRequested /\ r \in arrived /\ answers[r] = <<>>
      BY <2>2 DEF CancelDuringDelivery, StillPending, RequestCancelDuringDelivery, AnswerInv
    <3>2. route'[1] # r
      BY <2>2, <3>1, <1>none DEF CancelDuringDelivery, ClearRoute
    <3>3. route' \in {route, None} /\ \A q \in Requests \ {r} : tracked'[q] = tracked[q]
      BY <2>2 DEF CancelDuringDelivery, ClearRoute
    <3>4. /\ pending' = NoRequest /\ cancelRequested' = cancelRequested \cup {r}
          /\ UNCHANGED <<arrived, answers>>
      BY <2>2 DEF CancelDuringDelivery, RequestCancelDuringDelivery, logVars
    <3> QED
      BY <3>1, <3>2, <3>3, <3>4, <1>none, ConnectAssumption
  <2>3. CASE Arrive(r)
    BY <2>3 DEF Arrive, settlementVars, routeVars, logVars
  <2>4. CASE Approve(r)
    BY <2>4 DEF Approve, BeginApproval, uiVars, routeVars, logVars
  <2>5. CASE Dismiss(r)
    BY <2>5, ConnectAssumption DEF Dismiss, settlementVars, routeVars, logVars
  <2> QED
    BY <1>5, <2>1, <2>2, <2>3, <2>4, <2>5 DEF User
<1>6. CASE RouteExpires
  BY <1>6, <1>none DEF RouteExpires, settlementVars, uiVars, logVars
<1>7. CASE (\E c \in Clients : Revoke(c) \/ TouchRead(c) \/ TouchWrite(c)) \/ UNCHANGED vars
  BY <1>7 DEF Revoke, TouchRead, TouchWrite, vars, settlementVars, uiVars, routeVars, logVars
<1> QED
  BY <1>1, <1>2, <1>3, <1>4, <1>5, <1>6, <1>7, ApprovalSteps DEF Next, Others

-----------------------------------------------------------------------------
(* The theorems.                                                           *)

LEMMA InitIndInv == Init => IndInv
<1> SUFFICES ASSUME Init PROVE IndInv
  OBVIOUS
<1>1. TypeOK
  <2>1. None \in Records /\ Earlier \in Records /\ <<>> \in Seq({"approved", "denied"})
    BY DEF Records
  <2> QED
    BY <2>1, ConnectAssumption
    DEF Init, SettlementInit, TypeOK, SettlementTypeOK, SettlementStates, Steps
<1>2. Counted /\ AnswerInv
  BY DEF Init, SettlementInit, Counted, AnswerInv, At
<1>3. ServeInv
  BY ConnectAssumption DEF Init, SettlementInit, ServeInv, None
<1> QED
  BY <1>1, <1>2, <1>3 DEF IndInv

LEMMA NextIndInv == IndInv /\ [Next]_vars => IndInv'
<1> SUFFICES ASSUME IndInv, [Next]_vars PROVE IndInv'
  OBVIOUS
<1>1. TypeOK'
  BY UserTyped, ApprovalTyped, OthersTyped, Stutter DEF IndInv, Next
<1>2. Counted'
  BY CountedKept DEF IndInv
<1>3. AnswerInv'
  BY AnswerInvKept DEF IndInv
<1>4. ServeInv'
  BY ServeInvKept DEF IndInv
<1> QED
  BY <1>1, <1>2, <1>3, <1>4 DEF IndInv

\* The strengthened invariant holds in every reachable state.
THEOREM Invariance == Spec => []IndInv
<1> QED
  BY InitIndInv, NextIndInv, PTL DEF Spec

\* Every reachable state is well typed.
THEOREM TypeCorrect == Spec => []TypeOK
<1>1. IndInv => TypeOK
  BY DEF IndInv
<1> QED
  BY <1>1, Invariance, PTL

\* One answer per request: approve XOR cancel (AuthRequestSettlement).
THEOREM OneAnswerHolds == Spec => []OneAnswer
<1>1. ASSUME IndInv PROVE OneAnswer
  <2> SUFFICES ASSUME NEW r \in Requests PROVE Len(answers[r]) <= 1
    BY DEF OneAnswer
  <2>1. answers[r] \in {<<>>, <<"approved">>, <<"denied">>}
    BY <1>1 DEF IndInv, AnswerInv
  <2>2. Len(<<>>) <= 1 /\ Len(<<"approved">>) <= 1 /\ Len(<<"denied">>) <= 1
    OBVIOUS
  <2> QED
    BY <2>1, <2>2, Zenon
<1> QED
  BY <1>1, Invariance, PTL

\* A cancelled request is not served (ConnectRouteTracker.takeOnCancel).
THEOREM CancelledNotServedHolds == Spec => []CancelledNotServed
<1>1. IndInv => CancelledNotServed
  BY DEF IndInv, ServeInv, CancelledNotServed
<1> QED
  BY <1>1, Invariance, PTL

\* A step gives at most one answer, to a request that has none.
LEMMA StepGivesOnce == IndInv /\ [Next]_vars => [AnswerSpec!Next]_answers
<1> SUFFICES ASSUME IndInv, [Next]_vars PROVE [AnswerSpec!Next]_answers
  OBVIOUS
<1> USE DEF AnswerSpec!Next, AnswerSpec!Give, AnswerSpec!Answer
<1> DEFINE Gives(r, a) == answers[r] = <<>> /\ answers' = [answers EXCEPT ![r] = <<a>>]
<1>1. ASSUME NEW r \in Requests, Published(r)
      PROVE  Gives(r, "approved")
  <2>1. answers[r] = <<>>
    BY <1>1 DEF Published, IndInv, AnswerInv
  <2>2. Append(<<>>, "approved") = <<"approved">>
    OBVIOUS
  <2> QED
    BY <1>1, <2>1, <2>2 DEF Published
<1>2. ASSUME NEW r \in Requests, CancelOpen(r)
      PROVE  Gives(r, "denied")
  <2>1. answers[r] = <<>>
    BY <1>2 DEF CancelOpen, Deny, IndInv, AnswerInv
  <2>2. Append(<<>>, "denied") = <<"denied">>
    OBVIOUS
  <2> QED
    BY <1>2, <2>1, <2>2 DEF CancelOpen
<1>3. ASSUME NEW r \in Requests,
             Retreat(r) \/ Installs(r) \/ Claim(r) \/ PublishFails(r)
      PROVE  UNCHANGED answers
  BY <1>3 DEF Retreat, Installs, InstallRoute, Claim, PublishFails, logVars
<1>4. ASSUME NEW r \in Requests, User(r), ~CancelOpen(r)
      PROVE  UNCHANGED answers
  BY <1>4 DEF User, Arrive, Approve, CancelDuringDelivery, Dismiss, logVars
<1>5. CASE Others \/ UNCHANGED vars
  BY <1>5 DEF Others, RouteExpires, Revoke, TouchRead, TouchWrite, vars, logVars
<1> QED
  BY <1>1, <1>2, <1>3, <1>4, <1>5, ApprovalSteps DEF Next

\* The delivery of connect answers implements AnswerOnce.
THEOREM Refinement == Spec => ImplementsAnswerOnce
<1>1. Init => AnswerSpec!Init
  BY DEF Init, AnswerSpec!Init
<1> QED
  BY <1>1, StepGivesOnce, Invariance, PTL DEF Spec, ImplementsAnswerOnce, AnswerSpec!Spec

-----------------------------------------------------------------------------
(* PairingSettled, for any number of requests per app: it holds for as     *)
(* long as the approvals of one app follow one another.  Two that overlap  *)
(* may each roll back to what the other had saved.                         *)

\* No two approvals of an undisturbed app run at the same time.
OneAtATime ==
    \A c \in Undisturbed : \A r, q \in Requests :
        ClientOf[r] = c /\ ClientOf[q] = c /\ ~At(r, "idle") /\ ~At(q, "idle") => r = q

\* The steps between the save of a pairing and its confirmation or removal.
Holding == {"saved", "send", "publish", "undo", "rewrite"}

\* The steps at which the approval still needs the earlier record.
Remembering == {"loaded", "arm", "save"}

\* v is what the record of c should be while no approval has its own in it.
Right(c, v) == IF ConnectedOf(c) = {} THEN v = Initially(c) ELSE v \in ConnectedOf(c)

\* What a running approval knows: between save and confirmation the record is
\* its own, outside of that it is right, and so is what a rollback restores.
Knows(r, c) ==
    /\ pc[r] \in Holding => store[c] = Mine(r)
    /\ pc[r] \notin Holding => Right(c, store[c])
    /\ pc[r] \in Holding \cup Remembering => Right(c, previous[r])

PairOf(c) ==
    /\ touched[c] = None
    /\ Quiet(c) => Right(c, store[c])
    /\ \A r \in Requests : ClientOf[r] = c /\ ~At(r, "idle") => Knows(r, c)

PairInv == \A c \in Undisturbed : PairOf(c)

\* A request whose approval runs cannot be approved a second time.
Busy == \A r \in Requests : ~At(r, "idle") => settle[r] # "open"

\* The steps of an approval, seen from the record of its app: they leave it
\* alone (before the save, or after it), save it, connect, restore it, or
\* cannot be taken while the record is the approval's own and nothing fails.
Early(r) ==
    /\ pc[r] \notin Holding
    /\ UNCHANGED <<store, connected>>
    /\ \E s \in Steps \ Holding :
        /\ Goto(r, s)
        /\ \/ /\ UNCHANGED previous
              /\ pc[r] \in Remembering \/ s \notin Remembering
           \/ previous' = [previous EXCEPT ![r] = store[ClientOf[r]]]

Late(r) ==
    /\ pc[r] \in Holding
    /\ UNCHANGED <<store, connected, previous>>
    /\ \E s \in Holding : Goto(r, s)

Connects(r) ==
    /\ At(r, "publish")
    /\ connected' = connected \cup {Mine(r)}
    /\ UNCHANGED <<store, previous>>
    /\ Goto(r, "idle")

Restores(r) ==
    /\ At(r, "rewrite")
    /\ store' = [store EXCEPT ![ClientOf[r]] = previous[r]]
    /\ UNCHANGED <<connected, previous>>
    /\ \E s \in {"idle", "arm"} : Goto(r, s)

Strays(r) ==
    /\ \/ "fault" \in Disturbances[ClientOf[r]]
       \/ At(r, "undo") /\ store[ClientOf[r]] # Mine(r)
    /\ UNCHANGED <<store, connected>>

\* What no step of the approval of r touches.
OthersKept(r) ==
    /\ UNCHANGED <<touched, attempt>>
    /\ \A q \in Requests \ {r} : pc'[q] = pc[q] /\ previous'[q] = previous[q]

LEMMA NextRelayGoes ==
    ASSUME NEW r \in Requests, NextRelay(r) \/ Withdraw(r) \/ AfterUndo(r)
    PROVE  \E s \in {"idle", "arm"} : Goto(r, s)
  BY DEF NextRelay, Withdraw, AfterUndo, End

LEMMA RecordSteps ==
    ASSUME TypeOK, NEW r \in Requests, Approval(r)
    PROVE  /\ OthersKept(r)
           /\ Early(r) \/ SaveClient(r) \/ Late(r) \/ Connects(r) \/ Restores(r) \/ Strays(r)
<1> USE DEF uiVars, recordVars, logVars, approvalVars
<1> USE DEF At, Holding, Remembering
<1>0. \A s : Goto(r, s) => \A q \in Requests \ {r} : pc'[q] = pc[q]
  BY DEF TypeOK, Goto
<1>1. CASE ResolveFails(r)
  <2>1. Early(r)
    BY <1>1 DEF ResolveFails, End, Early, Steps
  <2>2. OthersKept(r)
    BY <1>0, <1>1 DEF ResolveFails, End, OthersKept
  <2> QED
    BY <2>1, <2>2
<1>2. CASE Resolved(r)
  <2>1. Goto(r, "load") \/ Goto(r, "idle")
    BY <1>2 DEF Resolved, End
  <2>2. Early(r)
    BY <1>2, <2>1 DEF Resolved, Early, Steps
  <2>3. OthersKept(r)
    BY <1>0, <1>2, <2>1 DEF Resolved, OthersKept
  <2> QED
    BY <2>2, <2>3
<1>3. CASE LoadExisting(r)
  <2>1. Early(r)
    BY <1>3 DEF LoadExisting, Early, Steps
  <2>2. OthersKept(r)
    BY <1>0, <1>3 DEF LoadExisting, OthersKept, TypeOK
  <2> QED
    BY <2>1, <2>2
<1>4. CASE LoadFails(r)
  <2>1. Strays(r)
    BY <1>4 DEF LoadFails, Strays
  <2>2. OthersKept(r)
    BY <1>0, <1>4 DEF LoadFails, OthersKept, TypeOK
  <2> QED
    BY <2>1, <2>2
<1>5. CASE InstallRoute(r)
  <2>1. Goto(r, "arm") \/ Goto(r, "idle")
    BY <1>5 DEF InstallRoute, End
  <2>2. Early(r)
    BY <1>5, <2>1 DEF InstallRoute, Early, Steps
  <2>3. OthersKept(r)
    BY <1>0, <1>5, <2>1 DEF InstallRoute, OthersKept
  <2> QED
    BY <2>2, <2>3
<1>6. CASE Armed(r)
  <2>1. Goto(r, "save") \/ Goto(r, "idle")
    BY <1>6 DEF Armed, Withdraw, End
  <2>2. Early(r)
    BY <1>6, <2>1 DEF Armed, Early, Steps
  <2>3. OthersKept(r)
    BY <1>0, <1>6, <2>1 DEF Armed, OthersKept
  <2> QED
    BY <2>2, <2>3
<1>7. CASE ArmFails(r) \/ SaveFails(r)
  <2>1. \E s \in {"idle", "arm"} : Goto(r, s)
    BY <1>7, NextRelayGoes DEF ArmFails, SaveFails
  <2>2. Early(r)
    BY <1>7, <2>1 DEF ArmFails, SaveFails, Early, Steps
  <2>3. OthersKept(r)
    BY <1>0, <1>7, <2>1 DEF ArmFails, SaveFails, OthersKept
  <2> QED
    BY <2>2, <2>3
<1>8. CASE SaveClient(r)
  BY <1>0, <1>8 DEF SaveClient, OthersKept
<1>9. CASE Saved(r) \/ SendFails(r) \/ Claim(r) \/ ClaimRefused(r) \/ PublishFails(r)
           \/ StillOurs(r)
  <2>1. \E s \in Holding : Goto(r, s)
    BY <1>9 DEF Saved, SendFails, Claim, ClaimRefused, PublishFails, StillOurs, Undo
  <2>2. Late(r)
    BY <1>9, <2>1 DEF Saved, SendFails, Claim, ClaimRefused, PublishFails, StillOurs, Late
  <2>3. OthersKept(r)
    BY <1>0, <1>9, <2>1
    DEF Saved, SendFails, Claim, ClaimRefused, PublishFails, StillOurs, OthersKept
  <2> QED
    BY <2>2, <2>3
<1>10. CASE Published(r)
  <2>1. Late(r) \/ Connects(r)
    BY <1>10 DEF Published, Undo, End, Late, Connects
  <2>2. OthersKept(r)
    BY <1>0, <1>10, <2>1 DEF Published, OthersKept, Late, Connects
  <2> QED
    BY <2>1, <2>2
<1>11. CASE NotOurs(r) \/ RewriteFails(r)
  <2>1. Strays(r)
    BY <1>11 DEF NotOurs, RewriteFails, Strays
  <2>2. OthersKept(r)
    BY <1>0, <1>11, NextRelayGoes DEF NotOurs, RewriteFails, OthersKept
  <2> QED
    BY <2>1, <2>2
<1>12. CASE Rewrite(r)
  <2>1. Restores(r)
    BY <1>12, NextRelayGoes DEF Rewrite, Restores
  <2>2. OthersKept(r)
    BY <1>0, <1>12, <2>1 DEF Rewrite, OthersKept, Restores
  <2> QED
    BY <2>1, <2>2
<1> QED
  BY <1>1, <1>2, <1>3, <1>4, <1>5, <1>6, <1>7, <1>8, <1>9, <1>10, <1>11, <1>12
  DEF Approval, Signer, Delivery

\* An approval of another app leaves the record of c and who connected alone.
LEMMA OtherAppKept ==
    ASSUME TypeOK, NEW r \in Requests, Approval(r), NEW c \in Clients, ClientOf[r] # c, PairOf(c)
    PROVE  PairOf(c)'
<1>1. OthersKept(r)
  BY RecordSteps
<1>2. store'[c] = store[c]
  BY RecordSteps DEF Early, SaveClient, Late, Connects, Restores, Strays, TypeOK
<1>3. connected' \subseteq connected \cup {Mine(r)} /\ connected \subseteq connected'
  BY RecordSteps DEF Early, SaveClient, Late, Connects, Restores, Strays, logVars
<1>4. Mine(r)[1] = r
  BY DEF Mine
<1>5. ConnectedOf(c)' = ConnectedOf(c)
  BY <1>3, <1>4 DEF ConnectedOf
<1>6. ASSUME NEW q \in Requests, ClientOf[q] = c
      PROVE  q # r /\ pc'[q] = pc[q] /\ previous'[q] = previous[q] /\ Mine(q)' = Mine(q)
  BY <1>1, <1>6 DEF OthersKept, Mine
<1> QED
  BY <1>1, <1>2, <1>5, <1>6 DEF PairOf, Quiet, Knows, Right, Initially, At, OthersKept

\* The approval of r takes the pairing of its app through its steps.
LEMMA OwnAppKept ==
    ASSUME TypeOK, NEW r \in Requests, Approval(r), NEW c \in Undisturbed, ClientOf[r] = c,
           PairOf(c), \A q \in Requests \ {r} : ClientOf[q] = c => At(q, "idle")
    PROVE  PairOf(c)'
<1> USE DEF Holding, Remembering
<1>1. OthersKept(r)
  BY RecordSteps
<1>2. pc[r] # "idle" /\ Knows(r, c) /\ touched'[c] = None
  BY <1>1, ApprovalSteps DEF PairOf, OthersKept, At
<1>3. Mine(r)' = Mine(r) /\ Mine(r)[1] = r
  BY <1>1 DEF Mine, OthersKept
<1>4. c \in Clients /\ "fault" \notin Disturbances[c]
  BY DEF Undisturbed
<1>5. \A q \in Requests : ClientOf[q] = c /\ pc'[q] # "idle" => q = r
  BY <1>1 DEF OthersKept, At
<1>6. SUFFICES /\ pc'[r] = "idle" => Right(c, store[c])'
               /\ pc'[r] # "idle" => Knows(r, c)'
  BY <1>2, <1>5 DEF PairOf, Quiet, At
<1>7. CASE Early(r)
  <2>1. store' = store /\ Right(c, store[c]) /\ pc'[r] \notin Holding
    BY <1>2, <1>7 DEF Early, Knows, Goto, TypeOK
  <2>2. Right(c, store[c])'
    BY <1>7, <2>1 DEF Early, Right, ConnectedOf, Initially
  <2>3. pc'[r] \in Remembering => Right(c, previous'[r])
    BY <1>2, <1>7, <2>1 DEF Early, Knows, Goto, TypeOK
  <2>4. pc'[r] \in Remembering => Right(c, previous[r])'
    BY <1>7, <2>3 DEF Early, Right, ConnectedOf, Initially
  <2> QED
    BY <2>1, <2>2, <2>4 DEF Knows
<1>8. CASE SaveClient(r)
  <2>1. pc[r] = "save" /\ pc'[r] = "saved" /\ UNCHANGED <<previous, connected>>
    BY <1>8 DEF SaveClient, At, Goto, TypeOK, logVars
  <2>2. store'[c] = Mine(r)
    BY <1>4, <1>8 DEF SaveClient, TypeOK
  <2>3. Right(c, previous[r])
    BY <1>2, <2>1 DEF Knows
  <2>4. Right(c, previous[r])'
    BY <2>1, <2>3 DEF Right, ConnectedOf, Initially
  <2> QED
    BY <1>3, <2>1, <2>2, <2>4 DEF Knows
<1>9. CASE Late(r)
  <2>1. store[c] = Mine(r) /\ pc'[r] \in Holding /\ UNCHANGED <<store, previous, connected>>
    BY <1>2, <1>9 DEF Late, Knows, Goto, TypeOK
  <2>2. Right(c, previous[r])
    BY <1>2, <1>9 DEF Late, Knows
  <2>3. Right(c, previous[r])'
    BY <2>1, <2>2 DEF Right, ConnectedOf, Initially
  <2> QED
    BY <1>3, <2>1, <2>3 DEF Knows
<1>10. CASE Connects(r)
  <2>1. pc'[r] = "idle" /\ store'[c] = Mine(r) /\ Mine(r) \in connected'
    BY <1>2, <1>10 DEF Connects, Knows, At, Goto, TypeOK
  <2>2. Mine(r) \in ConnectedOf(c)'
    BY <1>3, <2>1 DEF ConnectedOf
  <2>3. Right(c, store[c])'
    BY <2>1, <2>2 DEF Right
  <2> QED
    BY <2>1, <2>3
<1>11. CASE Restores(r)
  <2>1. /\ pc'[r] \in {"idle", "arm"} /\ store'[c] = previous[r]
        /\ UNCHANGED <<previous, connected>> /\ Right(c, previous[r])
    BY <1>2, <1>4, <1>11 DEF Restores, Knows, At, Goto, TypeOK
  <2>2. Right(c, store[c])' /\ Right(c, previous[r])'
    BY <2>1 DEF Right, ConnectedOf, Initially
  <2> QED
    BY <2>1, <2>2 DEF Knows
<1>12. CASE Strays(r)
  BY <1>2, <1>4, <1>12 DEF Strays, Knows, At
<1> QED
  BY <1>7, <1>8, <1>9, <1>10, <1>11, <1>12, RecordSteps

\* A running approval keeps its request from being approved again until it ends.
LEMMA BusyKept ==
    ASSUME TypeOK, AnswerInv, Busy, [Next]_vars
    PROVE  Busy'
<1> USE DEF TypeOK, SettlementTypeOK, SettlementStates, Busy, At
<1>1. ASSUME NEW r \in Requests, Approval(r)
      PROVE  Busy'
  <2>1. settle[r] # "open" /\ \A q \in Requests \ {r} : settle'[q] = settle[q] /\ pc'[q] = pc[q]
    BY <1>1, ApprovalSteps
    DEF Retreat, Installs, InstallRoute, Claim, ClaimDelivery, Published, FinishDelivery,
        PublishFails, UnclaimDelivery, Undo, End, EndApproval, Goto, settlementVars
  <2>2. pc'[r] = "idle" \/ settle'[r] # "open"
    <3>1. CASE UNCHANGED settle
      BY <2>1, <3>1
    <3>2. CASE NextRelay(r) \/ Withdraw(r) \/ AfterUndo(r)
      BY <2>1, <3>2 DEF NextRelay, Withdraw, AfterUndo, End, Goto, settlementVars
    <3>3. CASE Claim(r) \/ PublishFails(r)
      BY <2>1, <3>3 DEF Claim, ClaimDelivery, PublishFails, UnclaimDelivery
    <3> QED
      BY <1>1, <3>1, <3>2, <3>3
      DEF Approval, Signer, Delivery, ResolveFails, Resolved, LoadExisting, LoadFails, InstallRoute,
          Armed, ArmFails, SaveClient, SaveFails, Saved, SendFails, ClaimRefused, Published, FinishDelivery,
          StillOurs, NotOurs, Rewrite, RewriteFails, End, Goto, settlementVars
  <2> QED
    BY <2>1, <2>2
<1>2. ASSUME NEW r \in Requests, User(r)
      PROVE  Busy'
  BY <1>2 DEF User, Arrive, Approve, BeginApproval, CancelOpen, Deny, CancelDuringDelivery,
              RequestCancelDuringDelivery, Dismiss, Goto, settlementVars, approvalVars
<1>3. CASE Others \/ UNCHANGED vars
  BY <1>3 DEF Others, RouteExpires, Revoke, TouchRead, TouchWrite, vars, settlementVars,
              approvalVars
<1> QED
  BY <1>1, <1>2, <1>3 DEF Next

\* Nothing that leaves the approvals, the records and who connected alone
\* changes what the record of c is.
LEMMA PairOfSame ==
    ASSUME NEW c, PairOf(c), UNCHANGED <<pc, attempt, previous, connected>>,
           store'[c] = store[c], touched'[c] = touched[c]
    PROVE  PairOf(c)'
  BY DEF PairOf, Quiet, Knows, Right, ConnectedOf, Initially, At, Mine

LEMMA PairInvKept ==
    ASSUME TypeOK, Busy, PairInv, OneAtATime, OneAtATime', [Next]_vars
    PROVE  PairInv'
<1> SUFFICES ASSUME NEW c \in Undisturbed PROVE PairOf(c)'
  BY DEF PairInv, Undisturbed
<1>0. c \in Clients /\ PairOf(c) /\ Disturbances[c] = {}
  BY DEF PairInv, Undisturbed
<1>1. ASSUME NEW r \in Requests, Approval(r)
      PROVE  PairOf(c)'
  <2>1. CASE ClientOf[r] # c
    BY <1>0, <1>1, <2>1, OtherAppKept
  <2>2. CASE ClientOf[r] = c
    <3>1. \A q \in Requests \ {r} : ClientOf[q] = c => At(q, "idle")
      BY <1>1, <2>2, ApprovalSteps DEF OneAtATime
    <3> QED
      BY <1>0, <1>1, <2>2, <3>1, OwnAppKept
  <2> QED
    BY <2>1, <2>2
<1>2. ASSUME NEW r \in Requests, Approve(r)
      PROVE  PairOf(c)'
  <2>1. /\ UNCHANGED <<store, touched, previous, connected>>
        /\ pc'[r] = "resolve"
        /\ \A q \in Requests \ {r} : pc'[q] = pc[q] /\ Mine(q)' = Mine(q)
    BY <1>2 DEF Approve, Goto, TypeOK, Mine, recordVars, logVars
  <2>2. CASE ClientOf[r] # c
    BY <1>0, <2>1, <2>2 DEF PairOf, Quiet, Knows, Right, ConnectedOf, Initially, At
  <2>3. CASE ClientOf[r] = c
    <3>1. pc[r] = "idle"
      BY <1>2 DEF Approve, BeginApproval, Busy, At
    <3>2. \A q \in Requests \ {r} : ClientOf[q] = c => pc'[q] = "idle"
      BY <2>1, <2>3 DEF OneAtATime, Undisturbed, At
    <3>3. Right(c, store[c])
      BY <1>0, <2>1, <3>1, <3>2 DEF PairOf, Quiet, At
    <3>4. Right(c, store[c])'
      BY <2>1, <3>3 DEF Right, ConnectedOf, Initially
    <3> QED
      BY <1>0, <2>1, <2>3, <3>2, <3>4
      DEF PairOf, Quiet, Knows, At, Holding, Remembering
  <2> QED
    BY <2>2, <2>3
<1>3. ASSUME NEW r \in Requests, User(r), ~Approve(r)
      PROVE  PairOf(c)'
  <2>1. UNCHANGED <<pc, attempt, previous, connected, store, touched>>
    BY <1>3 DEF User, Arrive, CancelOpen, CancelDuringDelivery, Dismiss, approvalVars, recordVars,
                logVars
  <2> QED
    BY <1>0, <2>1, PairOfSame
<1>4. CASE Others \/ UNCHANGED vars
  <2>1. UNCHANGED <<pc, attempt, previous, connected>>
    BY <1>4 DEF Others, RouteExpires, Revoke, TouchRead, TouchWrite, vars, approvalVars, logVars
  <2>2. store'[c] = store[c] /\ touched'[c] = touched[c]
    BY <1>0, <1>4 DEF Others, RouteExpires, Revoke, TouchRead, TouchWrite, vars, recordVars,
                      PairOf, TypeOK
  <2> QED
    BY <1>0, <2>1, <2>2, PairOfSame
<1> QED
  BY <1>1, <1>2, <1>3, <1>4 DEF Next

\* As long as the approvals of one app follow one another, an app whose
\* approvals have ended has the record of one that connected or, if none did,
\* the one it had before: undoSave neither leaves a pairing nor loses one.
THEOREM PairingSettledHolds == Spec /\ []OneAtATime => []PairingSettled
<1>1. Init => PairInv /\ Busy
  BY DEF Init, PairInv, PairOf, Busy, Quiet, Knows, Right, ConnectedOf, Initially, At, Undisturbed
<1>2. IndInv /\ Busy /\ [Next]_vars => Busy'
  BY BusyKept DEF IndInv
<1>3. IndInv /\ Busy /\ PairInv /\ OneAtATime /\ OneAtATime' /\ [Next]_vars => PairInv'
  BY PairInvKept DEF IndInv
<1>4. PairInv => PairingSettled
  BY DEF PairInv, PairOf, PairingSettled, Right
<1> QED
  BY <1>1, <1>2, <1>3, <1>4, Invariance, PTL DEF Spec

\* In particular when every request comes from an app of its own.
THEOREM PairingSettledOwnApps ==
    ASSUME \A r, q \in Requests : ClientOf[r] = ClientOf[q] => r = q
    PROVE  Spec => []PairingSettled
<1>1. OneAtATime
  BY DEF OneAtATime
<1> QED
  BY <1>1, PairingSettledHolds, PTL

=============================================================================
