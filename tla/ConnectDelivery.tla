--------------------------- MODULE ConnectDelivery --------------------------
(***************************************************************************)
(* Approving a nostrconnect:// request: lib/connect-delivery.ts, the       *)
(* handlers of App.tsx that call it, and lib/connect-route-cancel.ts.      *)
(*                                                                         *)
(* An approval resolves a signer, installs a temporary serving route, and  *)
(* walks the request's relays: arm a listener, save the pairing, encrypt   *)
(* and sign the answer, claim the request, publish.  Everything between    *)
(* two awaits is one step here; Cancel, a new request, the expiry of the   *)
(* route and the writes of other code fall between them.                   *)
(*                                                                         *)
(* Left out: the approval of a direct-paired child (childDirect,           *)
(* lib/child-nostrconnect.ts), the same walk over the relays with no route *)
(* to install and no pairing record to save.                               *)
(*                                                                         *)
(* <<r, n>> names the n-th approval of request r.  It stands for both the  *)
(* pairing nonce and the route token the approval draws.                   *)
(***************************************************************************)
EXTENDS AuthSettlement, FiniteSets

CONSTANTS
    Clients,           \* the apps that ask, by client pubkey
    ClientOf,          \* the app each request comes from
    Paired,            \* the apps already paired when the model starts
    NumRelays,         \* how many relay candidates a request has
    MaxAttempts,       \* bound: approvals started on one request
    Disturbances,      \* what else happens to an app: "revoke", "touch", "fault"
    NoRequest

ASSUME ConnectAssumption ==
    /\ ClientOf \in [Requests -> Clients]
    /\ Paired \subseteq Clients
    /\ NumRelays \in [Requests -> Nat \ {0}]
    /\ MaxAttempts \in Nat
    /\ Disturbances \in [Clients -> SUBSET {"revoke", "touch", "fault"}]
    /\ NoRequest \notin Requests

VARIABLES
    pending,           \* pendingConnectRequestRef: the request on screen
    arrived,           \* requests that have been opened; each object opens once
    pc,                \* where the running approval of a request stands
    attempt,           \* approvals started on the request so far
    relay,             \* the candidate the approval is trying
    undoFor,           \* after the rollback: "stop" or go to the "next" relay
    previous,          \* the record the approval read before it began
    store,             \* the connectedClients table: who saved the record
    route,             \* the temporary serving route: who installed it
    tracked,           \* ConnectRouteTracker.tokens
    touched,           \* a record the bunker server read and will write back
    answers,           \* answers sent to the app, oldest first
    connected,         \* approvals that ended in 'connected'
    revoked            \* apps whose pairing was revoked meanwhile

uiVars       == <<pending, arrived>>
approvalVars == <<pc, attempt, relay, undoFor, previous>>
routeVars    == <<route, tracked>>
recordVars   == <<store, touched>>
logVars      == <<answers, connected, revoked>>
vars == <<settlementVars, uiVars, approvalVars, routeVars, recordVars, logVars>>

-----------------------------------------------------------------------------
None    == <<NoRequest, 0>>
Earlier == <<NoRequest, 1>>
Approvals == Requests \X (1..MaxAttempts)
Records   == Approvals \cup {None, Earlier}

Steps == {"idle", "resolve", "load", "loaded", "arm", "save", "saved", "send",
          "publish", "undo", "rewrite"}

TypeOK ==
    /\ SettlementTypeOK
    /\ pending \in Requests \cup {NoRequest}
    /\ arrived \subseteq Requests
    /\ pc \in [Requests -> Steps]
    /\ attempt \in [Requests -> 0..MaxAttempts]
    /\ relay \in [Requests -> Nat]
    /\ \A r \in Requests : relay[r] \in 1..NumRelays[r]
    /\ undoFor \in [Requests -> {"stop", "next"}]
    /\ previous \in [Requests -> Records]
    /\ store \in [Clients -> Records]
    /\ route \in Approvals \cup {None}
    /\ tracked \in [Requests -> Approvals \cup {None}]
    /\ touched \in [Clients -> Records]
    /\ answers \in [Requests -> Seq({"approved", "denied"})]
    /\ connected \subseteq Approvals
    /\ revoked \subseteq Clients

Init ==
    /\ SettlementInit
    /\ pending = NoRequest
    /\ arrived = {}
    /\ pc = [r \in Requests |-> "idle"]
    /\ attempt = [r \in Requests |-> 0]
    /\ relay = [r \in Requests |-> 1]
    /\ undoFor = [r \in Requests |-> "stop"]
    /\ previous = [r \in Requests |-> None]
    /\ store = [c \in Clients |-> IF c \in Paired THEN Earlier ELSE None]
    /\ route = None
    /\ tracked = [r \in Requests |-> None]
    /\ touched = [c \in Clients |-> None]
    /\ answers = [r \in Requests |-> <<>>]
    /\ connected = {}
    /\ revoked = {}

\* The running approval of r: its pairing nonce and its route token.
Mine(r) == <<r, attempt[r]>>

\* connectStillPending and connectStillOpen of approveConnectUnguarded.
StillPending(r) == pending = r
StillOpen(r) == StillPending(r) /\ settle[r] = "in-flight"

At(r, step) == pc[r] = step
Goto(r, step) == pc' = [pc EXCEPT ![r] = step]

\* clearNostrConnectTransientRouteByToken: never another approval's route.
ClearRoute(a) == route' = IF route = a THEN None ELSE route

\* The approval returns or throws; handleApproveConnect ends it either way.
End(r) == Goto(r, "idle") /\ EndApproval(r)

\* withdraw(false): nothing persisted, take the route down and stop.
Withdraw(r) ==
    /\ ClearRoute(Mine(r))
    /\ End(r)
    /\ UNCHANGED <<relay, undoFor, tracked>>

\* undoSave is about to run, after which the approval stops or moves on.
Undo(r, for) ==
    /\ Goto(r, "undo")
    /\ undoFor' = [undoFor EXCEPT ![r] = for]
    /\ UNCHANGED <<relay, routeVars>>

\* Mutants of NextRelay: one candidate too many; the same candidate for ever.
NextRelayTooFar(r) ==
    /\ StillOpen(r)
    /\ relay' = [relay EXCEPT ![r] = @ + 1]
    /\ Goto(r, "arm")
    /\ UNCHANGED <<undoFor, routeVars, settlementVars>>

NextRelayStuck(r) ==
    /\ Goto(r, "arm")
    /\ UNCHANGED <<relay, undoFor, routeVars, settlementVars>>

\* The catch clause: the next candidate, if the request is still open, or
\* 'failed', which leaves the route installed and tracked.
NextRelay(r) ==
    \/ /\ relay[r] = NumRelays[r]
       /\ End(r)
       /\ UNCHANGED <<relay, undoFor, routeVars>>
    \/ /\ relay[r] < NumRelays[r]
       /\ ~StillOpen(r)
       /\ Withdraw(r)
    \/ /\ relay[r] < NumRelays[r]
       /\ StillOpen(r)
       /\ relay' = [relay EXCEPT ![r] = @ + 1]
       /\ Goto(r, "arm")
       /\ UNCHANGED <<undoFor, routeVars, settlementVars>>

-----------------------------------------------------------------------------
(* The user and the requests that reach the app.                           *)

\* handleNostrConnect, consumeNostrConnectUrl: a new request takes the screen.
Arrive(r) ==
    /\ r \notin arrived
    /\ arrived' = arrived \cup {r}
    /\ pending' = r
    /\ UNCHANGED <<settlementVars, approvalVars, routeVars, recordVars, logVars>>

\* handleApproveConnect up to the first await of approveConnectUnguarded.
Approve(r) ==
    /\ StillPending(r)
    /\ attempt[r] < MaxAttempts
    /\ BeginApproval(r)
    /\ attempt' = [attempt EXCEPT ![r] = @ + 1]
    /\ Goto(r, "resolve")
    /\ UNCHANGED <<uiVars, relay, undoFor, previous, routeVars, recordVars, logVars>>

\* handleConnectDone on a request without an answer: the denial goes out and
\* the route of the abandoned or failed approval comes down at once.
CancelOpen(r) ==
    /\ StillPending(r)
    /\ Deny(r)
    /\ ClearRoute(tracked[r])
    /\ tracked' = [tracked EXCEPT ![r] = None]
    /\ answers' = [answers EXCEPT ![r] = Append(@, "denied")]
    /\ pending' = NoRequest
    /\ UNCHANGED <<arrived, approvalVars, recordVars, connected, revoked>>

\* handleConnectDone while the claimed answer is on its way: remembered.
CancelDuringDelivery(r) ==
    /\ StillPending(r)
    /\ settle[r] = "settled"
    /\ RequestCancelDuringDelivery(r)
    /\ ClearRoute(tracked[r])
    /\ tracked' = [tracked EXCEPT ![r] = None]
    /\ pending' = NoRequest
    /\ UNCHANGED <<arrived, approvalVars, recordVars, logVars>>

\* The request has its answer: Cancel after the delivery, Approve again, or
\* the 1.5 s timer of a connected request only take it off the screen.
Dismiss(r) ==
    /\ StillPending(r)
    /\ settle[r] = "settled"
    /\ pending' = NoRequest
    /\ UNCHANGED <<arrived, settlementVars, approvalVars, routeVars, recordVars, logVars>>

-----------------------------------------------------------------------------
(* One approval, from await to await.                                      *)

\* No signer: the wait for a route ended, the unlock was refused, ...
ResolveFails(r) ==
    /\ At(r, "resolve")
    /\ End(r)
    /\ UNCHANGED <<uiVars, attempt, relay, undoFor, previous, routeVars, recordVars, logVars>>

\* A signer is there; deliverConnectApproval begins and reads the old record.
Resolved(r) ==
    /\ At(r, "resolve")
    /\ IF StillOpen(r) THEN Goto(r, "load") /\ UNCHANGED settlementVars ELSE End(r)
    /\ relay' = [relay EXCEPT ![r] = 1]
    /\ UNCHANGED <<uiVars, attempt, undoFor, previous, routeVars, recordVars, logVars>>

\* loadExisting; a read that fails counts as no earlier record.
LoadExisting(r) ==
    /\ At(r, "load")
    /\ previous' = [previous EXCEPT ![r] = store[ClientOf[r]]]
    /\ Goto(r, "loaded")
    /\ UNCHANGED <<settlementVars, uiVars, attempt, relay, undoFor, routeVars, recordVars, logVars>>

LoadFails(r) ==
    /\ At(r, "load")
    /\ "fault" \in Disturbances[ClientOf[r]]
    /\ previous' = [previous EXCEPT ![r] = None]
    /\ Goto(r, "loaded")
    /\ UNCHANGED <<settlementVars, uiVars, attempt, relay, undoFor, routeVars, recordVars, logVars>>

\* Mutant of InstallRoute: no second stillOpen check after the read.
InstallRouteUnchecked(r) ==
    /\ At(r, "loaded")
    /\ route' = Mine(r)
    /\ tracked' = [tracked EXCEPT ![r] = Mine(r)]
    /\ Goto(r, "arm")
    /\ UNCHANGED <<settlementVars, uiVars, attempt, relay, undoFor, previous, recordVars, logVars>>

\* Install the route, note it for a Cancel, and arm the first relay.
InstallRoute(r) ==
    /\ At(r, "loaded")
    /\ IF StillOpen(r)
       THEN /\ route' = Mine(r)
            /\ tracked' = [tracked EXCEPT ![r] = Mine(r)]
            /\ Goto(r, "arm")
            /\ UNCHANGED settlementVars
       ELSE End(r) /\ UNCHANGED routeVars
    /\ UNCHANGED <<uiVars, attempt, relay, undoFor, previous, recordVars, logVars>>

\* The listener is up on this relay.
Armed(r) ==
    /\ At(r, "arm")
    /\ \/ StillOpen(r) /\ Goto(r, "save")
                       /\ UNCHANGED <<relay, undoFor, routeVars, settlementVars>>
       \/ ~StillOpen(r) /\ Withdraw(r)
    /\ UNCHANGED <<uiVars, attempt, previous, recordVars, logVars>>

\* The listener does not open in time.
ArmFails(r) ==
    /\ At(r, "arm")
    /\ NextRelay(r)
    /\ UNCHANGED <<uiVars, attempt, previous, recordVars, logVars>>

\* saveClient lands in the table.
SaveClient(r) ==
    /\ At(r, "save")
    /\ store' = [store EXCEPT ![ClientOf[r]] = Mine(r)]
    /\ Goto(r, "saved")
    /\ UNCHANGED <<settlementVars, uiVars, attempt, relay, undoFor, previous, routeVars,
                   touched, logVars>>

SaveFails(r) ==
    /\ At(r, "save")
    /\ "fault" \in Disturbances[ClientOf[r]]
    /\ NextRelay(r)
    /\ UNCHANGED <<uiVars, attempt, previous, recordVars, logVars>>

\* Mutant of Saved: a withdrawn approval stops without its rollback.
SavedNoRollback(r) ==
    /\ At(r, "saved")
    /\ \/ StillOpen(r) /\ Goto(r, "send")
                       /\ UNCHANGED <<relay, undoFor, routeVars, settlementVars>>
       \/ ~StillOpen(r) /\ Withdraw(r)
    /\ UNCHANGED <<uiVars, attempt, previous, recordVars, logVars>>

\* The save is back: encrypt, sign and connect to the relay, if still open.
Saved(r) ==
    /\ At(r, "saved")
    /\ \/ StillOpen(r) /\ Goto(r, "send") /\ UNCHANGED <<relay, undoFor, routeVars>>
       \/ ~StillOpen(r) /\ Undo(r, "stop")
    /\ UNCHANGED <<settlementVars, uiVars, attempt, previous, recordVars, logVars>>

\* The signer or the relay connection fails before anything is published.
SendFails(r) ==
    /\ At(r, "send")
    /\ Undo(r, "next")
    /\ UNCHANGED <<settlementVars, uiVars, attempt, previous, recordVars, logVars>>

\* beforePublish: the claim, taken when only the publish is left.
Claim(r) ==
    /\ At(r, "send")
    /\ StillPending(r)
    /\ ClaimDelivery(r)
    /\ Goto(r, "publish")
    /\ UNCHANGED <<uiVars, attempt, relay, undoFor, previous, routeVars, recordVars, logVars>>

ClaimRefused(r) ==
    /\ At(r, "send")
    /\ ~StillOpen(r)
    /\ Undo(r, "stop")
    /\ UNCHANGED <<settlementVars, uiVars, attempt, previous, recordVars, logVars>>

\* Mutant of Published: the recorded cancel is not looked at.
PublishedIgnoresCancel(r) ==
    /\ At(r, "publish")
    /\ answers' = [answers EXCEPT ![r] = Append(@, "approved")]
    /\ End(r)
    /\ tracked' = [tracked EXCEPT ![r] = None]
    /\ connected' = connected \cup {Mine(r)}
    /\ UNCHANGED <<uiVars, attempt, previous, recordVars, revoked, relay, undoFor, route>>

\* The relay accepted the answer.  finishDelivery says whether the user
\* cancelled meanwhile: then the pairing is undone.
Published(r) ==
    /\ At(r, "publish")
    /\ answers' = [answers EXCEPT ![r] = Append(@, "approved")]
    /\ IF r \in cancelRequested
       THEN /\ FinishDelivery(r)
            /\ Undo(r, "stop")
            /\ UNCHANGED connected
       ELSE /\ End(r)                     \* finishDelivery, then endApproval
            /\ tracked' = [tracked EXCEPT ![r] = None]
            /\ connected' = connected \cup {Mine(r)}
            /\ UNCHANGED <<relay, undoFor, route>>
    /\ UNCHANGED <<uiVars, attempt, previous, recordVars, revoked>>

\* The relay refused or did not answer: the claim is handed back.
PublishFails(r) ==
    /\ At(r, "publish")
    /\ UnclaimDelivery(r)
    /\ Undo(r, "next")
    /\ UNCHANGED <<uiVars, attempt, previous, recordVars, logVars>>

\* What follows undoSave: stop with the route cleared, or the next relay.
AfterUndo(r) ==
    \/ undoFor[r] = "stop" /\ Withdraw(r)
    \/ undoFor[r] = "next" /\ NextRelay(r)

\* stillOurs: the stored record carries this approval's nonce.
StillOurs(r) ==
    /\ At(r, "undo")
    /\ store[ClientOf[r]] = Mine(r)
    /\ Goto(r, "rewrite")
    /\ UNCHANGED <<settlementVars, uiVars, attempt, relay, undoFor, previous, routeVars,
                   recordVars, logVars>>

NotOurs(r) ==
    /\ At(r, "undo")
    /\ store[ClientOf[r]] # Mine(r) \/ "fault" \in Disturbances[ClientOf[r]]
    /\ AfterUndo(r)
    /\ UNCHANGED <<uiVars, attempt, previous, recordVars, logVars>>

\* restoreClient(previous), or deleteClient if there was none.
Rewrite(r) ==
    /\ At(r, "rewrite")
    /\ store' = [store EXCEPT ![ClientOf[r]] = previous[r]]
    /\ AfterUndo(r)
    /\ UNCHANGED <<uiVars, attempt, previous, touched, logVars>>

RewriteFails(r) ==
    /\ At(r, "rewrite")
    /\ "fault" \in Disturbances[ClientOf[r]]
    /\ AfterUndo(r)
    /\ UNCHANGED <<uiVars, attempt, previous, recordVars, logVars>>

-----------------------------------------------------------------------------
(* Other code at work on the same route and records.                       *)

\* The serving window of armNostrConnectServe closes.
RouteExpires ==
    /\ route # None
    /\ route' = None
    /\ UNCHANGED <<settlementVars, uiVars, approvalVars, tracked, recordVars, logVars>>

\* Connections settings: the user revokes the app.
Revoke(c) ==
    /\ "revoke" \in Disturbances[c]
    /\ store[c] # None
    /\ store' = [store EXCEPT ![c] = None]
    /\ revoked' = revoked \cup {c}
    /\ UNCHANGED <<settlementVars, uiVars, approvalVars, routeVars, touched, answers, connected>>

\* useBunkerServer answers a request of the app: it reads the record and
\* writes it back with a new lastSeenAt.
TouchRead(c) ==
    /\ "touch" \in Disturbances[c]
    /\ store[c] # None
    /\ touched[c] = None
    /\ touched' = [touched EXCEPT ![c] = store[c]]
    /\ UNCHANGED <<settlementVars, uiVars, approvalVars, routeVars, store, logVars>>

TouchWrite(c) ==
    /\ touched[c] # None
    /\ store' = [store EXCEPT ![c] = touched[c]]
    /\ touched' = [touched EXCEPT ![c] = None]
    /\ UNCHANGED <<settlementVars, uiVars, approvalVars, routeVars, logVars>>

-----------------------------------------------------------------------------
User(r) ==
    \/ Arrive(r) \/ Approve(r) \/ CancelOpen(r) \/ CancelDuringDelivery(r) \/ Dismiss(r)

\* The steps that end a wait for the signer, and those that end any other wait.
Signer(r) ==
    \/ ResolveFails(r) \/ Resolved(r) \/ SendFails(r) \/ Claim(r) \/ ClaimRefused(r)

Delivery(r) ==
    \/ LoadExisting(r) \/ LoadFails(r) \/ InstallRoute(r)
    \/ Armed(r) \/ ArmFails(r) \/ SaveClient(r) \/ SaveFails(r) \/ Saved(r)
    \/ Published(r) \/ PublishFails(r)
    \/ StillOurs(r) \/ NotOurs(r) \/ Rewrite(r) \/ RewriteFails(r)

Approval(r) == Signer(r) \/ Delivery(r)

Others ==
    \/ RouteExpires
    \/ \E c \in Clients : Revoke(c) \/ TouchRead(c) \/ TouchWrite(c)

Next == (\E r \in Requests : User(r) \/ Approval(r)) \/ Others

Spec == Init /\ [][Next]_vars

(* Opening a relay and publishing have timeouts, IndexedDB calls settle.    *)
(* The signer may wait for the user, who owes nothing: for the unlock       *)
(* (requestAuth, requestFreshAuth), or for the prompt of a browser          *)
(* extension that encrypts and signs.                                       *)
FairSpec == Spec /\ \A r \in Requests : WF_vars(Delivery(r))

-----------------------------------------------------------------------------
(* Properties.                                                             *)

\* The app gets one answer: never a denial and an approval, nor either twice,
\* whatever Cancel, a retry or a second tap does around the awaits.
OneAnswer == \A r \in Requests : Len(answers[r]) <= 1

\* The same as a refinement: answers are given once and never replaced.
AnswerSpec == INSTANCE AnswerOnce
ImplementsAnswerOnce == AnswerSpec!Spec

Cancelled(r) == answers[r] = <<"denied">> \/ r \in cancelRequested

\* A cancelled request is not served: no route one of its approvals installed
\* is up, although the approval may still be between two awaits
\* (connect-route-cancel.ts, and the stillOpen checks of connect-delivery.ts).
CancelledNotServed ==
    \A r \in Requests : Cancelled(r) => route \notin {r} \X (1..MaxAttempts)

\* The inductive strengthening of the two: a running approval was counted, only
\* a request without an answer is unsettled or being published, and the tracker
\* knows every route that a request still waiting for its answer has up.
Counted == \A r \in Requests : ~At(r, "idle") => attempt[r] >= 1

AnswerInv == \A r \in Requests :
    /\ At(r, "publish") => settle[r] = "settled" /\ answers[r] = <<>>
    /\ r \in delivering => At(r, "publish")
    /\ settle[r] # "settled" => answers[r] = <<>>
    /\ answers[r] \in {<<>>, <<"approved">>, <<"denied">>}

ServeInv == \A r \in Requests :
    /\ pending = r => r \in arrived
    /\ r \in cancelRequested => r \in arrived /\ pending # r
    /\ route[1] = r /\ answers[r] = <<>> /\ r \notin cancelRequested => tracked[r] = route
    /\ route[1] = r => ~Cancelled(r)

IndInv == TypeOK /\ Counted /\ AnswerInv /\ ServeInv

ConnectedOf(c) == {a \in connected : ClientOf[a[1]] = c}
Quiet(c) == \A r \in Requests : ClientOf[r] = c => At(r, "idle")
Undisturbed == {c \in Clients : Disturbances[c] = {}}
Initially(c) == IF c \in Paired THEN Earlier ELSE None

\* Once an app's approvals have ended, its record is the one an approval that
\* connected saved, or, if none did, exactly what was there before: a failed
\* or cancelled approval neither leaves a pairing behind nor loses one
\* (undoSave of connect-delivery.ts), as far as nothing else writes the record.
PairingSettled ==
    \A c \in Undisturbed : Quiet(c) =>
        IF ConnectedOf(c) = {} THEN store[c] = Initially(c) ELSE store[c] \in ConnectedOf(c)

\* A rollback never takes away a pairing the user revoked and brings it back.
RevokedStaysRevoked == \A c \in revoked : store[c] # Earlier

\* An approval ends: it connects, withdraws, is cancelled or fails on its last
\* relay, unless it waits for its signer for ever.
AtSigner(r) == At(r, "resolve") \/ At(r, "send")
ApprovalEnds == \A r \in Requests : ~At(r, "idle") ~> (At(r, "idle") \/ []AtSigner(r))

\* A Cancel that lands while the answer is being sent is honoured once the
\* send resolves: the pairing it saved does not stay.
LateCancelUndone ==
    \A r \in Requests :
        r \in cancelRequested /\ ClientOf[r] \in Undisturbed ~>
            At(r, "idle") /\ store[ClientOf[r]] \notin {r} \X (1..MaxAttempts)

=============================================================================
