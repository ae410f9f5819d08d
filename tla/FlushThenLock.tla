---------------------------- MODULE FlushThenLock ---------------------------
(***************************************************************************)
(* What an auto-lock promises: once asked for, the key goes.  Until then   *)
(* edits are made and backed up; with the key gone nothing is edited, and  *)
(* what a relay has taken stays taken.                                     *)
(***************************************************************************)
EXTENDS Naturals

CONSTANT Rails

VARIABLES
    key,               \* whether the encryption key is in memory
    asked,             \* whether a lock has been asked for
    made,              \* how many edits were made on each rail
    kept               \* how many of them, oldest first, a relay has

promiseVars == <<key, asked, made, kept>>

Init ==
    /\ key = TRUE
    /\ asked = FALSE
    /\ made = [r \in Rails |-> 0]
    /\ kept = [r \in Rails |-> 0]

Edit(r) ==
    /\ key
    /\ made' = [made EXCEPT ![r] = @ + 1]
    /\ UNCHANGED <<key, asked, kept>>

BackUp(r) ==
    /\ \E n \in (kept[r] + 1)..made[r] : kept' = [kept EXCEPT ![r] = n]
    /\ UNCHANGED <<key, asked, made>>

Ask == key /\ asked' = TRUE /\ UNCHANGED <<key, made, kept>>

\* The lock that was asked for, or one that waits for nothing.
Lock == asked /\ key' = FALSE /\ asked' = FALSE /\ UNCHANGED <<made, kept>>
LockAtOnce == key /\ key' = FALSE /\ UNCHANGED <<asked, made, kept>>

Unlock == ~key /\ key' = TRUE /\ UNCHANGED <<asked, made, kept>>

Next ==
    \/ \E r \in Rails : Edit(r) \/ BackUp(r)
    \/ Ask \/ Lock \/ LockAtOnce \/ Unlock

Spec == Init /\ [][Next]_promiseVars /\ WF_promiseVars(Lock)
=============================================================================
