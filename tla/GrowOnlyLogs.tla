----------------------------- MODULE GrowOnlyLogs ---------------------------
(***************************************************************************)
(* What the contacts rail promises about the logs: every device holds a    *)
(* set of operations that only grows, by operations it authors itself and  *)
(* by operations that some device already holds.                           *)
(***************************************************************************)
CONSTANTS Devices, Ops
VARIABLE log

Held == UNION {log[d] : d \in Devices}

Init == log = [d \in Devices |-> {}]

Author(d) ==
    \E op \in Ops \ Held : log' = [log EXCEPT ![d] = @ \cup {op}]

Receive(d) ==
    \E S \in SUBSET Held : log' = [log EXCEPT ![d] = @ \cup S]

Next == \E d \in Devices : Author(d) \/ Receive(d)

Spec == Init /\ [][Next]_log
=============================================================================
