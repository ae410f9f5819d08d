-------------------------- MODULE MCLockAfterFlush --------------------------
(* Instances of LockAfterFlush for TLC.                                    *)
EXTENDS LockAfterFlush, TLC

CONSTANTS childRules, mixed, projections

\* A rail without faults, and one that has what the others have one by one: it
\* re-arms (contacts), its edits make every rail read again (personas), what
\* it read it takes for published (kens), and its publishes fail and hang.
TwoRails     == {childRules, mixed}
TwoKinds     == childRules :> "own" @@ mixed :> "rearm"
AllReach     == [r \in Rails |-> "reach"]
SecondFaulty == childRules :> {} @@ mixed :> {"fail", "hang"}
FewEdits     == childRules :> 2 @@ mixed :> 1
OnlyMixed    == {mixed}

\* The rail that runs again on its own.
OneRail  == {projections}
Queued   == projections :> "queue"
Ungated  == projections :> "none"
NoFaults == projections :> {}
TwoEdits == [r \in Rails |-> 2]
=============================================================================
