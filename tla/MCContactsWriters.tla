-------------------------- MODULE MCContactsWriters -------------------------
(* Instances of ContactsWriters for TLC.                                   *)
EXTENDS ContactsWriters

Two == {"p", "q"}
OneKey == {"K"}
OneList == {"L"}

\* A phone that is older, and two devices of one person.
OneOwner == [d \in {"old", "p", "q"} |-> 1]
Ties == [d \in {"old", "p", "q"} |-> IF d = "old" THEN 0 ELSE IF d = "p" THEN 1 ELSE 2]

OldOp(n, act, item, key, list) ==
    [dev |-> "old", num |-> n, clock |-> n, act |-> act, contact |-> <<"old", 1>>, item |-> item,
     key |-> key, list |-> list, target |-> Nobody]

\* A contact with a key, on two other lists.
Known == {OldOp(1, "add", Nobody, "none", "M"), OldOp(2, "add-identity", <<"old", 2>>, "K", "none"),
          OldOp(3, "link", Nobody, "none", "N")}

\* What p makes, q changes.
Split == [d \in Two |-> IF d = "p" THEN {"add-identity", "recognise", "block", "share"}
                        ELSE {"add", "link", "unlink", "clear", "remove-item", "remove", "archive", "unblock"}]
OnP == {"p"}
TwoAndOne == [d \in Two |-> IF d = "p" THEN 2 ELSE 1]
=============================================================================
