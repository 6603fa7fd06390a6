---------------------------- MODULE AtomicEdits ----------------------------
(* What conditional writes promise: the abstract resource is a set of       *)
(* edits, each added to the current set in one indivisible step, as if      *)
(* every client held the resource while it read and changed it.             *)
CONSTANTS Client, Null

VARIABLE value

Init == value \in {Null, {}}

Create(c) == value = Null /\ value' = {c}
Edit(c) == value # Null /\ value' = value \cup {c}
Delete == value # Null /\ value' = Null

Next == Delete \/ \E c \in Client : Create(c) \/ Edit(c)

Spec == Init /\ [][Next]_value
=============================================================================
