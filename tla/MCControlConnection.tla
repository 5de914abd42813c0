------------------------ MODULE MCControlConnection ------------------------
(* Instances of ControlConnection for TLC.                                 *)
EXTENDS ControlConnection

\* Two calls with different deadlines: the one that can start first sends a
\* chain of two commands and has the later deadline.
TwoCalls == {1, 2}
TwoDeadlines == [c \in TwoCalls |-> IF c = 1 THEN 2 ELSE 1]
TwoLines == [c \in TwoCalls |-> IF c = 1 THEN 2 ELSE 1]
TwoUnordered == [c \in TwoCalls |-> FALSE]

\* One call whose reply is a boundary in the order of the notifications.
OneCall == {1}
OneDeadline == [c \in OneCall |-> 1]
OneLine == [c \in OneCall |-> 2]
OneOrdered == [c \in OneCall |-> TRUE]

=============================================================================
