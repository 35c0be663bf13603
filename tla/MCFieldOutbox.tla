-------------------------- MODULE MCFieldOutbox --------------------------
(* Small instances of FieldOutbox for TLC. *)
EXTENDS FieldOutbox

CONSTANTS o1, o2, p1, p2, b1, b2

\* Everything in one page.
OneBox == [x \in Caller |-> b1]

\* A pass over the outbox; two over the completions, which cross.
OneOrTwo == [kept \in BOOLEAN |-> IF kept THEN {p1} ELSE {p1, p2}]

\* A pass of each box.
OneEach == [kept \in BOOLEAN |-> {p1, p2}]

\* The page closes once.
CloseOnce == [kept \in BOOLEAN |-> 1]
NoClose == [kept \in BOOLEAN |-> 0]

\* A surface's own box, and the continuity panel's.
TwoBoxes == [x \in Caller |-> IF x \in {p1, o1} THEN b1 ELSE b2]
==========================================================================
