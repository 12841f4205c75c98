---------------------------- MODULE BoundedServer ----------------------------
(***************************************************************************)
(* What the accept loop and its workers promise together, without them: no *)
(* more than Limit accepted connections are open at a time, and each one   *)
(* is opened once and closed once, unless the process dies.                *)
(***************************************************************************)
EXTENDS Naturals, FiniteSets

CONSTANTS Conns, Limit

VARIABLES alive, opened, shut

vars == <<alive, opened, shut>>

Init == alive = TRUE /\ opened = {} /\ shut = {}

Open(c) ==
  /\ alive /\ c \notin opened \cup shut
  /\ Cardinality(opened) < Limit
  /\ opened' = opened \cup {c}
  /\ UNCHANGED <<alive, shut>>

Shut(c) ==
  /\ alive /\ c \in opened
  /\ opened' = opened \ {c}
  /\ shut' = shut \cup {c}
  /\ UNCHANGED alive

Crash == alive /\ alive' = FALSE /\ UNCHANGED <<opened, shut>>

Next == Crash \/ \E c \in Conns : Open(c) \/ Shut(c)

Spec == Init /\ [][Next]_vars
=============================================================================
