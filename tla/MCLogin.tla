------------------------------- MODULE MCLogin -------------------------------
(* Instances of Login for TLC.                                             *)
EXTENDS Login, TLC

CONSTANTS c1, c2, root, testuser, bob

TwoConns   == {c1, c2}
AllNames   == {root, testuser, bob}   \* bob is not in the passwd file
\* As in src/passwd, the id of testuser is one that CreateUser may draw.
PasswdIds  == (root :> 0) @@ (testuser :> 1000)
FewIds     == {1000, 1001}
OneChan    == {1}
AllConfigs == [retry : BOOLEAN, random : BOOLEAN, workers : 1..2]
RetryOnly  == {[retry |-> TRUE, random |-> FALSE, workers |-> 2]}
=============================================================================
