-------------------------- MODULE MCSessionChannels --------------------------
(* Instances of SessionChannels for TLC.                                   *)
EXTENDS SessionChannels, TLC

CONSTANTS c1, c2

OneChannel  == {c1}
TwoChannels == {c1, c2}
Symmetry    == Permutations(TwoChannels)

AllKinds    == Programs \cup {"pty", "resize", "other"}
ShellKinds  == {"pty", "shell", "exec"}
PairKinds   == {"shell", "scp", "exec", "other", "resize"}
NoFaults    == {}
AllFaults   == {"hook", "scp", "payload"}
=============================================================================
