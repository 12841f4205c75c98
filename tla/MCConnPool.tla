----------------------------- MODULE MCConnPool -----------------------------
(* Instances of ConnPool for TLC.                                          *)
EXTENDS ConnPool

CONSTANTS w1, w2, hostA, hostB

FourConns  == 1..4
TwoWorkers == {w1, w2}
TwoHosts   == {hostA, hostB}
HostByName == [c \in Conns |-> IF c < 3 THEN hostA ELSE hostB]
AllFaults  == {"accept", "race", "tunnel"}

\* Clients have no identity but their number: they connect in its order.
InOrder == \A c \in Conns :
  conn[c] = "new" /\ conn'[c] # "new" => \A d \in Conns : d < c => conn[d] # "new"

\* The first two are enough to hold both workers, so one of them is the only
\* client to jam its connection and the other the only one to fall silent; any
\* client may keep sending, or not send anything.
FewOdd == jammed' \subseteq {1} /\ quiet' \subseteq {2}

OrderedSpec == Init /\ [][Next /\ InOrder /\ FewOdd]_vars /\ Fairness
=============================================================================
