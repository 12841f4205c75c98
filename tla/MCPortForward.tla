--------------------------- MODULE MCPortForward ---------------------------
(* An instance of PortForward for TLC: one port of the map, one that is    *)
(* not in it, and the port of a payload that breaks off.                   *)
EXTENDS PortForward, TLC

CONSTANTS web, mail, mirror

ManyTargets == {web, mail, Nowhere}
OneMapped   == web :> mirror
\* "disabled" is the value of config.yaml; the code tests for "disable".
AllModes    == {"disable", "disabled", "map", "direct"}

\* One tunnel at a time carries data or has an end that stops reading: tunnels
\* have their own connections and copies.
Calm(i)  == sent[i] + said[i] = 0 /\ hostReads[i] /\ clientReads[i]
OneBusy  == \A i, j \in Channels : i = j \/ Calm(i) \/ Calm(j)
=============================================================================
