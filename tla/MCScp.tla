------------------------------- MODULE MCScp -------------------------------
(* An instance of scp for TLC: the options make it a sink or a source      *)
(* (scp.go, Main), and the other mode does nothing.                        *)
EXTENDS ScpSink, ScpSource, TLC

CONSTANTS f1, d1, d2

OneFile   == {f1}
TwoDirs   == {d1, d2}
ManySizes == {0, 2, 3}

\* Name 1 begins name 2, as in "lib" and "lib64".
OnePrefix == {<<1, 2>>}

D(p) == p :> "dir"
F(p) == p :> "file"
R    == <<0>>

\* One step up at a time, from a full and from an empty directory; two steps up;
\* a prefix sibling; nothing; one file.
ManyTrees == {
  D(R) @@ D(R \o <<1>>) @@ F(R \o <<1, 1>>) @@ D(R \o <<3>>) @@ F(R \o <<3, 1>>) @@ F(R \o <<4>>),
  D(R) @@ F(R \o <<1>>) @@ D(R \o <<3>>) @@ F(R \o <<4>>),
  D(R) @@ D(R \o <<1>>) @@ D(R \o <<1, 1>>) @@ F(R \o <<1, 1, 1>>) @@ F(R \o <<3>>),
  D(R) @@ D(R \o <<1>>) @@ F(R \o <<1, 3>>) @@ D(R \o <<2>>) @@ F(R \o <<2, 1>>),
  D(R), F(R)}

SourceIdle ==
  /\ tree = D(R) /\ deep = TRUE /\ dot = FALSE
  /\ todo = <<>> /\ at = "done" /\ Untouched

VARIABLE mode  \* toMode or fromMode

ScpInit ==
  \/ mode = "to" /\ Init /\ SourceIdle
  \/ mode = "from" /\ AtRest /\ pc = "done" /\ waiting = FALSE /\ SourceInit

ScpNext ==
  \/ mode = "to" /\ Next /\ UNCHANGED <<mode, sourceVars>>
  \/ mode = "from" /\ SourceNext /\ UNCHANGED <<mode, vars>>

ScpSpec ==
  /\ ScpInit /\ [][ScpNext]_<<mode, vars, sourceVars>>
  /\ WF_vars(Server /\ UNCHANGED <<mode, sourceVars>>)
  /\ WF_vars(ClientReply /\ UNCHANGED <<mode, sourceVars>>)
  /\ WF_sourceVars(Source /\ UNCHANGED <<mode, vars>>)
  /\ WF_sourceVars(Receiver /\ UNCHANGED <<mode, vars>>)
=============================================================================
