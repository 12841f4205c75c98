--------------------------- MODULE ChannelContract ---------------------------
(***************************************************************************)
(* What the server promises the client of a session channel, without the  *)
(* goroutines and the signals that keep the promise: a channel that is     *)
(* open ends either with the client leaving it or with a report of the     *)
(* result of a program that ended on it, and a result is reported if the   *)
(* client stays.  Two exceptions belong to the promise: a program may be   *)
(* lost, which leaves nothing to report, and a channel on which the client *)
(* has asked for more than one program may get stuck.                      *)
(***************************************************************************)
EXTENDS Naturals

CONSTANTS Channels, None, Lost, Codes

VARIABLES
  alive,   \* the server runs
  asked,   \* number of programs the client has asked for on the channel
  phase,   \* "idle", "open", "stuck" or "gone"
  result,  \* results of the programs that have ended on the channel
  report   \* exit status the client was told

vars == <<alive, asked, phase, result, report>>

Init ==
  /\ alive  = TRUE
  /\ asked  = [c \in Channels |-> 0]
  /\ phase  = [c \in Channels |-> "idle"]
  /\ result = [c \in Channels |-> {}]
  /\ report = [c \in Channels |-> None]

Open(c) ==
  /\ alive /\ phase[c] = "idle"
  /\ phase' = [phase EXCEPT ![c] = "open"]
  /\ UNCHANGED <<alive, asked, result, report>>

\* The client need not know that the channel is gone.
Ask(c) ==
  /\ alive /\ phase[c] # "idle"
  /\ asked' = [asked EXCEPT ![c] = @ + 1]
  /\ UNCHANGED <<alive, phase, result, report>>

\* Where the channel may be after a step of one of its programs.
MayBe(c) ==
  {phase[c]} \cup (IF phase[c] = "open" /\ asked[c] > 1 THEN {"stuck"} ELSE {})

\* A program may outlive its channel.
Finish(c, r) ==
  /\ alive /\ phase[c] # "idle" /\ asked[c] > 0
  /\ result' = [result EXCEPT ![c] = @ \cup {r}]
  /\ \E p \in MayBe(c) : phase' = [phase EXCEPT ![c] = p]
  /\ UNCHANGED <<alive, asked, report>>

Stick(c) ==
  /\ alive /\ phase[c] = "open" /\ asked[c] > 1
  /\ phase' = [phase EXCEPT ![c] = "stuck"]
  /\ UNCHANGED <<alive, asked, result, report>>

Report(c) ==
  /\ alive /\ phase[c] = "open"
  /\ phase' = [phase EXCEPT ![c] = "gone"]
  /\ \E code \in result[c] \cap Codes : report' = [report EXCEPT ![c] = code]
  /\ UNCHANGED <<alive, asked, result>>

Leave(c) ==
  /\ alive /\ phase[c] = "open"
  /\ phase' = [phase EXCEPT ![c] = "gone"]
  /\ UNCHANGED <<alive, asked, result, report>>

Crash ==
  /\ alive /\ alive' = FALSE
  /\ UNCHANGED <<asked, phase, result, report>>

Next ==
  \/ Crash
  \/ \E c \in Channels :
       \/ Open(c) \/ Ask(c) \/ Stick(c) \/ Report(c) \/ Leave(c)
       \/ \E r \in Codes \cup {Lost} : Finish(c, r)

Spec == Init /\ [][Next]_vars

FairSpec == Spec /\ \A c \in Channels : WF_vars(Report(c))
=============================================================================
