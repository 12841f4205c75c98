---------------------------- MODULE PortForward ----------------------------
(***************************************************************************)
(* Port forwarding (ssh.go, SSHSession.handleNewConn): the loop that       *)
(* answers the channel requests of one connection in turn, the goroutine   *)
(* that dials for a tunnel, and the two copies of a tunnel that is joined. *)
(*                                                                         *)
(* A request has its target (the host and port it names, or Nowhere, when  *)
(* the payload breaks off before the port, which leaves port 0) and is     *)
(* whole or not: Unmarshal fills the fields it reaches before it fails.    *)
(* A panic in the loop or in a goroutine takes the process down.           *)
(***************************************************************************)
EXTENDS Integers, Sequences

CONSTANTS
  Targets,      \* what a request may name
  Nowhere,      \* port 0, where nothing listens
  PortMap,      \* server.portRedirectionMap: targets to the hosts to dial
  Modes,        \* values of server.portRedirection
  MaxRequests,  \* channels the client asks for
  MaxBytes      \* blocks of data in each direction of a tunnel

ASSUME ForwardAssumption ==
  /\ Nowhere \in Targets
  /\ DOMAIN PortMap \subseteq Targets
  /\ MaxRequests \in Nat /\ MaxBytes \in Nat

\* Only the payloads of the tunnels are read.
Requests == [kind : {"direct-tcpip", "forwarded-tcpip"}, to : Targets, whole : BOOLEAN]
              \union [kind : {"session", "other"}, to : {Nowhere}, whole : {TRUE}]
Channels == 1..MaxRequests

VARIABLES
  mode,      \* server.portRedirection
  present,   \* the client is connected
  asked,     \* its channel requests
  handled,   \* how many of them the loop has taken
  answer,    \* what each was answered; a second answer has no effect
  tunnel,    \* what has become of the goroutine that dials
  outgoing, incoming,  \* whether io.Copy to the host, and back, runs
  sent, got,           \* data the client has sent, and the host has got
  said, heard,         \* data the host has sent, and the client has got
  hung,      \* the client has closed the channel
  hostGone,  \* the host has closed its connection
  hostReads, clientReads,  \* the host, the client, still takes what is written
  alive      \* the process runs

requestVars == <<mode, asked, handled, answer>>
copyVars    == <<outgoing, incoming>>
dataVars    == <<sent, got, said, heard>>
endVars     == <<present, hung, hostGone, hostReads, clientReads>>
vars == <<requestVars, tunnel, copyVars, dataVars, endVars, alive>>

Init ==
  /\ mode \in Modes
  /\ present = TRUE /\ alive = TRUE
  /\ asked = <<>> /\ handled = 0
  /\ answer = [i \in Channels |-> "none"]
  /\ tunnel = [i \in Channels |-> "none"]
  /\ outgoing = [i \in Channels |-> FALSE]
  /\ incoming = outgoing
  /\ sent = [i \in Channels |-> 0]
  /\ got = sent /\ said = sent /\ heard = sent
  /\ hung = [i \in Channels |-> FALSE]
  /\ hostGone = hung
  /\ hostReads = [i \in Channels |-> TRUE]
  /\ clientReads = hostReads

-----------------------------------------------------------------------------
(* The client.                                                             *)

Ask(r) ==
  /\ alive /\ present /\ Len(asked) < MaxRequests
  /\ asked' = Append(asked, r)
  /\ UNCHANGED <<mode, handled, answer, tunnel, copyVars, dataVars, endVars, alive>>

ClientSends(i) ==
  /\ alive /\ present /\ answer[i] = "open" /\ ~hung[i] /\ sent[i] < MaxBytes
  /\ sent' = [sent EXCEPT ![i] = @ + 1]
  /\ UNCHANGED <<requestVars, tunnel, copyVars, got, said, heard, endVars, alive>>

\* Nothing more will come from, or can be written to, channel i.
Closed(i) == ~present \/ hung[i]

HangUp(i) ==
  /\ alive /\ present /\ answer[i] = "open"
  /\ hung' = [hung EXCEPT ![i] = TRUE]
  /\ UNCHANGED <<requestVars, tunnel, copyVars, dataVars, present, hostGone,
                 hostReads, clientReads, alive>>

\* It gives channel i no more window.
ClientStalls(i) ==
  /\ alive /\ incoming[i] /\ ~Closed(i) /\ clientReads[i]
  /\ clientReads' = [clientReads EXCEPT ![i] = FALSE]
  /\ UNCHANGED <<requestVars, tunnel, copyVars, dataVars, present, hung, hostGone,
                 hostReads, alive>>

Leave ==
  /\ alive /\ present
  /\ present' = FALSE
  /\ UNCHANGED <<requestVars, tunnel, copyVars, dataVars, hung, hostGone,
                 hostReads, clientReads, alive>>

-----------------------------------------------------------------------------
(* The loop, also over the requests left in its buffer by a client that    *)
(* has gone.                                                               *)

Turn  == handled + 1
Taken == asked[Turn]

Take ==
  /\ alive /\ Turn \in DOMAIN asked
  /\ handled' = Turn
  /\ UNCHANGED <<mode, asked, copyVars, dataVars, endVars>>

Decide(a) == answer' = [answer EXCEPT ![Turn] = a]

Forwards(r) == r.kind = "direct-tcpip"

\* Mutated HasHost: "direct" as the default, so a misspelt setting opens the server.
HasHostByDefault(r) ==
  /\ Forwards(r)
  /\ mode = "map" => r.to \in DOMAIN PortMap
  /\ mode # "disable"

\* host is not empty.
HasHost(r) ==
  /\ Forwards(r)
  /\ \/ mode = "direct"
     \/ mode = "map" /\ r.to \in DOMAIN PortMap

\* The type assertion on the missing entry of the map panics.
Unmapped(r) == Forwards(r) /\ mode = "map" /\ r.to \notin DOMAIN PortMap

\* handleNewSession runs in a goroutine of its own (SessionChannels).
PassOn ==
  /\ Take /\ Taken.kind = "session"
  /\ Decide("session")
  /\ UNCHANGED <<tunnel, alive>>

\* Mutated Refuse: continue without the Reject, for the requests that are forbidden.
RefuseSilently ==
  /\ Take /\ Taken.kind # "session" /\ ~HasHost(Taken) /\ ~Unmapped(Taken)
  /\ IF Taken.kind = "forwarded-tcpip" THEN UNCHANGED answer ELSE Decide("refused")
  /\ UNCHANGED <<tunnel, alive>>

Refuse ==
  /\ Take /\ Taken.kind # "session" /\ ~HasHost(Taken) /\ ~Unmapped(Taken)
  /\ Decide("refused")
  /\ UNCHANGED <<tunnel, alive>>

Panic ==
  /\ Take /\ Unmapped(Taken)
  /\ alive' = FALSE
  /\ IF Taken.whole THEN UNCHANGED answer ELSE Decide("refused")
  /\ UNCHANGED tunnel

Dials == tunnel' = [tunnel EXCEPT ![Turn] = "dialing"]

Grant ==
  /\ Take /\ HasHost(Taken) /\ Taken.whole
  /\ Decide("open") /\ Dials
  /\ UNCHANGED alive

\* A request that was refused as corrupt, or whose client has gone, goes on
\* without a channel.
Stumble ==
  /\ Take /\ HasHost(Taken)
  /\ \/ ~Taken.whole /\ Decide("refused")
     \/ Taken.whole /\ ~present /\ Decide("failed")
  /\ Dials
  /\ UNCHANGED alive

Loop == PassOn \/ Refuse \/ Panic \/ Grant \/ Stumble

-----------------------------------------------------------------------------
(* The goroutines of a tunnel, and the host.                               *)

Dialled(i) == IF mode = "map" THEN PortMap[asked[i].to] ELSE asked[i].to

\* Mutated DialFails: without the return io.Copy meets a nil connection.
DialFailsGoesOn(i) ==
  /\ alive /\ tunnel[i] = "dialing"
  /\ tunnel' = [tunnel EXCEPT ![i] = "unreachable"]
  /\ alive' = FALSE
  /\ UNCHANGED <<requestVars, copyVars, dataVars, endVars>>

\* The Reject comes after the answer and has no effect.
DialFails(i) ==
  /\ alive /\ tunnel[i] = "dialing"
  /\ tunnel' = [tunnel EXCEPT ![i] = "unreachable"]
  /\ UNCHANGED <<requestVars, copyVars, dataVars, endVars, alive>>

\* io.Copy without a channel panics.
DialSucceeds(i) ==
  /\ alive /\ tunnel[i] = "dialing" /\ Dialled(i) # Nowhere
  /\ IF answer[i] = "open"
       THEN /\ tunnel' = [tunnel EXCEPT ![i] = "joined"]
            /\ outgoing' = [outgoing EXCEPT ![i] = TRUE]
            /\ incoming' = [incoming EXCEPT ![i] = TRUE]
            /\ UNCHANGED alive
       ELSE alive' = FALSE /\ UNCHANGED <<tunnel, copyVars>>
  /\ UNCHANGED <<requestVars, dataVars, endVars>>

Dial(i) == DialFails(i) \/ DialSucceeds(i)

\* Mutated CopyOut: it gives up when the client has closed, before the data
\* that is still in the channel's buffer.
CopyOutHasty(i) ==
  /\ alive /\ outgoing[i] /\ got[i] < sent[i]
  /\ \/ ~Closed(i) /\ got' = [got EXCEPT ![i] = @ + 1] /\ UNCHANGED outgoing
     \/ (hostGone[i] \/ Closed(i))
        /\ outgoing' = [outgoing EXCEPT ![i] = FALSE] /\ UNCHANGED got
  /\ UNCHANGED <<requestVars, tunnel, incoming, sent, said, heard, endVars, alive>>

\* A write may fail once the host has gone; the copy then ends.  What a host that
\* does not read is sent may find room in a buffer, or wait in Write.
CopyOut(i) ==
  /\ alive /\ outgoing[i] /\ got[i] < sent[i]
  /\ \/ got' = [got EXCEPT ![i] = @ + 1] /\ UNCHANGED outgoing
     \/ hostGone[i] /\ outgoing' = [outgoing EXCEPT ![i] = FALSE] /\ UNCHANGED got
  /\ UNCHANGED <<requestVars, tunnel, incoming, sent, said, heard, endVars, alive>>

\* The end of the channel's data; the connection to the host stays open.
CopyOutEnds(i) ==
  /\ alive /\ outgoing[i] /\ got[i] = sent[i] /\ Closed(i)
  /\ outgoing' = [outgoing EXCEPT ![i] = FALSE]
  /\ UNCHANGED <<requestVars, tunnel, incoming, dataVars, endVars, alive>>

\* A write ends with an error once the channel is closed, also one that waits.
CopyBack(i) ==
  /\ alive /\ incoming[i] /\ heard[i] < said[i]
  /\ \/ ~Closed(i) /\ heard' = [heard EXCEPT ![i] = @ + 1] /\ UNCHANGED incoming
     \/ Closed(i) /\ incoming' = [incoming EXCEPT ![i] = FALSE] /\ UNCHANGED heard
  /\ UNCHANGED <<requestVars, tunnel, outgoing, sent, got, said, endVars, alive>>

\* Mutated CopyBackEnds: a copy with the client gone never ends.
CopyBackEndsNever(i) ==
  /\ alive /\ incoming[i] /\ heard[i] = said[i] /\ hostGone[i] /\ ~Closed(i)
  /\ incoming' = [incoming EXCEPT ![i] = FALSE]
  /\ UNCHANGED <<requestVars, tunnel, outgoing, dataVars, endVars, alive>>

\* The end of the host's data; the channel stays open.
CopyBackEnds(i) ==
  /\ alive /\ incoming[i] /\ heard[i] = said[i] /\ hostGone[i]
  /\ incoming' = [incoming EXCEPT ![i] = FALSE]
  /\ UNCHANGED <<requestVars, tunnel, outgoing, dataVars, endVars, alive>>

\* A write to the host, to the client, does not wait for ever.
HostTakes(i)   == hostReads[i] \/ hostGone[i]
ClientTakes(i) == clientReads[i] \/ Closed(i)

Copies(i) == CopyOut(i) \/ CopyOutEnds(i)
CopiesBack(i) == CopyBack(i) \/ CopyBackEnds(i)

HostSends(i) ==
  /\ alive /\ tunnel[i] = "joined" /\ ~hostGone[i] /\ said[i] < MaxBytes
  /\ said' = [said EXCEPT ![i] = @ + 1]
  /\ UNCHANGED <<requestVars, tunnel, copyVars, sent, got, heard, endVars, alive>>

HostCloses(i) ==
  /\ alive /\ tunnel[i] = "joined" /\ ~hostGone[i]
  /\ hostGone' = [hostGone EXCEPT ![i] = TRUE]
  /\ UNCHANGED <<requestVars, tunnel, copyVars, dataVars, present, hung,
                 hostReads, clientReads, alive>>

\* It takes nothing more from its connection, and does not close it.
HostStalls(i) ==
  /\ alive /\ outgoing[i] /\ ~hostGone[i] /\ hostReads[i]
  /\ hostReads' = [hostReads EXCEPT ![i] = FALSE]
  /\ UNCHANGED <<requestVars, tunnel, copyVars, dataVars, present, hung, hostGone,
                 clientReads, alive>>

-----------------------------------------------------------------------------

Next ==
  \/ \E r \in Requests : Ask(r)
  \/ Leave
  \/ Loop
  \/ \E i \in Channels :
       \/ ClientSends(i) \/ HangUp(i) \/ ClientStalls(i)
       \/ Dial(i) \/ Copies(i) \/ CopiesBack(i)
       \/ HostSends(i) \/ HostCloses(i) \/ HostStalls(i)

Spec == Init /\ [][Next]_vars

\* The scheduler runs the loop and the goroutines, and a dial comes to an end.
\* A copy waits in Write for an end that takes nothing and stays (ssh.go sets no
\* deadline there); nothing obliges the client or the host to read, send or close.
FairSpec ==
  /\ Spec /\ WF_vars(Loop)
  /\ \A i \in Channels :
       /\ WF_vars(Dial(i))
       /\ WF_vars(HostTakes(i) /\ CopyOut(i)) /\ WF_vars(CopyOutEnds(i))
       /\ WF_vars(ClientTakes(i) /\ CopyBack(i)) /\ WF_vars(CopyBackEnds(i))

-----------------------------------------------------------------------------
(* Properties.                                                             *)

\* Types: the channels asked for, their answers, tunnels and data.
TypeOK ==
  /\ mode \in Modes /\ present \in BOOLEAN /\ alive \in BOOLEAN
  /\ asked \in Seq(Requests) /\ Len(asked) <= MaxRequests
  /\ handled \in 0..Len(asked)
  /\ answer \in [Channels -> {"none", "open", "refused", "failed", "session"}]
  /\ tunnel \in [Channels -> {"none", "dialing", "joined", "unreachable"}]
  /\ outgoing \in [Channels -> BOOLEAN] /\ incoming \in [Channels -> BOOLEAN]
  /\ hung \in [Channels -> BOOLEAN] /\ hostGone \in [Channels -> BOOLEAN]
  /\ hostReads \in [Channels -> BOOLEAN] /\ clientReads \in [Channels -> BOOLEAN]
  /\ sent \in [Channels -> 0..MaxBytes] /\ got \in [Channels -> 0..MaxBytes]
  /\ said \in [Channels -> 0..MaxBytes] /\ heard \in [Channels -> 0..MaxBytes]

\* The process goes down only over one of two things: a port that is not in the
\* map, or a dial that succeeded for a request the client was not granted, since
\* it was corrupt or its client had gone (ssh.go, 259-290).  Whole requests for
\* mapped ports, of a client that stays, never take it down, whatever hosts do.
CrashesHaveCause ==
  ~alive => \E i \in 1..handled :
    /\ Forwards(asked[i])
    /\ \/ mode = "map" /\ asked[i].to \notin DOMAIN PortMap
       \/ tunnel[i] = "dialing" /\ (~asked[i].whole \/ ~present)

TunnelAllowed(i) ==
  /\ tunnel[i] # "none" =>
       /\ i <= handled /\ Forwards(asked[i]) /\ mode \in {"map", "direct"}
       /\ mode = "map" => asked[i].to \in DOMAIN PortMap
  /\ tunnel[i] = "joined" => answer[i] = "open" /\ Dialled(i) # Nowhere
  /\ got[i] <= sent[i] /\ heard[i] <= said[i]
  /\ outgoing[i] \/ incoming[i] \/ got[i] + said[i] > 0 => tunnel[i] = "joined"

\* A tunnel is dialled only as server.portRedirection allows, under any name of
\* the setting; data passes only between a granted channel and its host, and
\* what arrives was sent (ssh.go, 276-286; config.yaml, 58-69).
TunnelsAsConfigured == \A i \in Channels : TunnelAllowed(i)

\* Every channel request is answered while the process runs, whatever the dials
\* of the earlier ones do; also those whose client has gone (ssh.go, 254-317).
RequestsAnswered ==
  \A i \in Channels : (i <= Len(asked)) ~> (answer[i] # "none" \/ ~alive)

\* What either end sends on a joined tunnel reaches the other end, unless that
\* end has closed or stopped reading, or the process is down (ssh.go, 304-305).
TunnelsCarry ==
  \A i \in Channels : \A n \in 1..MaxBytes :
    /\ (tunnel[i] = "joined" /\ sent[i] >= n)
         ~> (got[i] >= n \/ hostGone[i] \/ ~hostReads[i] \/ ~alive)
    /\ (said[i] >= n) ~> (heard[i] >= n \/ Closed(i) \/ ~clientReads[i] \/ ~alive)

\* What keeps a copy for ever: data for an end that neither reads nor closes.
OutStuck(i)  == outgoing[i] /\ got[i] < sent[i] /\ ~HostTakes(i)
BackStuck(i) == incoming[i] /\ heard[i] < said[i] /\ ~ClientTakes(i)

\* The copies of a tunnel end: the one to the host once the client has closed,
\* the one from it once the host has closed; or they wait for ever with data that
\* the other end does not take.  Neither ends the other (ssh.go, 304-305): a silent
\* host keeps its connection after the client went.
CopiesEnd ==
  \A i \in Channels :
    /\ (tunnel[i] = "joined" /\ Closed(i)) ~> (~outgoing[i] \/ ~alive \/ []OutStuck(i))
    /\ hostGone[i] ~> (~incoming[i] \/ ~alive \/ []BackStuck(i))
=============================================================================
