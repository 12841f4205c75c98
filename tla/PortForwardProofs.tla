------------------------- MODULE PortForwardProofs -------------------------
(***************************************************************************)
(* Theorems about PortForward, for every port map, setting and number of   *)
(* channels: tunnels are dialled and used as the configuration allows, and *)
(* only two things take the process down.                                  *)
(***************************************************************************)
EXTENDS PortForward, TLAPS

(* A goroutine dials without a channel only for a request that was corrupt *)
(* or whose client has gone: what a panic in it goes back to.              *)
BlindInv ==
  \A i \in Channels :
    tunnel[i] = "dialing" /\ answer[i] # "open" => ~asked[i].whole \/ ~present

IInv == TypeOK /\ TunnelsAsConfigured /\ BlindInv /\ CrashesHaveCause

LEMMA InvInit == Init => IInv
BY ForwardAssumption
DEF ForwardAssumption, Init, IInv, TypeOK, TunnelsAsConfigured, TunnelAllowed, BlindInv,
    CrashesHaveCause

(* The requests that have been taken stay as they are.                     *)
LEMMA AskedStays ==
  ASSUME TypeOK, [Next]_vars
  PROVE  /\ asked' \in Seq(Requests)
         /\ \A i \in 1..handled : i \in DOMAIN asked /\ asked'[i] = asked[i]
<1> USE DEF TypeOK
<1>1. \A i \in 1..handled : i \in DOMAIN asked
  OBVIOUS
<1>2. ASSUME NEW r \in Requests, asked' = Append(asked, r)
      PROVE  asked' \in Seq(Requests) /\ \A i \in 1..handled : asked'[i] = asked[i]
  BY <1>2
<1>3. asked' = asked \/ \E r \in Requests : asked' = Append(asked, r)
  <2>1. CASE UNCHANGED vars
    BY <2>1 DEF vars, requestVars
  <2>2. CASE (\E r \in Requests : Ask(r)) \/ Leave \/ Loop
    BY <2>2 DEF Ask, Leave, Loop, PassOn, Refuse, Panic, Grant, Stumble, Take, requestVars
  <2>3. ASSUME NEW i \in Channels,
               ClientSends(i) \/ HangUp(i) \/ ClientStalls(i) \/ HostStalls(i) \/ Dial(i)
        PROVE  asked' = asked
    BY <2>3 DEF ClientSends, HangUp, ClientStalls, HostStalls, Dial, DialFails,
                DialSucceeds, requestVars
  <2>4. ASSUME NEW i \in Channels,
               Copies(i) \/ CopiesBack(i) \/ HostSends(i) \/ HostCloses(i)
        PROVE  asked' = asked
    BY <2>4 DEF Copies, CopiesBack, CopyOut, CopyOutEnds, CopyBack, CopyBackEnds,
                HostSends, HostCloses, requestVars
  <2> QED  BY <2>1, <2>2, <2>3, <2>4 DEF Next
<1> QED  BY <1>1, <1>2, <1>3

-----------------------------------------------------------------------------
LEMMA CountUp ==
  ASSUME NEW f \in [Channels -> 0..MaxBytes], NEW i \in Channels, f[i] < MaxBytes
  PROVE  [f EXCEPT ![i] = @ + 1] \in [Channels -> 0..MaxBytes]
<1> QED  BY ForwardAssumption DEF ForwardAssumption

LEMMA TypeStep ==
  ASSUME TypeOK, [Next]_vars
  PROVE  TypeOK'
<1> USE ForwardAssumption DEF ForwardAssumption, TypeOK
<1>1. CASE UNCHANGED vars
  BY <1>1 DEF vars, requestVars, copyVars, dataVars, endVars
<1>2. ASSUME NEW r \in Requests, Ask(r)
      PROVE  TypeOK'
  <2>1. asked' \in Seq(Requests) /\ Len(asked') = Len(asked) + 1
    BY <1>2 DEF Ask
  <2>2. Len(asked') <= MaxRequests /\ handled' \in 0..Len(asked')
    BY <1>2, <2>1 DEF Ask
  <2> QED  BY <1>2, <2>1, <2>2 DEF Ask, copyVars, dataVars, endVars
<1>3. CASE Leave
  BY <1>3 DEF Leave, requestVars, copyVars, dataVars
<1>4. CASE Loop
  <2>1. Turn \in Channels /\ Turn \in 0..Len(asked) /\ Take
    BY <1>4 DEF Loop, PassOn, Refuse, Panic, Grant, Stumble, Take, Turn, Channels
  <2>2. answer' \in [Channels -> {"none", "open", "refused", "failed", "session"}]
    BY <1>4, <2>1 DEF Loop, PassOn, Refuse, Panic, Grant, Stumble, Decide
  <2>3. tunnel' \in [Channels -> {"none", "dialing", "joined", "unreachable"}]
    BY <1>4, <2>1 DEF Loop, PassOn, Refuse, Panic, Grant, Stumble, Dials
  <2>4. alive' \in BOOLEAN
    BY <1>4 DEF Loop, PassOn, Refuse, Panic, Grant, Stumble
  <2> QED  BY <2>1, <2>2, <2>3, <2>4 DEF Take, copyVars, dataVars, endVars
<1>5. ASSUME NEW i \in Channels, ClientSends(i) \/ HangUp(i) \/ HostSends(i) \/ HostCloses(i)
      PROVE  TypeOK'
  <2>1. CASE ClientSends(i)
    <3>1. sent' \in [Channels -> 0..MaxBytes]
      BY <1>5, <2>1, CountUp DEF ClientSends
    <3> QED  BY <1>5, <2>1, <3>1 DEF ClientSends, requestVars, copyVars, dataVars, endVars
  <2>2. CASE HangUp(i)
    BY <1>5, <2>2 DEF HangUp, requestVars, copyVars, dataVars, endVars
  <2>3. CASE HostSends(i)
    <3>1. said' \in [Channels -> 0..MaxBytes]
      BY <1>5, <2>3, CountUp DEF HostSends
    <3> QED  BY <1>5, <2>3, <3>1 DEF HostSends, requestVars, copyVars, dataVars, endVars
  <2>4. CASE HostCloses(i)
    BY <1>5, <2>4 DEF HostCloses, requestVars, copyVars, dataVars, endVars
  <2> QED  BY <1>5, <2>1, <2>2, <2>3, <2>4
<1>6. ASSUME NEW i \in Channels, Dial(i)
      PROVE  TypeOK'
  <2>1. CASE DialFails(i)
    BY <1>6, <2>1 DEF DialFails, requestVars, copyVars, dataVars, endVars
  <2>2. CASE DialSucceeds(i)
    BY <1>6, <2>2 DEF DialSucceeds, requestVars, copyVars, dataVars, endVars
  <2> QED  BY <1>6, <2>1, <2>2 DEF Dial
<1>7. ASSUME NEW i \in Channels, Copies(i)
      PROVE  TypeOK'
  <2>1. CASE CopyOut(i)
    <3>1. got[i] < MaxBytes
      BY <1>7, <2>1 DEF CopyOut
    <3>2. got' \in [Channels -> 0..MaxBytes]
      <4>1. CASE got' = [got EXCEPT ![i] = @ + 1]
        BY <3>1, <4>1, CountUp
      <4>2. CASE UNCHANGED got
        BY <4>2
      <4> QED  BY <2>1, <4>1, <4>2 DEF CopyOut
    <3> QED  BY <1>7, <2>1, <3>2 DEF CopyOut, requestVars, copyVars, dataVars, endVars
  <2>2. CASE CopyOutEnds(i)
    BY <1>7, <2>2 DEF CopyOutEnds, requestVars, copyVars, dataVars, endVars
  <2> QED  BY <1>7, <2>1, <2>2 DEF Copies
<1>8. ASSUME NEW i \in Channels, CopiesBack(i)
      PROVE  TypeOK'
  <2>1. CASE CopyBack(i)
    <3>1. heard[i] < MaxBytes
      BY <1>8, <2>1 DEF CopyBack
    <3>2. heard' \in [Channels -> 0..MaxBytes]
      <4>1. CASE heard' = [heard EXCEPT ![i] = @ + 1]
        BY <3>1, <4>1, CountUp
      <4>2. CASE UNCHANGED heard
        BY <4>2
      <4> QED  BY <2>1, <4>1, <4>2 DEF CopyBack
    <3> QED  BY <1>8, <2>1, <3>2 DEF CopyBack, requestVars, copyVars, dataVars, endVars
  <2>2. CASE CopyBackEnds(i)
    BY <1>8, <2>2 DEF CopyBackEnds, requestVars, copyVars, dataVars, endVars
  <2> QED  BY <1>8, <2>1, <2>2 DEF CopiesBack
<1>9. ASSUME NEW i \in Channels, ClientStalls(i) \/ HostStalls(i)
      PROVE  TypeOK'
  BY <1>9 DEF ClientStalls, HostStalls, requestVars, copyVars, dataVars
<1> QED  BY <1>1, <1>2, <1>3, <1>4, <1>5, <1>6, <1>7, <1>8, <1>9 DEF Next

-----------------------------------------------------------------------------
(* A tunnel goes from dialing to joined only with a channel, and no step   *)
(* takes back an answer that was given.                                    *)
LEMMA TunnelsStep ==
  ASSUME IInv, [Next]_vars
  PROVE  TunnelsAsConfigured' /\ BlindInv'
<1> USE ForwardAssumption DEF ForwardAssumption, IInv, TypeOK, TunnelsAsConfigured, TunnelAllowed, BlindInv
<1>0. /\ \A i \in 1..handled : i \in DOMAIN asked /\ asked'[i] = asked[i]
      /\ \A i \in Channels : tunnel[i] # "none" => i \in 1..handled
  <2>1. \A i \in Channels : tunnel[i] # "none" => i \in 1..handled
    BY DEF Channels
  <2> QED  BY <2>1, AskedStays
<1>1. CASE UNCHANGED vars
  BY <1>1 DEF vars, requestVars, copyVars, dataVars, endVars, Dialled, Forwards
<1>2. ASSUME NEW r \in Requests, Ask(r)
      PROVE  TunnelsAsConfigured' /\ BlindInv'
  BY <1>0, <1>2 DEF Ask, copyVars, dataVars, endVars, Dialled, Forwards
<1>3. CASE Leave
  BY <1>3 DEF Leave, requestVars, copyVars, dataVars, Dialled, Forwards
<1>4. CASE Loop
  <2>1. /\ Turn \in Channels /\ handled' = Turn /\ asked' = asked /\ mode' = mode
        /\ UNCHANGED <<copyVars, dataVars, endVars>>
    BY <1>4 DEF Loop, PassOn, Refuse, Panic, Grant, Stumble, Take, Turn, Channels
  <2>2. tunnel[Turn] = "none"
    BY <2>1 DEF Turn, Channels
  <2>3. \A i \in Channels \ {Turn} : answer'[i] = answer[i] /\ tunnel'[i] = tunnel[i]
    BY <1>4, <2>1 DEF Loop, PassOn, Refuse, Panic, Grant, Stumble, Decide, Dials
  <2>4. /\ tunnel'[Turn] \in {"none", "dialing"}
        /\ tunnel'[Turn] = "dialing" =>
             /\ HasHost(asked[Turn])
             /\ answer'[Turn] = "open" \/ ~asked[Turn].whole \/ ~present
    BY <1>4, <2>1, <2>2
    DEF Loop, PassOn, Refuse, Panic, Grant, Stumble, Decide, Dials, Taken
  <2>5. TunnelsAsConfigured'
    <3>1. ASSUME NEW i \in Channels, i = Turn
          PROVE  TunnelAllowed(i)'
      <4>1. tunnel[i] = "none" /\ ~outgoing[i] /\ ~incoming[i]
        BY <2>2, <3>1
      <4>2. got[i] \in Nat /\ said[i] \in Nat /\ ~(got[i] + said[i] > 0)
        BY <4>1
      <4>3. tunnel'[i] \in {"none", "dialing"}
        BY <2>4, <3>1
      <4>4. tunnel'[i] # "none" =>
              /\ i <= handled' /\ Forwards(asked'[i]) /\ mode' \in {"map", "direct"}
              /\ mode' = "map" => asked'[i].to \in DOMAIN PortMap
        BY <2>1, <2>4, <3>1 DEF HasHost, Forwards, Turn
      <4> QED  BY <2>1, <4>1, <4>2, <4>3, <4>4 DEF copyVars, dataVars, Forwards
    <3>2. ASSUME NEW i \in Channels, i # Turn
          PROVE  TunnelAllowed(i)'
      <4>1. tunnel[i] # "none" => i <= handled' /\ i \in DOMAIN asked
        BY <1>0, <2>1 DEF Turn
      <4> QED  BY <2>1, <2>3, <3>2, <4>1 DEF Forwards, Dialled, copyVars, dataVars
    <3> QED  BY <3>1, <3>2
  <2>6. BlindInv'
    BY <2>1, <2>3, <2>4 DEF endVars
  <2> QED  BY <2>5, <2>6
<1>5. ASSUME NEW i \in Channels, ClientSends(i) \/ HangUp(i)
      PROVE  TunnelsAsConfigured' /\ BlindInv'
  <2>1. CASE ClientSends(i)
    BY <1>5, <2>1 DEF ClientSends, requestVars, copyVars, dataVars, endVars, Dialled, Forwards
  <2>2. CASE HangUp(i)
    BY <1>5, <2>2 DEF HangUp, requestVars, copyVars, dataVars, endVars, Dialled, Forwards
  <2> QED  BY <1>5, <2>1, <2>2
<1>6. ASSUME NEW i \in Channels, HostSends(i) \/ HostCloses(i)
      PROVE  TunnelsAsConfigured' /\ BlindInv'
  <2>1. CASE HostSends(i)
    BY <1>6, <2>1 DEF HostSends, requestVars, copyVars, dataVars, endVars, Dialled, Forwards
  <2>2. CASE HostCloses(i)
    BY <1>6, <2>2 DEF HostCloses, requestVars, copyVars, dataVars, endVars, Dialled, Forwards
  <2> QED  BY <1>6, <2>1, <2>2
<1>7. ASSUME NEW i \in Channels, Dial(i)
      PROVE  TunnelsAsConfigured' /\ BlindInv'
  <2>1. CASE DialFails(i)
    <3>1. /\ tunnel[i] = "dialing" /\ tunnel'[i] = "unreachable"
          /\ \A j \in Channels \ {i} : tunnel'[j] = tunnel[j]
          /\ UNCHANGED <<requestVars, copyVars, dataVars, endVars>>
      BY <1>7, <2>1 DEF DialFails
    <3>2. \A j \in Channels : TunnelAllowed(j)'
      BY <1>7, <3>1 DEF requestVars, copyVars, dataVars, Dialled, Forwards
    <3>3. BlindInv'
      BY <1>7, <3>1 DEF requestVars, endVars
    <3> QED  BY <3>2, <3>3
  <2>2. CASE DialSucceeds(i)
    <3>1. /\ tunnel[i] = "dialing" /\ Dialled(i) # Nowhere
          /\ \A j \in Channels \ {i} : /\ tunnel'[j] = tunnel[j]
                                       /\ outgoing'[j] = outgoing[j] /\ incoming'[j] = incoming[j]
          /\ tunnel'[i] = "dialing" => outgoing'[i] = outgoing[i] /\ incoming'[i] = incoming[i]
          /\ tunnel'[i] = "dialing" \/ (tunnel'[i] = "joined" /\ answer[i] = "open")
          /\ UNCHANGED <<requestVars, dataVars, endVars>>
      BY <1>7, <2>2 DEF DialSucceeds, copyVars
    <3>2. \A j \in Channels : TunnelAllowed(j)'
      BY <1>7, <3>1 DEF requestVars, dataVars, Dialled, Forwards
    <3>3. BlindInv'
      BY <1>7, <3>1 DEF requestVars, endVars
    <3> QED  BY <3>2, <3>3
  <2> QED  BY <1>7, <2>1, <2>2 DEF Dial
<1>8. ASSUME NEW i \in Channels, Copies(i)
      PROVE  TunnelsAsConfigured' /\ BlindInv'
  <2>1. CASE CopyOut(i)
    <3>1. \A j \in Channels : got'[j] <= sent[j]
      <4>1. \A j \in Channels : got[j] \in Nat /\ sent[j] \in Nat /\ got[j] <= sent[j]
        OBVIOUS
      <4>2. got[i] < sent[i] /\ (got' = [got EXCEPT ![i] = @ + 1] \/ got' = got)
        BY <2>1 DEF CopyOut
      <4>3. got[i] + 1 <= sent[i]
        BY <1>8, <4>1, <4>2
      <4> QED  BY <1>8, <4>1, <4>2, <4>3
    <3>2. tunnel[i] = "joined"
      BY <1>8, <2>1 DEF CopyOut
    <3>3. \A j \in Channels \ {i} : got'[j] = got[j]
      BY <1>8, <2>1 DEF CopyOut
    <3> QED  BY <1>8, <2>1, <3>1, <3>2, <3>3
             DEF CopyOut, requestVars, copyVars, dataVars, endVars, Dialled, Forwards
  <2>2. CASE CopyOutEnds(i)
    BY <1>8, <2>2 DEF CopyOutEnds, requestVars, copyVars, dataVars, endVars, Dialled, Forwards
  <2> QED  BY <1>8, <2>1, <2>2 DEF Copies
<1>9. ASSUME NEW i \in Channels, CopiesBack(i)
      PROVE  TunnelsAsConfigured' /\ BlindInv'
  <2>1. CASE CopyBack(i)
    <3>1. \A j \in Channels : heard'[j] <= said[j]
      <4>1. \A j \in Channels : heard[j] \in Nat /\ said[j] \in Nat /\ heard[j] <= said[j]
        OBVIOUS
      <4>2. heard[i] < said[i] /\ (heard' = [heard EXCEPT ![i] = @ + 1] \/ heard' = heard)
        BY <2>1 DEF CopyBack
      <4>3. heard[i] + 1 <= said[i]
        BY <1>9, <4>1, <4>2
      <4> QED  BY <1>9, <4>1, <4>2, <4>3
    <3>2. tunnel[i] = "joined"
      BY <1>9, <2>1 DEF CopyBack
    <3>3. \A j \in Channels \ {i} : heard'[j] = heard[j]
      BY <1>9, <2>1 DEF CopyBack
    <3> QED  BY <1>9, <2>1, <3>1, <3>2, <3>3
             DEF CopyBack, requestVars, copyVars, dataVars, endVars, Dialled, Forwards
  <2>2. CASE CopyBackEnds(i)
    BY <1>9, <2>2 DEF CopyBackEnds, requestVars, copyVars, dataVars, endVars, Dialled, Forwards
  <2> QED  BY <1>9, <2>1, <2>2 DEF CopiesBack
<1>10. ASSUME NEW i \in Channels, ClientStalls(i) \/ HostStalls(i)
       PROVE  TunnelsAsConfigured' /\ BlindInv'
  BY <1>10 DEF ClientStalls, HostStalls, requestVars, copyVars, dataVars, Dialled, Forwards
<1> QED  BY <1>1, <1>2, <1>3, <1>4, <1>5, <1>6, <1>7, <1>8, <1>9, <1>10 DEF Next

-----------------------------------------------------------------------------
(* Nothing happens in a process that is down, and the two panics have their*)
(* causes.                                                                 *)
LEMMA CrashStep ==
  ASSUME IInv, [Next]_vars
  PROVE  CrashesHaveCause'
<1> USE DEF IInv, TypeOK, CrashesHaveCause
<1>1. CASE UNCHANGED vars
  BY <1>1 DEF vars, requestVars, endVars, Forwards
<1>2. CASE Panic
  <2>1. Turn \in 1..handled' /\ asked' = asked /\ mode' = mode
    BY <1>2 DEF Panic, Take, Turn
  <2>2. Forwards(asked[Turn]) /\ mode = "map" /\ asked[Turn].to \notin DOMAIN PortMap
    BY <1>2 DEF Panic, Unmapped, Taken
  <2> QED  BY <2>1, <2>2 DEF Forwards
<1>3. ASSUME NEW i \in Channels, DialSucceeds(i)
      PROVE  CrashesHaveCause'
  <2>1. CASE answer[i] = "open"
    BY <1>3, <2>1 DEF DialSucceeds
  <2>2. CASE answer[i] # "open"
    <3>1. tunnel[i] = "dialing" /\ (~asked[i].whole \/ ~present)
      BY <1>3, <2>2 DEF DialSucceeds, BlindInv
    <3>2. i \in 1..handled /\ Forwards(asked[i])
      BY <3>1 DEF TunnelsAsConfigured, TunnelAllowed, Channels
    <3> QED  BY <1>3, <2>2, <3>1, <3>2 DEF DialSucceeds, requestVars, endVars, Forwards
  <2> QED  BY <2>1, <2>2
<1>4. ASSUME alive, UNCHANGED alive
      PROVE  CrashesHaveCause'
  BY <1>4
<1>5. CASE (\E r \in Requests : Ask(r)) \/ Leave
  BY <1>4, <1>5 DEF Ask, Leave
<1>6. CASE Loop /\ ~Panic
  BY <1>4, <1>6 DEF Loop, PassOn, Refuse, Grant, Stumble, Take
<1>7. ASSUME NEW i \in Channels,
             \/ ClientSends(i) \/ HangUp(i) \/ ClientStalls(i) \/ DialFails(i)
             \/ HostSends(i) \/ HostCloses(i) \/ HostStalls(i)
      PROVE  CrashesHaveCause'
  BY <1>4, <1>7 DEF ClientSends, HangUp, ClientStalls, DialFails, HostSends, HostCloses,
                    HostStalls
<1>8. ASSUME NEW i \in Channels, Copies(i) \/ CopiesBack(i)
      PROVE  CrashesHaveCause'
  BY <1>4, <1>8 DEF Copies, CopiesBack, CopyOut, CopyOutEnds, CopyBack, CopyBackEnds
<1> QED  BY <1>1, <1>2, <1>3, <1>5, <1>6, <1>7, <1>8 DEF Next, Dial

-----------------------------------------------------------------------------
LEMMA Inductive == Spec => []IInv
<1>1. IInv /\ [Next]_vars => IInv'
  BY TypeStep, TunnelsStep, CrashStep DEF IInv
<1> QED  BY InvInit, <1>1, PTL DEF Spec

(* Types of the loop, the tunnels and their data.                          *)
THEOREM ForwardTypes == Spec => []TypeOK
BY Inductive, PTL DEF IInv

(* handleNewConn dials only what server.portRedirection allows, whatever   *)
(* the payloads, and passes data only on channels it has granted           *)
(* (ssh.go, 277-305).                                                      *)
THEOREM TunnelsFollowTheConfiguration == Spec => []TunnelsAsConfigured
BY Inductive, PTL DEF IInv

(* The process survives every whole request for a mapped port of a client  *)
(* that stays, and whatever the hosts do (ssh.go, 281-303).                *)
THEOREM TunnelsCrashForTwoReasons == Spec => []CrashesHaveCause
BY Inductive, PTL DEF IInv
=============================================================================
