------------------------ MODULE SessionChannelsProofs ------------------------
(***************************************************************************)
(* Theorems about SessionChannels, for every set of channels, every bound  *)
(* and every set of faults: type correctness, the honesty of the exit      *)
(* status, the cause of a handler that is stuck on its own signal, the     *)
(* causes of a crash, and the refinement of ChannelContract.               *)
(***************************************************************************)
EXTENDS SessionChannels, TLAPS

(* Program p has been started on channel c, or is about to be.             *)
Begun(c, p) ==
  \/ p = "shell" /\ (shell[c] # "off" \/ handler[c] = "shell")
  \/ p = "sftp"  /\ sftp[c] # "off"
  \/ p = "scp"   /\ scp[c] # "off"
  \/ p = "exec"  /\ outcome[c]["exec"] # None

Queued(q, p) == \E i \in 1..Len(q) : q[i] = p

Once(q, p) == \A i, j \in 1..Len(q) : q[i] = p /\ q[j] = p => i = j

(* What was not asked for is neither waiting nor begun; what was asked for *)
(* once is not both.                                                       *)
QueueInv(c) == \A p \in Programs :
  /\ asked[c][p] = 0 => ~Begun(c, p) /\ ~Queued(reqs[c], p)
  /\ asked[c][p] = 1 /\ Queued(reqs[c], p) => ~Begun(c, p) /\ Once(reqs[c], p)
  /\ p # "exec" => asked[c][p] <= 1

(* A program that has not been started has no result, and the signal of an *)
(* exec command that is alone finds the buffer empty.                      *)
PlaceInv(c) ==
  /\ handler[c] = "shell" => shell[c] = "off"
  /\ shell[c] = "off" => outcome[c]["shell"] = None
  /\ sftp[c] = "off" => outcome[c]["sftp"] = None
  /\ scp[c] = "off" => outcome[c]["scp"] = None
  /\ handler[c] \in {"exec0", "exec1"} =>
       outcome[c]["exec"] # None /\ (Asked(c) <= 1 => quit[c] = <<>>)

(* While the handler runs, the first signal is in the buffer and carries a *)
(* result, or nothing has been signalled yet and each program's next       *)
(* signal is its result.                                                   *)
SignalInv(c) == handler[c] # "done" =>
  /\ quit[c] # <<>> => \E p \in Programs : Head(quit[c]) = outcome[c][p]
  /\ quit[c] = <<>> =>
       /\ handler[c] = "exec0" => outcome[c]["exec"] = 0
       /\ handler[c] = "exec1" => outcome[c]["exec"] = 1
       /\ handler[c] \notin {"exec0", "exec1"} => outcome[c]["exec"] = None
       /\ shell[c] \in {"nohook", "start", "run"} => outcome[c]["shell"] = None
       /\ shell[c] \in {"exit", "eof"} => outcome[c]["shell"] = 0
       /\ shell[c] = "panic" => outcome[c]["shell"] = 1
       /\ sftp[c] = "run" => outcome[c]["sftp"] = None
       /\ sftp[c] = "eof" => outcome[c]["sftp"] = 0
       /\ sftp[c] \in {"trunc", "clean"} => outcome[c]["sftp"] = 1
       /\ scp[c] = "run"  => outcome[c]["scp"] = None
       /\ scp[c] = "ok"   => outcome[c]["scp"] = 0
       /\ scp[c] = "fail" => outcome[c]["scp"] = 1

StatusInv(c) == status[c] # None => \E p \in Programs : status[c] = outcome[c][p]

(* An unopened channel has no queue and no program; a shell has a System.  *)
StartInv(c) ==
  /\ handler[c] = "none" <=> link[c] = "none"
  /\ handler[c] = "none" => reqs[c] = <<>> /\ \A p \in Programs : asked[c][p] = 0
  /\ handler[c] = "shell" => sys # None
  /\ shell[c] # "off" => io[c] \in Channels

(* Only an eager client's resize meets a shell without a terminal.         *)
ResizeInv(c) == ~eager[c] =>
  /\ handler[c] = "shell" \/ shell[c] \in {"start", "nohook"} => ~Queued(reqs[c], "resize")
  /\ \A i, j \in 1..Len(reqs[c]) :
       reqs[c][i] = "resize" /\ reqs[c][j] = "shell" => i < j

ChannelInv(c) ==
  QueueInv(c) /\ PlaceInv(c) /\ SignalInv(c) /\ StatusInv(c) /\ StartInv(c) /\ ResizeInv(c)

(* What is found where the process went down.                              *)
CrashedAt(c) ==
  \/ handler[c] = "short" /\ "payload" \in Faults
  \/ shell[c] = "nolog" /\ "hook" \in Faults
  \/ scp[c] = "nofile" /\ "scp" \in Faults
  \/ handler[c] = "noterm" /\ eager[c] /\ BeforePrompt(c)

HookInv == \A c \in Channels : shell[c] = "nohook" => "hook" \in Faults

IInv ==
  /\ TypeOK /\ HookInv
  /\ \A c \in Channels : ChannelInv(c)
  /\ up \/ \E c \in Channels : CrashedAt(c)

-----------------------------------------------------------------------------
(* The steps of a channel, named one by one.                               *)
LEMMA NextSplit ==
  ASSUME Next
  PROVE  \E c \in Channels :
           \/ ClientOpen(c) \/ ClientEOF(c) \/ ClientClose(c)
           \/ \E r \in RequestKinds : ClientRequest(c, r)
           \/ \E i \in Inputs : ClientInput(c, i)
           \/ TakePty(c) \/ TakeOther(c) \/ TakeShell(c) \/ StartShell(c)
           \/ TakeSftp(c) \/ TakeScp(c) \/ TakeExec(c) \/ TakeResize(c)
           \/ ExecSignal(c) \/ RequestsClosed(c) \/ TakeQuit(c)
           \/ ShellBoot(c) \/ ShellLine(c) \/ ShellEOF(c)
           \/ ShellReadError(c) \/ ShellSignal(c)
           \/ SftpPacket(c) \/ SftpEOF(c) \/ SftpSignal(c)
           \/ ScpFinish(c) \/ ScpCrash(c) \/ ScpSignal(c)
BY DEF Next, Client, Handler, Shell, Sftp, Scp

(* The variables start with their types and every step keeps them.         *)
LEMMA TypeInit == Init => TypeOK
BY ConstantsAssumption, SMT
DEF Init, TypeOK, ConstantsAssumption, HandlerPCs, ShellPCs, SftpPCs, ScpPCs, Codes

LEMMA TypeStep ==
  ASSUME TypeOK, [Next]_vars
  PROVE  TypeOK'
<1> USE ConstantsAssumption DEF ConstantsAssumption, TypeOK
<1>1. CASE UNCHANGED vars
  BY <1>1 DEF vars, clientVars, progVars
<1>2. ASSUME NEW c \in Channels,
             \/ ClientOpen(c) \/ ClientEOF(c) \/ ClientClose(c)
             \/ \E r \in RequestKinds : ClientRequest(c, r)
             \/ \E i \in Inputs : ClientInput(c, i)
      PROVE  TypeOK'
  <2>1. CASE ClientOpen(c)
    BY <2>1 DEF ClientOpen, progVars, HandlerPCs
  <2>2. CASE ClientEOF(c)
    BY <2>2 DEF ClientEOF, progVars
  <2>3. CASE ClientClose(c)
    BY <2>3 DEF ClientClose, progVars
  <2>4. ASSUME NEW r \in RequestKinds, ClientRequest(c, r) PROVE TypeOK'
    <3>1. asked' \in [Channels -> [Programs -> Nat]]
      <4>1. CASE r \in Programs
        <5>1. asked[c][r] + 1 \in Nat
          BY <4>1
        <5>2. [asked[c] EXCEPT ![r] = asked[c][r] + 1] \in [Programs -> Nat]
          BY <4>1, <5>1
        <5>3. asked' = [asked EXCEPT ![c] = [asked[c] EXCEPT ![r] = asked[c][r] + 1]]
          BY <2>4, <4>1 DEF ClientRequest
        <5> QED  BY <5>2, <5>3
      <4> QED  BY <2>4, <4>1 DEF ClientRequest
    <3>2. eager' \in [Channels -> BOOLEAN]
      BY <2>4 DEF ClientRequest, BeforePrompt
    <3> QED  BY <2>4, <3>1, <3>2 DEF ClientRequest, progVars
  <2>5. ASSUME NEW i \in Inputs, ClientInput(c, i) PROVE TypeOK'
    BY <2>5 DEF ClientInput, progVars
  <2> QED  BY <1>2, <2>1, <2>2, <2>3, <2>4, <2>5
<1>8. ASSUME NEW c \in Channels, NEW p \in Programs, NEW r \in {0, 1, Lost}, Conclude(c, p, r)
      PROVE  outcome' \in [Channels -> [Programs -> Codes \cup {None, Lost}]]
  <2>1. outcome \in [Channels -> [Programs -> Codes \cup {None, Lost}]]
    OBVIOUS
  <2>2. r \in Codes \cup {None, Lost}
    BY DEF Codes
  <2> HIDE DEF TypeOK, ConstantsAssumption
  <2>3. [outcome[c] EXCEPT ![p] = r] \in [Programs -> Codes \cup {None, Lost}]
    BY <2>1, <2>2
  <2>4. outcome' = outcome \/ outcome' = [outcome EXCEPT ![c] = [outcome[c] EXCEPT ![p] = r]]
    BY <1>8 DEF Conclude
  <2> QED  BY <2>1, <2>3, <2>4
<1>3. ASSUME NEW c \in Channels, NEW r, Take(c, r)
      PROVE  reqs' \in [Channels -> Seq(RequestKinds)]
  BY <1>3 DEF Take
<1>4. ASSUME NEW c \in Channels,
             \/ TakePty(c) \/ TakeOther(c) \/ TakeShell(c) \/ StartShell(c)
             \/ TakeSftp(c) \/ TakeScp(c) \/ TakeExec(c) \/ TakeResize(c)
      PROVE  TypeOK'
  <2>1. CASE TakePty(c)
    BY <2>1, <1>3 DEF TakePty, clientVars, progVars
  <2>2. CASE TakeOther(c)
    BY <2>2, <1>3 DEF TakeOther, clientVars, progVars, HandlerPCs
  <2>3. CASE TakeShell(c)
    BY <2>3, <1>3 DEF TakeShell, clientVars, progVars, HandlerPCs
  <2>4. CASE StartShell(c)
    BY <2>4 DEF StartShell, clientVars, HandlerPCs, ShellPCs
  <2>5. CASE TakeSftp(c)
    BY <2>5, <1>3 DEF TakeSftp, clientVars, SftpPCs
  <2>6. CASE TakeScp(c)
    BY <2>6, <1>3 DEF TakeScp, clientVars, ScpPCs
  <2>7. CASE TakeExec(c)
    <3>1. outcome' \in [Channels -> [Programs -> Codes \cup {None, Lost}]]
      BY <2>7, <1>8 DEF TakeExec, Codes, Programs
    <3> QED  BY <2>7, <1>3, <3>1 DEF TakeExec, clientVars, HandlerPCs
  <2>8. CASE TakeResize(c)
    BY <2>8, <1>3 DEF TakeResize, clientVars, progVars, HandlerPCs
  <2> QED  BY <1>4, <2>1, <2>2, <2>3, <2>4, <2>5, <2>6, <2>7, <2>8
<1>5. ASSUME NEW c \in Channels, NEW code \in Codes, Signal(c, code)
      PROVE  quit' \in [Channels -> Seq(Codes)]
  BY <1>5 DEF Signal
<1>6. ASSUME NEW c \in Channels,
             ExecSignal(c) \/ ShellSignal(c) \/ SftpSignal(c) \/ ScpSignal(c)
      PROVE  TypeOK'
  <2>1. CASE ExecSignal(c)
    BY <2>1, <1>5 DEF ExecSignal, clientVars, progVars, HandlerPCs, Codes, Signal
  <2>2. CASE ShellSignal(c)
    BY <2>2, <1>5 DEF ShellSignal, clientVars, ShellPCs, Codes, Signal
  <2>3. CASE SftpSignal(c)
    BY <2>3, <1>5 DEF SftpSignal, clientVars, SftpPCs, Codes, Signal
  <2>4. CASE ScpSignal(c)
    BY <2>4, <1>5 DEF ScpSignal, clientVars, ScpPCs, Codes, Signal
  <2> QED  BY <1>6, <2>1, <2>2, <2>3, <2>4
<1>9. ASSUME NEW c \in Channels, ReadLine(c)
      PROVE  stdin' \in [Channels -> Seq(Inputs)]
  <2>1. io[c] \in Channels => stdin' \in [Channels -> Seq(Inputs)]
    BY <1>9 DEF ReadLine
  <2>2. io[c] \notin Channels => stdin' = stdin
    BY <1>9 DEF ReadLine
  <2> QED  BY <2>1, <2>2
<1>7. ASSUME NEW c \in Channels,
             \/ RequestsClosed(c) \/ TakeQuit(c)
             \/ ShellBoot(c) \/ ShellLine(c) \/ ShellEOF(c) \/ ShellReadError(c)
             \/ SftpPacket(c) \/ SftpEOF(c) \/ ScpFinish(c) \/ ScpCrash(c)
      PROVE  TypeOK'
  <2>1. CASE RequestsClosed(c)
    BY <2>1 DEF RequestsClosed, clientVars, progVars, HandlerPCs
  <2>2. CASE TakeQuit(c)
    BY <2>2 DEF TakeQuit, clientVars, progVars, HandlerPCs
  <2>3. CASE ShellBoot(c)
    BY <2>3 DEF ShellBoot, clientVars, ShellPCs
  <2>4. CASE ShellLine(c)
    <3>1. stdin' \in [Channels -> Seq(Inputs)]
      BY <2>4, <1>9 DEF ShellLine
    <3>2. outcome' \in [Channels -> [Programs -> Codes \cup {None, Lost}]]
      BY <2>4, <1>8 DEF ShellLine, Programs
    <3> QED  BY <2>4, <3>1, <3>2 DEF ShellLine, clientVars, ShellPCs
  <2>5. CASE ShellEOF(c)
    <3>1. stdin' \in [Channels -> Seq(Inputs)]
      BY <2>5, <1>9 DEF ShellEOF, ReadsEOF
    <3>2. outcome' \in [Channels -> [Programs -> Codes \cup {None, Lost}]]
      BY <2>5, <1>8 DEF ShellEOF, Programs
    <3> QED  BY <2>5, <3>1, <3>2 DEF ShellEOF, clientVars, ShellPCs
  <2>6. CASE ShellReadError(c)
    <3>1. stdin' \in [Channels -> Seq(Inputs)]
      BY <2>6, <1>9 DEF ShellReadError
    <3>2. outcome' \in [Channels -> [Programs -> Codes \cup {None, Lost}]]
      BY <2>6, <1>8 DEF ShellReadError, Programs
    <3> QED  BY <2>6, <3>1, <3>2 DEF ShellReadError, clientVars, ShellPCs
  <2>7. CASE SftpPacket(c)
    <3>1. stdin' \in [Channels -> Seq(Inputs)]
      BY <2>7 DEF SftpPacket
    <3>2. sftp' \in [Channels -> SftpPCs]
      BY <2>7 DEF SftpPacket, SftpPCs
    <3> QED  BY <2>7, <3>1, <3>2, <1>8 DEF SftpPacket, clientVars, Programs
  <2>8. CASE SftpEOF(c)
    BY <2>8, <1>8 DEF SftpEOF, clientVars, SftpPCs, Programs
  <2>9. CASE ScpFinish(c)
    BY <2>9, <1>8 DEF ScpFinish, clientVars, ScpPCs, Programs
  <2>10. CASE ScpCrash(c)
    BY <2>10 DEF ScpCrash, clientVars, ScpPCs
  <2> QED  BY <1>7, <2>1, <2>2, <2>3, <2>4, <2>5, <2>6, <2>7, <2>8, <2>9, <2>10
<1> QED  BY <1>1, <1>2, <1>4, <1>6, <1>7, NextSplit

(* Every variable keeps its type: TypeOK is inductive by itself.           *)
THEOREM TypeCorrect == Spec => []TypeOK
<1>1. Init => TypeOK
  BY TypeInit
<1>2. TypeOK /\ [Next]_vars => TypeOK'
  BY TypeStep
<1> QED  BY <1>1, <1>2, PTL DEF Spec

-----------------------------------------------------------------------------
(* What the steps on one channel do to the others.                         *)

SameAt(d) ==
  /\ link'[d] = link[d] /\ asked'[d] = asked[d] /\ eager'[d] = eager[d]
  /\ reqs'[d] = reqs[d] /\ handler'[d] = handler[d] /\ quit'[d] = quit[d]
  /\ io'[d] = io[d] /\ shell'[d] = shell[d] /\ sftp'[d] = sftp[d] /\ scp'[d] = scp[d]
  /\ outcome'[d] = outcome[d] /\ status'[d] = status[d]
  /\ sys # None => sys' # None

LEMMA SameAtKeeps ==
  ASSUME NEW d \in Channels, ChannelInv(d), SameAt(d)
  PROVE  ChannelInv(d)'
BY DEF SameAt, ChannelInv, QueueInv, PlaceInv, SignalInv, StatusInv, StartInv, ResizeInv,
       Begun, Asked

(* A conclusion sets one result, and only if there is none.                *)
LEMMA ConcludeAt ==
  ASSUME TypeOK, NEW c \in Channels, NEW p \in Programs, NEW r, Conclude(c, p, r)
  PROVE  /\ outcome'[c][p] = IF outcome[c][p] = None THEN r ELSE outcome[c][p]
         /\ \A q \in Programs \ {p} : outcome'[c][q] = outcome[c][q]
         /\ \A q \in Programs : outcome[c][q] # None => outcome'[c][q] = outcome[c][q]
         /\ \A d \in Channels \ {c} : outcome'[d] = outcome[d]
BY DEF Conclude, TypeOK

LEMMA OthersSame ==
  ASSUME TypeOK, NEW c \in Channels, NEW d \in Channels \ {c},
         Client(c) \/ Handler(c) \/ Shell(c) \/ Sftp(c) \/ Scp(c)
  PROVE  SameAt(d)
<1> USE ConstantsAssumption DEF ConstantsAssumption, TypeOK, SameAt
<1>0. ASSUME NEW p \in Programs, NEW r, Conclude(c, p, r)
      PROVE  outcome'[d] = outcome[d]
  BY <1>0, ConcludeAt
<1>1. CASE Client(c)
  BY <1>1 DEF Client, ClientOpen, ClientEOF, ClientClose, ClientRequest, ClientInput, progVars
<1>2. CASE Handler(c)
  <2>1. CASE TakePty(c) \/ TakeOther(c) \/ TakeShell(c)
    BY <2>1 DEF TakePty, TakeOther, TakeShell, Take, clientVars, progVars
  <2>2. CASE StartShell(c) \/ TakeSftp(c) \/ TakeScp(c)
    BY <2>2 DEF StartShell, TakeSftp, TakeScp, Take, clientVars
  <2>3. CASE TakeExec(c)
    <3>1. outcome'[d] = outcome[d]
      BY <2>3, <1>0 DEF TakeExec, Programs
    <3> QED  BY <2>3, <3>1 DEF TakeExec, Take, clientVars
  <2>4. CASE TakeResize(c)
    BY <2>4 DEF TakeResize, Take, clientVars, progVars
  <2>5. CASE ExecSignal(c) \/ RequestsClosed(c) \/ TakeQuit(c)
    BY <2>5 DEF ExecSignal, RequestsClosed, TakeQuit, Signal, clientVars, progVars
  <2> QED  BY <1>2, <2>1, <2>2, <2>3, <2>4, <2>5 DEF Handler
<1>3. CASE Shell(c)
  <2>1. outcome'[d] = outcome[d]
    BY <1>3, <1>0 DEF Shell, ShellBoot, ShellLine, ShellEOF, ShellReadError, ShellSignal, Programs
  <2> QED
    BY <1>3, <2>1 DEF Shell, ShellBoot, ShellLine, ShellEOF, ShellReadError, ShellSignal,
                      Signal, clientVars
<1>4. CASE Sftp(c) \/ Scp(c)
  <2>1. outcome'[d] = outcome[d]
    BY <1>4, <1>0 DEF Sftp, SftpPacket, SftpEOF, SftpSignal, Scp, ScpFinish, ScpCrash,
                      ScpSignal, Programs
  <2> QED
    BY <1>4, <2>1 DEF Sftp, SftpPacket, SftpEOF, SftpSignal, Scp, ScpFinish, ScpCrash, ScpSignal,
                      Signal, clientVars
<1> QED  BY <1>1, <1>2, <1>3, <1>4

-----------------------------------------------------------------------------
(* Queues.                                                                 *)

LEMMA EmptySeq ==
  ASSUME NEW S, NEW q \in Seq(S), Len(q) < 1
  PROVE  q = <<>>
OBVIOUS

(* What is left of a queue when its head is taken, and when r is added.    *)
LEMMA TailAt ==
  ASSUME NEW S, NEW q \in Seq(S), q # <<>>
  PROVE  /\ Len(Tail(q)) = Len(q) - 1 /\ Len(q) \in Nat \ {0}
         /\ \A i \in 1..Len(Tail(q)) : i + 1 \in 1..Len(q) /\ Tail(q)[i] = q[i + 1]
         /\ 1 \in 1..Len(q) /\ q[1] = Head(q)
OBVIOUS

LEMMA AppendAt ==
  ASSUME NEW S, NEW q \in Seq(S), NEW r \in S
  PROVE  /\ Len(Append(q, r)) = Len(q) + 1 /\ Len(q) \in Nat
         /\ \A i \in 1..Len(Append(q, r)) :
              Append(q, r)[i] = IF i = Len(q) + 1 THEN r ELSE q[i]
OBVIOUS

LEMMA QueuedTail ==
  ASSUME NEW S, NEW q \in Seq(S), q # <<>>, NEW p
  PROVE  /\ Queued(Tail(q), p) => Queued(q, p)
         /\ Once(q, p) => Once(Tail(q), p)
         /\ Queued(q, Head(q))
         /\ Once(q, Head(q)) => ~Queued(Tail(q), Head(q))
<1>1. /\ \A i \in 1..Len(Tail(q)) : i + 1 \in 1..Len(q) /\ Tail(q)[i] = q[i + 1]
      /\ 1 \in 1..Len(q) /\ q[1] = Head(q)
  BY TailAt
<1>2. Queued(Tail(q), p) => Queued(q, p)
  BY <1>1 DEF Queued
<1>3. Once(q, p) => Once(Tail(q), p)
  <2> SUFFICES ASSUME Once(q, p),
                      NEW i \in 1..Len(Tail(q)), NEW j \in 1..Len(Tail(q)),
                      Tail(q)[i] = p, Tail(q)[j] = p
               PROVE  i = j
    BY DEF Once
  <2>1. i + 1 = j + 1
    BY <1>1 DEF Once
  <2> QED  BY <2>1
<1>4. Queued(q, Head(q))
  BY <1>1 DEF Queued
<1>5. ASSUME Once(q, Head(q)), NEW i \in 1..Len(Tail(q)), Tail(q)[i] = Head(q)
      PROVE  FALSE
  <2>1. i + 1 = 1
    BY <1>1, <1>5 DEF Once
  <2> QED  BY <2>1
<1> QED  BY <1>2, <1>3, <1>4, <1>5 DEF Queued

LEMMA QueuedAppend ==
  ASSUME NEW S, NEW q \in Seq(S), NEW r \in S, NEW p
  PROVE  /\ Queued(Append(q, r), p) => Queued(q, p) \/ p = r
         /\ ~Queued(q, p) => Once(Append(q, r), p)
         /\ Once(q, p) /\ p # r => Once(Append(q, r), p)
<1>1. /\ Len(Append(q, r)) = Len(q) + 1 /\ Len(q) \in Nat
      /\ \A i \in 1..Len(Append(q, r)) :
           Append(q, r)[i] = IF i = Len(q) + 1 THEN r ELSE q[i]
  BY AppendAt
<1> QED  BY <1>1 DEF Queued, Once

(* The queue part of the invariant when the queue is left alone, and when a *)
(* request is taken from it.                                               *)
LEMMA QueueKept ==
  ASSUME NEW c \in Channels, QueueInv(c), reqs'[c] = reqs[c], asked'[c] = asked[c],
         \A p \in Programs : Begun(c, p)' => Begun(c, p)
  PROVE  QueueInv(c)'
BY DEF QueueInv

LEMMA QueueTail ==
  ASSUME TypeOK, NEW c \in Channels, NEW r, QueueInv(c), Take(c, r), asked'[c] = asked[c],
         \A p \in Programs : p # r /\ Begun(c, p)' => Begun(c, p)
  PROVE  /\ QueueInv(c)'
         /\ r \in Programs =>
              asked[c][r] \in Nat \ {0} /\ (asked[c][r] = 1 => ~Begun(c, r))
<1>1. /\ reqs[c] \in Seq(RequestKinds) /\ reqs[c] # <<>> /\ r = Head(reqs[c])
      /\ reqs'[c] = Tail(reqs[c])
  BY DEF Take, TypeOK
<1>2. \A p \in Programs : asked[c][p] \in Nat
  BY DEF TypeOK
<1>3. Queued(reqs[c], r) /\ (Once(reqs[c], r) => ~Queued(reqs'[c], r))
  BY <1>1, QueuedTail
<1>4. \A p \in Programs : /\ Queued(reqs'[c], p) => Queued(reqs[c], p)
                          /\ Once(reqs[c], p) => Once(reqs'[c], p)
  BY <1>1, QueuedTail
<1>5. r \in Programs => asked[c][r] # 0 /\ (asked[c][r] = 1 => ~Begun(c, r) /\ Once(reqs[c], r))
  BY <1>3 DEF QueueInv
<1>6. ASSUME NEW p \in Programs
      PROVE  /\ asked'[c][p] = 0 => ~Begun(c, p)' /\ ~Queued(reqs'[c], p)
             /\ asked'[c][p] = 1 /\ Queued(reqs'[c], p) => ~Begun(c, p)' /\ Once(reqs'[c], p)
             /\ p # "exec" => asked'[c][p] <= 1
  <2>1. CASE p = r
    BY <1>3, <1>5, <2>1 DEF QueueInv
  <2>2. CASE p # r
    BY <1>4, <2>2 DEF QueueInv
  <2> QED  BY <2>1, <2>2
<1> QED  BY <1>2, <1>5, <1>6 DEF QueueInv

(* The same for the order of resizes and the shell.                        *)
LEMMA ResizeSame ==
  ASSUME NEW c \in Channels, ResizeInv(c), reqs'[c] = reqs[c], eager'[c] = eager[c],
         handler'[c] = "shell" \/ shell'[c] \in {"start", "nohook"} =>
           handler[c] = "shell" \/ shell[c] \in {"start", "nohook"}
  PROVE  ResizeInv(c)'
BY DEF ResizeInv

LEMMA ResizeTail ==
  ASSUME TypeOK, NEW c \in Channels, NEW r, Take(c, r), ResizeInv(c),
         eager'[c] = eager[c], shell'[c] = shell[c], handler'[c] = "shell" => r = "shell"
  PROVE  ResizeInv(c)'
<1> SUFFICES ASSUME ~eager[c] PROVE ResizeInv(c)'
  BY DEF ResizeInv
<1>1. /\ reqs[c] \in Seq(RequestKinds) /\ reqs[c] # <<>> /\ r = Head(reqs[c])
      /\ reqs'[c] = Tail(reqs[c])
  BY DEF Take, TypeOK
<1>2. /\ \A i \in 1..Len(reqs'[c]) : i + 1 \in 1..Len(reqs[c]) /\ reqs'[c][i] = reqs[c][i + 1]
      /\ 1 \in 1..Len(reqs[c]) /\ reqs[c][1] = r
  BY <1>1, TailAt
<1>3. ~Queued(reqs[c], "resize") => ~Queued(reqs'[c], "resize")
  BY <1>1, QueuedTail
<1>4. r = "shell" => ~Queued(reqs'[c], "resize")
  <2> SUFFICES ASSUME r = "shell", NEW i \in 1..Len(reqs'[c]), reqs'[c][i] = "resize"
               PROVE  FALSE
    BY DEF Queued
  <2>1. i + 1 < 1
    BY <1>2 DEF ResizeInv
  <2> QED  BY <2>1
<1>5. ASSUME NEW i \in 1..Len(reqs'[c]), NEW j \in 1..Len(reqs'[c]),
             reqs'[c][i] = "resize", reqs'[c][j] = "shell"
      PROVE  i < j
  <2>1. i + 1 < j + 1
    BY <1>2, <1>5 DEF ResizeInv
  <2> QED  BY <2>1
<1> QED  BY <1>3, <1>4, <1>5 DEF ResizeInv

(* A new request keeps the order: before the prompt a resize is eager.     *)
LEMMA ResizeRequest ==
  ASSUME TypeOK, NEW c \in Channels, ChannelInv(c), NEW r \in RequestKinds, ClientRequest(c, r)
  PROVE  ResizeInv(c)'
<1> SUFFICES ASSUME ~eager'[c] PROVE ResizeInv(c)'
  BY DEF ResizeInv
<1>0. ~eager[c] /\ (r = "resize" => ~BeforePrompt(c))
  BY DEF ClientRequest, TypeOK
<1>1. reqs'[c] = Append(reqs[c], r) /\ reqs[c] \in Seq(RequestKinds)
  BY DEF ClientRequest, TypeOK
<1>2. UNCHANGED <<handler, shell>>
  BY DEF ClientRequest, progVars
<1>3. /\ Len(reqs'[c]) = Len(reqs[c]) + 1 /\ Len(reqs[c]) \in Nat
      /\ \A i \in 1..Len(reqs'[c]) : reqs'[c][i] = IF i = Len(reqs[c]) + 1 THEN r ELSE reqs[c][i]
  BY <1>1, AppendAt
<1>4. Queued(reqs'[c], "resize") => Queued(reqs[c], "resize") \/ r = "resize"
  BY <1>1, QueuedAppend
<1>5. ASSUME NEW i \in 1..Len(reqs'[c]), NEW j \in 1..Len(reqs'[c]),
             reqs'[c][i] = "resize", reqs'[c][j] = "shell", r # "resize"
      PROVE  i < j
  <2>1. i \in 1..Len(reqs[c]) /\ reqs[c][i] = "resize"
    BY <1>3, <1>5
  <2>2. j = Len(reqs[c]) + 1 \/ (j \in 1..Len(reqs[c]) /\ reqs[c][j] = "shell")
    BY <1>3, <1>5
  <2> QED  BY <1>0, <1>3, <2>1, <2>2 DEF ChannelInv, ResizeInv
<1>6. CASE r = "resize"
  <2>1. asked[c]["shell"] \in Nat /\ asked[c]["shell"] <= 1
    BY DEF TypeOK, ChannelInv, QueueInv, Programs
  <2>2. /\ shell[c] \notin {"start", "nohook"} /\ handler[c] # "shell"
        /\ ~Queued(reqs[c], "shell")
    <3>1. CASE asked[c]["shell"] = 0
      BY <3>1 DEF ChannelInv, QueueInv, Begun, Programs
    <3>2. CASE asked[c]["shell"] = 1
      <4>1. shell[c] \notin {"off", "nohook", "start"}
        BY <1>0, <1>6, <3>2 DEF BeforePrompt
      <4>2. Begun(c, "shell")
        BY <4>1 DEF Begun
      <4>3. ~Queued(reqs[c], "shell")
        BY <3>2, <4>2 DEF ChannelInv, QueueInv, Programs
      <4> QED  BY <4>1, <4>3 DEF ChannelInv, PlaceInv
    <3> QED  BY <2>1, <3>1, <3>2
  <2> QED  BY <1>2, <1>3, <1>6, <2>2 DEF ResizeInv, Queued
<1>7. CASE r = "shell"
  <2>1. shell[c] \notin {"start", "nohook"} /\ handler[c] # "shell"
    BY <1>7 DEF ClientRequest, MayRequest, ChannelInv, QueueInv, Begun, Programs
  <2> QED  BY <1>2, <1>7, <1>5, <2>1 DEF ResizeInv
<1>8. CASE r \notin {"resize", "shell"}
  BY <1>0, <1>2, <1>4, <1>5, <1>8 DEF ChannelInv, ResizeInv
<1> QED  BY <1>6, <1>7, <1>8

-----------------------------------------------------------------------------
(* A step on a channel keeps the channel's own invariant.                  *)

(* Where asked, the counts of programs, is left alone or grows.            *)
LEMMA AskedNat ==
  ASSUME TypeOK, NEW c \in Channels
  PROVE  /\ asked[c]["shell"] \in Nat /\ asked[c]["sftp"] \in Nat
         /\ asked[c]["scp"] \in Nat /\ asked[c]["exec"] \in Nat
         /\ Asked(c) \in Nat /\ (\A p \in Programs : asked[c][p] <= Asked(c))
<1>1. asked \in [Channels -> [Programs -> Nat]]
  BY DEF TypeOK
<1>2. /\ asked[c]["shell"] \in Nat /\ asked[c]["sftp"] \in Nat
      /\ asked[c]["scp"] \in Nat /\ asked[c]["exec"] \in Nat
  BY <1>1 DEF Programs
<1>3. /\ Asked(c) \in Nat
      /\ asked[c]["shell"] <= Asked(c) /\ asked[c]["sftp"] <= Asked(c)
      /\ asked[c]["scp"] <= Asked(c) /\ asked[c]["exec"] <= Asked(c)
  BY <1>2 DEF Asked
<1> QED  BY <1>2, <1>3 DEF Programs

LEMMA AskedOne ==
  ASSUME TypeOK, NEW c \in Channels, ChannelInv(c), NEW p \in Programs, Begun(c, p)
  PROVE  asked[c][p] \in Nat \ {0}
BY DEF TypeOK, ChannelInv, QueueInv

(* Two programs that have begun were asked for separately.                 *)
LEMMA AskedTwo ==
  ASSUME TypeOK, NEW c \in Channels, ChannelInv(c),
         NEW p \in Programs, NEW q \in Programs, p # q, Begun(c, p), Begun(c, q)
  PROVE  Asked(c) > 1
<1>1. asked[c][p] \in Nat \ {0} /\ asked[c][q] \in Nat \ {0}
  BY AskedOne
<1> QED  BY <1>1, AskedNat DEF Asked, Programs

LEMMA CodesAre == None \notin Codes /\ Lost \notin Codes /\ Lost # None
BY ConstantsAssumption DEF ConstantsAssumption

(* What has been told, or is in the buffer, stays a result.                *)
LEMMA StatusKept ==
  ASSUME TypeOK, NEW c \in Channels, ChannelInv(c),
         \A q \in Programs : outcome[c][q] # None => outcome'[c][q] = outcome[c][q]
  PROVE  /\ status'[c] = status[c] => StatusInv(c)'
         /\ quit[c] # <<>> /\ handler[c] # "done" =>
              \E p \in Programs : Head(quit[c]) = outcome'[c][p]
<1>1. quit[c] # <<>> => Head(quit[c]) \in Codes
  BY DEF TypeOK
<1> QED  BY <1>1, CodesAre DEF ChannelInv, StatusInv, SignalInv

LEMMA ClientStep ==
  ASSUME TypeOK, NEW c \in Channels, ChannelInv(c), Client(c)
  PROVE  ChannelInv(c)'
<1> USE DEF TypeOK, ChannelInv
<1>1. CASE ClientOpen(c)
  <2>1. /\ reqs'[c] = <<>> /\ asked'[c] = asked[c] /\ \A p \in Programs : asked[c][p] = 0
        /\ handler[c] = "none" /\ handler'[c] = "select" /\ link'[c] = "open"
        /\ eager'[c] = eager[c] /\ reqs'[c] = reqs[c]
    BY <1>1 DEF ClientOpen, StartInv
  <2>2. QueueInv(c)'
    BY <1>1, <2>1, QueueKept DEF ClientOpen, Begun, progVars
  <2>3. ResizeInv(c)'
    BY <1>1, <2>1, ResizeSame DEF ClientOpen, progVars
  <2> QED
    BY <1>1, <2>1, <2>2, <2>3
    DEF ClientOpen, progVars, PlaceInv, SignalInv, StatusInv, StartInv, Asked
<1>2. CASE ClientEOF(c) \/ ClientClose(c) \/ \E i \in Inputs : ClientInput(c, i)
  <2>1. /\ UNCHANGED <<asked, eager, reqs, handler, quit, sys, progVars, status>>
        /\ link'[c] = "none" <=> link[c] = "none"
    BY <1>2 DEF ClientEOF, ClientClose, ClientInput
  <2>2. QueueInv(c)' /\ ResizeInv(c)'
    BY <2>1, QueueKept, ResizeSame DEF Begun, progVars
  <2> QED  BY <2>1, <2>2 DEF progVars, PlaceInv, SignalInv, StatusInv, StartInv, Asked
<1>3. ASSUME NEW r \in RequestKinds, ClientRequest(c, r)
      PROVE  ChannelInv(c)'
  <2>1. ResizeInv(c)'
    BY <1>3, ResizeRequest
  <2>2. reqs'[c] = Append(reqs[c], r) /\ reqs[c] \in Seq(RequestKinds)
    BY <1>3 DEF ClientRequest
  <2>3. \A p \in Programs : asked'[c][p] = IF p = r THEN asked[c][p] + 1 ELSE asked[c][p]
    BY <1>3 DEF ClientRequest
  <2>4. UNCHANGED <<handler, quit, sys, progVars, status, link>> /\ link[c] # "none"
    BY <1>3 DEF ClientRequest
  <2>5. \A p \in Programs : asked[c][p] \in Nat
    OBVIOUS
  <2>6. ASSUME NEW p \in Programs
        PROVE  /\ asked'[c][p] = 0 => ~Begun(c, p)' /\ ~Queued(reqs'[c], p)
               /\ asked'[c][p] = 1 /\ Queued(reqs'[c], p) => ~Begun(c, p)' /\ Once(reqs'[c], p)
               /\ p # "exec" => asked'[c][p] <= 1
    <3>1. Begun(c, p)' <=> Begun(c, p)
      BY <2>4 DEF Begun, progVars
    <3>2. /\ Queued(reqs'[c], p) => Queued(reqs[c], p) \/ p = r
          /\ ~Queued(reqs[c], p) => Once(reqs'[c], p)
          /\ Once(reqs[c], p) /\ p # r => Once(reqs'[c], p)
      BY <2>2, QueuedAppend
    <3>3. CASE p # r
      BY <2>3, <2>5, <3>1, <3>2, <3>3 DEF QueueInv
    <3>4. CASE p = r
      <4>1. p # "exec" => asked[c][p] = 0
        BY <1>3, <3>4 DEF ClientRequest, MayRequest
      <4>2. asked'[c][p] = asked[c][p] + 1
        BY <2>3, <3>4
      <4>3. asked'[c][p] = 1 => asked[c][p] = 0
        BY <2>5, <4>2
      <4> QED  BY <2>5, <3>1, <3>2, <4>1, <4>2, <4>3 DEF QueueInv
    <3> QED  BY <3>3, <3>4
  <2>7. Asked(c)' <= 1 => Asked(c) <= 1
    BY <2>3, <2>5 DEF Asked, Programs
  <2>8. QueueInv(c)'
    BY <2>6 DEF QueueInv
  <2>9. PlaceInv(c)' /\ SignalInv(c)' /\ StatusInv(c)'
    BY <2>4, <2>7 DEF PlaceInv, SignalInv, StatusInv, progVars
  <2>10. StartInv(c)'
    BY <2>4 DEF StartInv, progVars
  <2> QED  BY <2>1, <2>8, <2>9, <2>10
<1> QED  BY <1>1, <1>2, <1>3 DEF Client

(* A send on quitSignal finds the buffer empty and leaves one value in it. *)
LEMMA SignalFills ==
  ASSUME TypeOK, NEW c \in Channels, NEW code \in Codes, Signal(c, code)
  PROVE  quit[c] = <<>> /\ quit'[c] # <<>> /\ Head(quit'[c]) = code
<1>1. quit[c] \in Seq(Codes) /\ Len(quit[c]) < 1 /\ quit'[c] = Append(quit[c], code)
  BY DEF Signal, TypeOK, QuitCap
<1>2. quit[c] = <<>>
  BY <1>1, EmptySeq
<1>3. Append(quit[c], code) # <<>> /\ Append(quit[c], code)[1] = code
  BY <1>1, <1>2
<1> QED  BY <1>1, <1>2, <1>3

(* Before its only program has begun a channel has seen no signal.         *)
LEMMA QuietBefore ==
  ASSUME TypeOK, NEW c \in Channels, ChannelInv(c), handler[c] = "select",
         asked[c]["exec"] \in Nat \ {0}, asked[c]["exec"] = 1 => ~Begun(c, "exec"),
         Asked(c) <= 1
  PROVE  quit[c] = <<>>
<1> DEFINE a == asked[c]["shell"]
           b == asked[c]["sftp"]
           d == asked[c]["scp"]
           e == asked[c]["exec"]
<1>0. a \in Nat /\ b \in Nat /\ d \in Nat /\ e \in Nat \ {0} /\ a + b + d + e <= 1
  BY AskedNat DEF Asked
<1>1. a = 0 /\ b = 0 /\ d = 0 /\ e = 1
  <2> HIDE DEF a, b, d, e
  <2> QED  BY <1>0
<1>2. \A p \in Programs : ~Begun(c, p)
  BY <1>1 DEF ChannelInv, QueueInv, Programs
<1>3. \A p \in Programs : outcome[c][p] = None
  BY <1>2 DEF ChannelInv, PlaceInv, Begun, Programs
<1>4. quit[c] # <<>> => Head(quit[c]) \in Codes
  BY DEF TypeOK
<1> QED  BY <1>3, <1>4, CodesAre DEF ChannelInv, SignalInv

LEMMA TakeStep ==
  ASSUME TypeOK, NEW c \in Channels, ChannelInv(c), NEW r, Take(c, r),
         \/ TakePty(c) \/ TakeOther(c) \/ TakeShell(c)
         \/ TakeSftp(c) \/ TakeScp(c) \/ TakeExec(c) \/ TakeResize(c)
  PROVE  ChannelInv(c)'
<1> USE DEF TypeOK, ChannelInv
<1>1. CASE TakePty(c) \/ TakeOther(c) \/ TakeResize(c)
  <2>1. /\ UNCHANGED <<clientVars, quit, progVars, status>> /\ (sys # None => sys' # None)
        /\ handler[c] = "select" /\ handler'[c] \in {"select", "short", "noterm"}
    BY <1>1, ConstantsAssumption DEF TakePty, TakeOther, TakeResize, Take, ConstantsAssumption
  <2>2. QueueInv(c)' /\ ResizeInv(c)'
    BY <2>1, QueueTail, ResizeTail DEF Begun, clientVars, progVars
  <2> QED
    BY <2>1, <2>2 DEF clientVars, progVars, PlaceInv, SignalInv, StatusInv, StartInv
<1>2. CASE TakeShell(c)
  <2>1. /\ UNCHANGED <<clientVars, quit, progVars, status>> /\ sys' # None
        /\ handler[c] = "select" /\ handler'[c] = "shell" /\ Take(c, "shell")
    BY <1>2, ConstantsAssumption DEF TakeShell, Take, ConstantsAssumption
  <2>2. QueueInv(c)' /\ asked[c]["shell"] # 0 /\ (asked[c]["shell"] = 1 => ~Begun(c, "shell"))
    BY <2>1, QueueTail DEF Begun, clientVars, progVars, Programs
  <2>3. asked[c]["shell"] = 1
    <3>1. asked[c]["shell"] <= 1
      BY DEF QueueInv, Programs
    <3>2. asked[c]["shell"] \in Nat
      BY AskedNat
    <3>3. \A n \in Nat : n <= 1 /\ n # 0 => n = 1
      OBVIOUS
    <3> QED  BY <2>2, <3>1, <3>2, <3>3, Zenon
  <2>4. shell[c] = "off"
    BY <2>2, <2>3 DEF Begun
  <2>5. ResizeInv(c)'
    BY <2>1, ResizeTail DEF clientVars, progVars
  <2> QED
    BY <2>1, <2>2, <2>4, <2>5 DEF clientVars, progVars, PlaceInv, SignalInv, StatusInv, StartInv
<1>3. CASE TakeSftp(c)
  <2>1. /\ UNCHANGED <<clientVars, quit, handler, sys, io, shell, scp, outcome, status>>
        /\ sftp'[c] = "run" /\ Take(c, "sftp") /\ handler[c] = "select"
    BY <1>3 DEF TakeSftp, Take
  <2>2. QueueInv(c)' /\ asked[c]["sftp"] # 0 /\ (asked[c]["sftp"] = 1 => ~Begun(c, "sftp"))
    BY <2>1, QueueTail DEF Begun, clientVars, Programs
  <2>3. asked[c]["sftp"] = 1
    <3>1. asked[c]["sftp"] <= 1
      BY DEF QueueInv, Programs
    <3>2. asked[c]["sftp"] \in Nat
      BY AskedNat
    <3>3. \A n \in Nat : n <= 1 /\ n # 0 => n = 1
      OBVIOUS
    <3> QED  BY <2>2, <3>1, <3>2, <3>3, Zenon
  <2>4. outcome[c]["sftp"] = None
    BY <2>2, <2>3 DEF Begun, PlaceInv
  <2>5. ResizeInv(c)'
    BY <2>1, ResizeTail DEF clientVars
  <2> QED
    BY <2>1, <2>2, <2>4, <2>5 DEF clientVars, PlaceInv, SignalInv, StatusInv, StartInv
<1>4. CASE TakeScp(c)
  <2>1. /\ UNCHANGED <<clientVars, quit, handler, sys, io, shell, sftp, outcome, status>>
        /\ scp'[c] = "run" /\ Take(c, "scp") /\ handler[c] = "select"
    BY <1>4 DEF TakeScp, Take
  <2>2. QueueInv(c)' /\ asked[c]["scp"] # 0 /\ (asked[c]["scp"] = 1 => ~Begun(c, "scp"))
    BY <2>1, QueueTail DEF Begun, clientVars, Programs
  <2>3. asked[c]["scp"] = 1
    <3>1. asked[c]["scp"] <= 1
      BY DEF QueueInv, Programs
    <3>2. asked[c]["scp"] \in Nat
      BY AskedNat
    <3>3. \A n \in Nat : n <= 1 /\ n # 0 => n = 1
      OBVIOUS
    <3> QED  BY <2>2, <3>1, <3>2, <3>3, Zenon
  <2>4. outcome[c]["scp"] = None
    BY <2>2, <2>3 DEF Begun, PlaceInv
  <2>5. ResizeInv(c)'
    BY <2>1, ResizeTail DEF clientVars
  <2> QED
    BY <2>1, <2>2, <2>4, <2>5 DEF clientVars, PlaceInv, SignalInv, StatusInv, StartInv
<1>5. CASE TakeExec(c)
  <2>1. /\ UNCHANGED <<clientVars, quit, sys, shell, sftp, scp, status>>
        /\ Take(c, "exec") /\ handler[c] = "select"
        /\ handler'[c] \in {"exec0", "exec1"}
    BY <1>5 DEF TakeExec, Take
  <2>2. Conclude(c, "exec", IF handler'[c] = "exec0" THEN 0 ELSE 1)
    BY <1>5 DEF TakeExec, Take, Codes
  <2>3. /\ outcome'[c]["exec"] = IF outcome[c]["exec"] # None THEN outcome[c]["exec"]
                                 ELSE IF handler'[c] = "exec0" THEN 0 ELSE 1
        /\ \A q \in Programs \ {"exec"} : outcome'[c][q] = outcome[c][q]
        /\ \A q \in Programs : outcome[c][q] # None => outcome'[c][q] = outcome[c][q]
    BY <2>2, ConcludeAt DEF Programs
  <2>4. /\ QueueInv(c)' /\ asked[c]["exec"] \in Nat \ {0}
        /\ asked[c]["exec"] = 1 => ~Begun(c, "exec")
    BY <2>1, QueueTail DEF Begun, clientVars, Programs
  <2>5. Asked(c)' <= 1 => quit'[c] = <<>>
    BY <2>1, <2>4, QuietBefore DEF clientVars, Asked
  <2>6. outcome'[c]["exec"] # None
    BY <2>3, CodesAre DEF Codes
  <2>7. PlaceInv(c)'
    BY <2>1, <2>3, <2>5, <2>6 DEF PlaceInv, Programs
  <2>8. StatusInv(c)' /\ (quit'[c] # <<>> => \E p \in Programs : Head(quit'[c]) = outcome'[c][p])
    BY <2>1, <2>3, StatusKept
  <2>9. SignalInv(c)'
    BY <2>1, <2>3, <2>8 DEF SignalInv, Programs
  <2>10. ResizeInv(c)'
    BY <2>1, ResizeTail DEF clientVars
  <2>11. StartInv(c)'
    BY <1>5, <2>1 DEF TakeExec, clientVars, StartInv
  <2> QED  BY <2>4, <2>7, <2>8, <2>9, <2>10, <2>11
<1> QED  BY <1>1, <1>2, <1>3, <1>4, <1>5

LEMMA HandlerStep ==
  ASSUME TypeOK, NEW c \in Channels, ChannelInv(c), Handler(c)
  PROVE  ChannelInv(c)'
<1> USE DEF TypeOK, ChannelInv
<1>1. CASE \/ TakePty(c) \/ TakeOther(c) \/ TakeShell(c)
           \/ TakeSftp(c) \/ TakeScp(c) \/ TakeExec(c) \/ TakeResize(c)
  <2>1. \E r : Take(c, r)
    BY <1>1 DEF TakePty, TakeOther, TakeShell, TakeSftp, TakeScp, TakeExec, TakeResize
  <2> QED  BY <1>1, <2>1, TakeStep
<1>2. CASE StartShell(c)
  <2>1. /\ UNCHANGED <<clientVars, reqs, quit, sys, sftp, scp, outcome, status>>
        /\ handler[c] = "shell" /\ handler'[c] = "select" /\ shell'[c] \in {"start", "nohook"}
        /\ shell[c] = "off" /\ io'[c] = sys
    BY <1>2 DEF StartShell, PlaceInv
  <2>2. QueueInv(c)'
    BY <2>1, QueueKept DEF Begun, clientVars
  <2>3. ResizeInv(c)'
    BY <2>1, ResizeSame DEF clientVars
  <2> QED  BY <2>1, <2>2, <2>3 DEF clientVars, PlaceInv, SignalInv, StatusInv, StartInv
<1>3. CASE ExecSignal(c)
  <2>1. /\ UNCHANGED <<clientVars, reqs, sys, progVars, status>>
        /\ handler[c] \in {"exec0", "exec1"} /\ handler'[c] = "select"
    BY <1>3 DEF ExecSignal
  <2>2. /\ quit[c] = <<>> /\ quit'[c] # <<>>
        /\ Head(quit'[c]) = IF handler[c] = "exec0" THEN 0 ELSE 1
    BY <1>3, SignalFills DEF ExecSignal, Codes
  <2>3. Head(quit'[c]) = outcome[c]["exec"]
    BY <2>1, <2>2 DEF SignalInv
  <2>4. QueueInv(c)' /\ ResizeInv(c)'
    BY <2>1, QueueKept, ResizeSame DEF Begun, clientVars, progVars
  <2>5. SignalInv(c)'
    BY <2>1, <2>2, <2>3 DEF SignalInv, Programs, progVars
  <2> QED
    BY <2>1, <2>4, <2>5 DEF clientVars, progVars, PlaceInv, StatusInv, StartInv
<1>4. CASE RequestsClosed(c)
  <2>1. /\ UNCHANGED <<clientVars, reqs, quit, sys, progVars, status>>
        /\ handler[c] = "select" /\ handler'[c] = "done"
    BY <1>4 DEF RequestsClosed
  <2>2. QueueInv(c)' /\ ResizeInv(c)'
    BY <2>1, QueueKept, ResizeSame DEF Begun, clientVars, progVars
  <2> QED
    BY <2>1, <2>2 DEF clientVars, progVars, PlaceInv, SignalInv, StatusInv, StartInv
<1>5. CASE TakeQuit(c)
  <2>1. /\ UNCHANGED <<clientVars, reqs, sys, progVars>> /\ quit[c] # <<>>
        /\ handler[c] = "select" /\ handler'[c] = "done"
        /\ status'[c] = status[c] \/ status'[c] = Head(quit[c])
    BY <1>5 DEF TakeQuit
  <2>2. QueueInv(c)' /\ ResizeInv(c)'
    BY <2>1, QueueKept, ResizeSame DEF Begun, clientVars, progVars
  <2>3. StatusInv(c)'
    BY <2>1 DEF StatusInv, SignalInv, progVars
  <2> QED
    BY <2>1, <2>2, <2>3 DEF clientVars, progVars, PlaceInv, SignalInv, StartInv
<1> QED  BY <1>1, <1>2, <1>3, <1>4, <1>5 DEF Handler

(* A program comes to an end, or to its next signal: no queue is touched   *)
(* and no other result.                                                    *)
LEMMA ProgramKeeps ==
  ASSUME TypeOK, NEW c \in Channels, ChannelInv(c),
         UNCHANGED <<clientVars, reqs, handler, sys, io, status>>,
         \A p \in Programs : Begun(c, p)' <=> Begun(c, p),
         shell'[c] # shell[c] => shell[c] # "off" /\ shell'[c] \notin {"start", "nohook"},
         \A q \in Programs : outcome[c][q] # None => outcome'[c][q] = outcome[c][q]
  PROVE  QueueInv(c)' /\ StatusInv(c)' /\ StartInv(c)' /\ ResizeInv(c)'
<1> USE DEF ChannelInv
<1>1. QueueInv(c)'
  BY QueueKept DEF clientVars
<1>2. StatusInv(c)'
  BY StatusKept
<1>3. ResizeInv(c)'
  BY ResizeSame DEF clientVars
<1>4. StartInv(c)'
  BY DEF StartInv, clientVars
<1> QED  BY <1>1, <1>2, <1>3, <1>4

LEMMA ShellStep ==
  ASSUME TypeOK, NEW c \in Channels, ChannelInv(c), Shell(c)
  PROVE  ChannelInv(c)'
<1> USE DEF TypeOK, ChannelInv
<1>1. CASE ShellBoot(c)
  <2>1. /\ UNCHANGED <<clientVars, reqs, handler, sys, io, status, quit, sftp, scp, outcome>>
        /\ shell[c] \in {"nohook", "start"} /\ shell'[c] \in {"run", "nolog"}
    BY <1>1 DEF ShellBoot
  <2>2. QueueInv(c)' /\ StatusInv(c)' /\ StartInv(c)' /\ ResizeInv(c)'
    <3>1. \A p \in Programs : Begun(c, p)' <=> Begun(c, p)
      BY <2>1 DEF Begun
    <3> QED  BY <2>1, <3>1, ProgramKeeps
  <2>3. handler[c] # "shell"
    BY <2>1 DEF PlaceInv
  <2> QED  BY <2>1, <2>2, <2>3 DEF PlaceInv, SignalInv, Asked, clientVars
<1>2. CASE ShellLine(c) \/ ShellEOF(c) \/ ShellReadError(c)
  <2>1. /\ UNCHANGED <<clientVars, reqs, handler, sys, io, status, quit, sftp, scp>>
        /\ shell[c] = "run"
    BY <1>2 DEF ShellLine, ShellEOF, ShellReadError
  <2>2. CASE UNCHANGED <<shell, outcome>>
    <3>1. \A p \in Programs : Begun(c, p)' <=> Begun(c, p)
      BY <2>1, <2>2 DEF Begun
    <3>2. QueueInv(c)' /\ StatusInv(c)' /\ StartInv(c)' /\ ResizeInv(c)'
      BY <2>1, <2>2, <3>1, ProgramKeeps
    <3> QED  BY <2>1, <2>2, <3>2 DEF PlaceInv, SignalInv, Asked, clientVars
  <2>3. ASSUME NEW r, Conclude(c, "shell", r),
               \/ r = 0 /\ shell'[c] \in {"exit", "eof"}
               \/ r = 1 /\ shell'[c] = "panic"
               \/ r = Lost /\ shell'[c] = "done"
        PROVE  ChannelInv(c)'
    <3>1. /\ outcome'[c]["shell"] = IF outcome[c]["shell"] = None THEN r ELSE outcome[c]["shell"]
          /\ \A q \in Programs \ {"shell"} : outcome'[c][q] = outcome[c][q]
          /\ \A q \in Programs : outcome[c][q] # None => outcome'[c][q] = outcome[c][q]
      BY <2>3, ConcludeAt DEF Programs
    <3>2. \A p \in Programs : Begun(c, p)' <=> Begun(c, p)
      BY <2>1, <2>3, <3>1 DEF Begun, Programs
    <3>3. QueueInv(c)' /\ StatusInv(c)' /\ StartInv(c)' /\ ResizeInv(c)'
      BY <2>1, <2>3, <3>1, <3>2, ProgramKeeps
    <3>4. PlaceInv(c)'
      BY <2>1, <2>3, <3>1 DEF PlaceInv, Asked, clientVars, Programs
    <3>5. handler[c] # "done" /\ quit[c] # <<>> =>
            \E p \in Programs : Head(quit[c]) = outcome'[c][p]
      BY <3>1, StatusKept
    <3>6. SignalInv(c)'
      BY <2>1, <2>3, <3>1, <3>5 DEF SignalInv, Programs
    <3> QED  BY <3>3, <3>4, <3>6
  <2> QED  BY <1>2, <2>1, <2>2, <2>3 DEF ShellLine, ShellEOF, ShellReadError
<1>3. CASE ShellSignal(c)
  <2>1. /\ UNCHANGED <<clientVars, reqs, handler, sys, io, status, sftp, scp, outcome>>
        /\ shell[c] \in {"exit", "eof", "panic"} /\ shell'[c] \in {"run", "done"}
    BY <1>3 DEF ShellSignal
  <2>2. /\ quit[c] = <<>> /\ quit'[c] # <<>>
        /\ Head(quit'[c]) = IF shell[c] = "panic" THEN 1 ELSE 0
    BY <1>3, SignalFills DEF ShellSignal, Codes
  <2>3. \A p \in Programs : Begun(c, p)' <=> Begun(c, p)
    BY <2>1 DEF Begun
  <2>4. QueueInv(c)' /\ StatusInv(c)' /\ StartInv(c)' /\ ResizeInv(c)'
    BY <2>1, <2>3, ProgramKeeps
  <2>5. handler[c] # "done" => Head(quit'[c]) = outcome'[c]["shell"]
    BY <2>1, <2>2 DEF SignalInv
  <2>6. handler[c] \in {"exec0", "exec1"} => Asked(c) > 1
    BY <2>1, AskedTwo DEF Begun, PlaceInv, Programs
  <2>7. handler[c] \in {"exec0", "exec1"} => ~(Asked(c) <= 1)
    BY <2>6, AskedNat
  <2> QED  BY <2>1, <2>2, <2>4, <2>5, <2>7 DEF PlaceInv, SignalInv, Asked, clientVars, Programs
<1> QED  BY <1>1, <1>2, <1>3 DEF Shell

LEMMA SftpStep ==
  ASSUME TypeOK, NEW c \in Channels, ChannelInv(c), Sftp(c)
  PROVE  ChannelInv(c)'
<1> USE DEF TypeOK, ChannelInv
<1>1. CASE SftpPacket(c) \/ SftpEOF(c)
  <2>1. /\ UNCHANGED <<clientVars, reqs, handler, sys, io, status, quit, shell, scp>>
        /\ sftp[c] = "run"
    BY <1>1 DEF SftpPacket, SftpEOF
  <2>2. CASE UNCHANGED <<sftp, outcome>>
    <3>1. \A p \in Programs : Begun(c, p)' <=> Begun(c, p)
      BY <2>1, <2>2 DEF Begun
    <3>2. QueueInv(c)' /\ StatusInv(c)' /\ StartInv(c)' /\ ResizeInv(c)'
      BY <2>1, <2>2, <3>1, ProgramKeeps
    <3> QED  BY <2>1, <2>2, <3>2 DEF PlaceInv, SignalInv, Asked, clientVars
  <2>3. ASSUME NEW r, Conclude(c, "sftp", r),
               \/ r = 0 /\ sftp'[c] = "eof"
               \/ r = 1 /\ sftp'[c] \in {"trunc", "clean"}
        PROVE  ChannelInv(c)'
    <3>1. /\ outcome'[c]["sftp"] = IF outcome[c]["sftp"] = None THEN r ELSE outcome[c]["sftp"]
          /\ \A q \in Programs \ {"sftp"} : outcome'[c][q] = outcome[c][q]
          /\ \A q \in Programs : outcome[c][q] # None => outcome'[c][q] = outcome[c][q]
      BY <2>3, ConcludeAt DEF Programs
    <3>2. \A p \in Programs : Begun(c, p)' <=> Begun(c, p)
      BY <2>1, <2>3, <3>1 DEF Begun, Programs
    <3>3. QueueInv(c)' /\ StatusInv(c)' /\ StartInv(c)' /\ ResizeInv(c)'
      BY <2>1, <2>3, <3>1, <3>2, ProgramKeeps
    <3>4. PlaceInv(c)'
      BY <2>1, <2>3, <3>1 DEF PlaceInv, Asked, clientVars, Programs
    <3>5. handler[c] # "done" /\ quit[c] # <<>> =>
            \E p \in Programs : Head(quit[c]) = outcome'[c][p]
      BY <3>1, StatusKept
    <3>6. SignalInv(c)'
      BY <2>1, <2>3, <3>1, <3>5 DEF SignalInv, Programs
    <3> QED  BY <3>3, <3>4, <3>6
  <2> QED  BY <1>1, <2>1, <2>2, <2>3 DEF SftpPacket, SftpEOF
<1>2. CASE SftpSignal(c)
  <2>1. /\ UNCHANGED <<clientVars, reqs, handler, sys, io, status, shell, scp, outcome>>
        /\ sftp[c] \in {"eof", "trunc", "clean"} /\ sftp'[c] \in {"clean", "done"}
    BY <1>2 DEF SftpSignal
  <2>2. /\ quit[c] = <<>> /\ quit'[c] # <<>>
        /\ Head(quit'[c]) = IF sftp[c] = "eof" THEN 0 ELSE 1
    BY <1>2, SignalFills DEF SftpSignal, Codes
  <2>3. \A p \in Programs : Begun(c, p)' <=> Begun(c, p)
    BY <2>1 DEF Begun
  <2>4. QueueInv(c)' /\ StatusInv(c)' /\ StartInv(c)' /\ ResizeInv(c)'
    BY <2>1, <2>3, ProgramKeeps
  <2>5. handler[c] # "done" => Head(quit'[c]) = outcome'[c]["sftp"]
    BY <2>1, <2>2 DEF SignalInv
  <2>6. handler[c] \in {"exec0", "exec1"} => Asked(c) > 1
    BY <2>1, AskedTwo DEF Begun, PlaceInv, Programs
  <2>7. handler[c] \in {"exec0", "exec1"} => ~(Asked(c) <= 1)
    BY <2>6, AskedNat
  <2> QED  BY <2>1, <2>2, <2>4, <2>5, <2>7 DEF PlaceInv, SignalInv, Asked, clientVars, Programs
<1> QED  BY <1>1, <1>2 DEF Sftp

LEMMA ScpStep ==
  ASSUME TypeOK, NEW c \in Channels, ChannelInv(c), Scp(c)
  PROVE  ChannelInv(c)'
<1> USE DEF TypeOK, ChannelInv
<1>1. CASE ScpFinish(c)
  <2>1. /\ UNCHANGED <<clientVars, reqs, handler, sys, io, status, quit, shell, sftp>>
        /\ scp[c] = "run"
    BY <1>1 DEF ScpFinish
  <2>2. PICK r : Conclude(c, "scp", r) /\ ((r = 0 /\ scp'[c] = "ok") \/ (r = 1 /\ scp'[c] = "fail"))
    <3>1. scp' = [scp EXCEPT ![c] = "ok"] => scp'[c] = "ok"
      OBVIOUS
    <3>2. scp' = [scp EXCEPT ![c] = "fail"] => scp'[c] = "fail"
      OBVIOUS
    <3>3. \/ scp'[c] = "ok" /\ Conclude(c, "scp", 0)
          \/ scp'[c] = "fail" /\ Conclude(c, "scp", 1)
      BY <1>1, <3>1, <3>2 DEF ScpFinish
    <3> QED  BY <3>3, Zenon
  <2>3. /\ outcome'[c]["scp"] = IF outcome[c]["scp"] = None THEN r ELSE outcome[c]["scp"]
        /\ \A q \in Programs \ {"scp"} : outcome'[c][q] = outcome[c][q]
        /\ \A q \in Programs : outcome[c][q] # None => outcome'[c][q] = outcome[c][q]
    BY <2>2, ConcludeAt DEF Programs
  <2>4. \A p \in Programs : Begun(c, p)' <=> Begun(c, p)
    BY <2>1, <2>2, <2>3 DEF Begun, Programs
  <2>5. QueueInv(c)' /\ StatusInv(c)' /\ StartInv(c)' /\ ResizeInv(c)'
    BY <2>1, <2>3, <2>4, ProgramKeeps
  <2>6. PlaceInv(c)'
    BY <2>1, <2>2, <2>3 DEF PlaceInv, Asked, clientVars, Programs
  <2>7. handler[c] # "done" /\ quit[c] # <<>> =>
          \E p \in Programs : Head(quit[c]) = outcome'[c][p]
    BY <2>3, StatusKept
  <2>8. SignalInv(c)'
    BY <2>1, <2>2, <2>3, <2>7 DEF SignalInv, Programs
  <2> QED  BY <2>5, <2>6, <2>8
<1>2. CASE ScpCrash(c)
  <2>1. /\ UNCHANGED <<clientVars, reqs, handler, sys, io, status, quit, shell, sftp, outcome>>
        /\ scp[c] = "run" /\ scp'[c] = "nofile"
    BY <1>2 DEF ScpCrash
  <2>2. \A p \in Programs : Begun(c, p)' <=> Begun(c, p)
    BY <2>1 DEF Begun
  <2>3. QueueInv(c)' /\ StatusInv(c)' /\ StartInv(c)' /\ ResizeInv(c)'
    BY <2>1, <2>2, ProgramKeeps
  <2> QED  BY <2>1, <2>3 DEF PlaceInv, SignalInv, Asked, clientVars
<1>3. CASE ScpSignal(c)
  <2>1. /\ UNCHANGED <<clientVars, reqs, handler, sys, io, status, shell, sftp, outcome>>
        /\ scp[c] \in {"ok", "fail"} /\ scp'[c] = "done"
    BY <1>3 DEF ScpSignal
  <2>2. /\ quit[c] = <<>> /\ quit'[c] # <<>>
        /\ Head(quit'[c]) = IF scp[c] = "ok" THEN 0 ELSE 1
    BY <1>3, SignalFills DEF ScpSignal, Codes
  <2>3. \A p \in Programs : Begun(c, p)' <=> Begun(c, p)
    BY <2>1 DEF Begun
  <2>4. QueueInv(c)' /\ StatusInv(c)' /\ StartInv(c)' /\ ResizeInv(c)'
    BY <2>1, <2>3, ProgramKeeps
  <2>5. handler[c] # "done" => Head(quit'[c]) = outcome'[c]["scp"]
    BY <2>1, <2>2 DEF SignalInv
  <2>6. handler[c] \in {"exec0", "exec1"} => Asked(c) > 1
    BY <2>1, AskedTwo DEF Begun, PlaceInv, Programs
  <2>7. handler[c] \in {"exec0", "exec1"} => ~(Asked(c) <= 1)
    BY <2>6, AskedNat
  <2> QED  BY <2>1, <2>2, <2>4, <2>5, <2>7 DEF PlaceInv, SignalInv, Asked, clientVars, Programs
<1> QED  BY <1>1, <1>2, <1>3 DEF Scp

-----------------------------------------------------------------------------
(* Where the process goes down.                                            *)

LEMMA ResizeMeets ==
  ASSUME TypeOK, NEW c \in Channels, ChannelInv(c), TakeResize(c), ~up'
  PROVE  CrashedAt(c)'
<1>1. /\ shell[c] \in {"nohook", "start"} /\ handler'[c] = "noterm"
      /\ reqs[c] \in Seq(RequestKinds) /\ reqs[c] # <<>> /\ Head(reqs[c]) = "resize"
      /\ UNCHANGED <<asked, eager, shell>>
  BY DEF TakeResize, Take, TypeOK, clientVars, progVars
<1>2. Queued(reqs[c], "resize")
  BY <1>1, QueuedTail
<1>3. eager[c]
  BY <1>1, <1>2 DEF ChannelInv, ResizeInv
<1>4. asked[c]["shell"] \in Nat \ {0}
  BY <1>1, AskedOne DEF Begun, Programs
<1> QED  BY <1>1, <1>3, <1>4 DEF CrashedAt, BeforePrompt

LEMMA CrashStep ==
  ASSUME IInv, Next
  PROVE  up' \/ \E c \in Channels : CrashedAt(c)'
<1> USE DEF IInv
<1>1. SUFFICES ASSUME ~up' PROVE \E c \in Channels : CrashedAt(c)'
  OBVIOUS
<1>2. PICK c \in Channels : Client(c) \/ Handler(c) \/ Shell(c) \/ Sftp(c) \/ Scp(c)
  BY DEF Next
<1>3. ~Client(c)
  BY <1>1 DEF Client, ClientOpen, ClientEOF, ClientClose, ClientRequest, ClientInput
<1>4. ~Sftp(c)
  BY <1>1 DEF Sftp, SftpPacket, SftpEOF, SftpSignal, Signal
<1>5. CASE Handler(c)
  <2>1. TakeOther(c) \/ TakeResize(c)
    BY <1>1, <1>5 DEF Handler, TakePty, TakeShell, StartShell, TakeSftp, TakeScp, TakeExec, Take,
                      ExecSignal, Signal, RequestsClosed, TakeQuit
  <2>2. CASE TakeOther(c)
    <3>1. up
      BY <2>2 DEF TakeOther, Take
    <3> QED  BY <1>1, <2>2, <3>1 DEF TakeOther, CrashedAt, TypeOK
  <2> QED  BY <1>1, <2>1, <2>2, ResizeMeets
<1>6. CASE Shell(c)
  <2>1. ShellBoot(c) /\ up
    BY <1>1, <1>6 DEF Shell, ShellBoot, ShellLine, ShellEOF, ShellReadError, ShellSignal, Signal
  <2> QED  BY <1>1, <2>1 DEF ShellBoot, HookInv, CrashedAt, TypeOK
<1>7. CASE Scp(c)
  <2>1. ScpCrash(c)
    BY <1>1, <1>7 DEF Scp, ScpFinish, ScpSignal, Signal
  <2> QED  BY <2>1 DEF ScpCrash, CrashedAt, TypeOK
<1> QED  BY <1>2, <1>3, <1>4, <1>5, <1>6, <1>7

LEMMA HookStep ==
  ASSUME IInv, Next
  PROVE  HookInv'
<1> USE DEF IInv
<1>1. PICK c \in Channels : Client(c) \/ Handler(c) \/ Shell(c) \/ Sftp(c) \/ Scp(c)
  BY DEF Next
<1>2. \A d \in Channels \ {c} : shell'[d] = shell[d]
  BY <1>1, OthersSame DEF SameAt
<1>3. shell'[c] = "nohook" => "hook" \in Faults
  <2>1. CASE StartShell(c)
    BY <2>1 DEF StartShell, TypeOK
  <2>2. CASE ~StartShell(c)
    <3>1. CASE Client(c) \/ Handler(c)
      BY <2>2, <3>1 DEF HookInv,
         Client, ClientOpen, ClientEOF, ClientClose, ClientRequest, ClientInput, progVars,
         Handler, TakePty, TakeShell, TakeOther, TakeResize, TakeSftp, TakeScp, TakeExec,
         ExecSignal, RequestsClosed, TakeQuit
    <3>2. CASE Shell(c) \/ Sftp(c) \/ Scp(c)
      BY <3>2 DEF HookInv, TypeOK,
         Shell, ShellBoot, ShellLine, ShellEOF, ShellReadError, ShellSignal,
         Sftp, SftpPacket, SftpEOF, SftpSignal, Scp, ScpFinish, ScpCrash, ScpSignal
    <3> QED  BY <1>1, <3>1, <3>2
  <2> QED  BY <2>1, <2>2
<1> QED  BY <1>2, <1>3 DEF HookInv

-----------------------------------------------------------------------------
(* The invariant, and the theorems that follow from it.                    *)

LEMMA InvInit == Init => IInv
<1> SUFFICES ASSUME Init PROVE IInv
  OBVIOUS
<1>1. TypeOK
  BY TypeInit
<1>2. ASSUME NEW c \in Channels PROVE ChannelInv(c)
  <2>1. /\ \A p \in Programs : asked[c][p] = 0 /\ outcome[c][p] = None
        /\ reqs[c] = <<>> /\ Len(reqs[c]) = 0 /\ eager[c] = FALSE
        /\ shell[c] = "off" /\ handler[c] = "none" /\ sftp[c] = "off" /\ scp[c] = "off"
        /\ quit[c] = <<>> /\ status[c] = None /\ link[c] = "none"
    BY DEF Init
  <2> QED
    BY <2>1 DEF ChannelInv, QueueInv, PlaceInv, SignalInv, StatusInv, StartInv, ResizeInv,
                Begun, Queued, Programs
<1>3. up /\ HookInv
  BY DEF Init, HookInv
<1> QED  BY <1>1, <1>2, <1>3 DEF IInv

LEMMA InvStep ==
  ASSUME IInv, [Next]_vars
  PROVE  IInv'
<1>1. TypeOK'
  BY TypeStep DEF IInv
<1>2. CASE UNCHANGED vars
  <2>1. ASSUME NEW c \in Channels PROVE ChannelInv(c)'
    BY <1>2, SameAtKeeps DEF IInv, SameAt, vars, clientVars, progVars
  <2> QED
    BY <1>1, <1>2, <2>1 DEF IInv, HookInv, CrashedAt, BeforePrompt, vars, clientVars, progVars
<1>3. CASE Next
  <2>1. ASSUME NEW c \in Channels,
               Client(c) \/ Handler(c) \/ Shell(c) \/ Sftp(c) \/ Scp(c)
        PROVE  ChannelInv(c)'
    BY <2>1, ClientStep, HandlerStep, ShellStep, SftpStep, ScpStep DEF IInv
  <2>2. ASSUME NEW c \in Channels, NEW d \in Channels \ {c},
               Client(c) \/ Handler(c) \/ Shell(c) \/ Sftp(c) \/ Scp(c)
        PROVE  ChannelInv(d)'
    BY <2>2, OthersSame, SameAtKeeps DEF IInv
  <2>3. \A c \in Channels : ChannelInv(c)'
    BY <1>3, <2>1, <2>2 DEF Next
  <2> QED  BY <1>1, <1>3, <2>3, CrashStep, HookStep DEF IInv
<1> QED  BY <1>2, <1>3

LEMMA InvHolds == Spec => []IInv
<1>1. IInv /\ [Next]_vars => IInv'
  BY InvStep
<1>2. Init => IInv
  BY InvInit
<1> QED  BY <1>1, <1>2, PTL DEF Spec

(* The exit status the client is told is the first result of a program it  *)
(* asked for on the channel, whatever is signalled after it and however    *)
(* many programs it has asked for.                                         *)
THEOREM StatusIsOutcome == Spec => []ExitStatusIsOutcome
<1>1. IInv => ExitStatusIsOutcome
  BY DEF IInv, ChannelInv, StatusInv, ExitStatusIsOutcome
<1> QED  BY <1>1, InvHolds, PTL

(* The handler waits for itself on quitSignal only where the client has    *)
(* asked for more than one program.                                        *)
THEOREM StuckForACause == Spec => []StuckHasCause
<1>1. IInv => StuckHasCause
  <2> SUFFICES ASSUME IInv, NEW c \in Channels, Stuck(c), ~(Asked(c) > 1) PROVE FALSE
    BY DEF StuckHasCause
  <2>1. Asked(c) <= 1
    BY AskedNat DEF IInv
  <2>2. Len(quit[c]) = 0
    BY <2>1 DEF IInv, ChannelInv, PlaceInv, Stuck
  <2> QED  BY <2>2 DEF Stuck, QuitCap
<1> QED  BY <1>1, InvHolds, PTL

(* The sessions take the process down in four ways only: a window-change   *)
(* does so only if the client sent it ahead of the shell's prompt.         *)
THEOREM CrashesForACause == Spec => []CrashHasCause
<1>1. IInv => CrashHasCause
  BY DEF IInv, CrashedAt, CrashHasCause
<1> QED  BY <1>1, InvHolds, PTL

-----------------------------------------------------------------------------
(* SessionChannels implements ChannelContract.                             *)

(* A step on channel c changes what the contract sees at c only.           *)
LEMMA SeenAt ==
  ASSUME TypeOK, TypeOK', NEW c \in Channels,
         Client(c) \/ Handler(c) \/ Shell(c) \/ Sftp(c) \/ Scp(c)
  PROVE  /\ Phases' = [Phases EXCEPT ![c] = Phase(c)']
         /\ AllResults' = [AllResults EXCEPT ![c] = Results(c)']
         /\ Askeds' = [Askeds EXCEPT ![c] = Asked(c)']
         /\ status' = [status EXCEPT ![c] = status'[c]]
         /\ Phases[c] = Phase(c) /\ AllResults[c] = Results(c) /\ Askeds[c] = Asked(c)
<1>1. \A d \in Channels \ {c} : SameAt(d)
  BY OthersSame
<1>2. \A d \in Channels \ {c} :
        Phase(d)' = Phase(d) /\ Results(d)' = Results(d) /\ Asked(d)' = Asked(d)
        /\ status'[d] = status[d]
  BY <1>1 DEF SameAt, Phase, Stuck, Results, Asked
<1>3. status \in [Channels -> Codes \cup {None}] /\ status' \in [Channels -> Codes \cup {None}]
  BY DEF TypeOK
<1> QED  BY <1>2, <1>3 DEF Phases, AllResults, Askeds

(* The steps of the contract, from what is seen at one channel.            *)
Seen(c) ==
  /\ Phases' = [Phases EXCEPT ![c] = Phase(c)']
  /\ AllResults' = [AllResults EXCEPT ![c] = Results(c)']
  /\ Askeds' = [Askeds EXCEPT ![c] = Asked(c)']
  /\ status' = [status EXCEPT ![c] = status'[c]]
  /\ Phases[c] = Phase(c) /\ AllResults[c] = Results(c) /\ Askeds[c] = Asked(c)

(* What stays as it is at c stays as it is.                                *)
LEMMA Unmoved ==
  ASSUME NEW S, NEW f, f = [x \in S |-> f[x]], NEW d \in S
  PROVE  [f EXCEPT ![d] = f[d]] = f
OBVIOUS

LEMMA SeenStays ==
  ASSUME TypeOK, NEW c \in Channels, Seen(c)
  PROVE  /\ Phase(c)' = Phase(c) => Phases' = Phases
         /\ Results(c)' = Results(c) => AllResults' = AllResults
         /\ Asked(c)' = Asked(c) => Askeds' = Askeds
         /\ status'[c] = status[c] => status' = status
<1>1. /\ Phases = [x \in Channels |-> Phases[x]]
      /\ AllResults = [x \in Channels |-> AllResults[x]]
      /\ Askeds = [x \in Channels |-> Askeds[x]]
  BY DEF Phases, AllResults, Askeds
<1>2. status = [x \in Channels |-> status[x]]
  BY DEF TypeOK
<1> QED  BY <1>1, <1>2, Unmoved DEF Seen

LEMMA SeenNothing ==
  ASSUME TypeOK, NEW c \in Channels, Seen(c), up, up' \in BOOLEAN,
         Phase(c)' = Phase(c), Results(c)' = Results(c), Asked(c)' = Asked(c),
         status'[c] = status[c]
  PROVE  [Contract!Next]_(Contract!vars)
<1>1. UNCHANGED <<Phases, AllResults, Askeds, status>>
  BY SeenStays
<1> QED  BY <1>1 DEF Contract!Next, Contract!Crash, Contract!vars

LEMMA SeenFinish ==
  ASSUME TypeOK, NEW c \in Channels, Seen(c), up, up',
         NEW r \in Codes \cup {Lost}, Results(c)' = Results(c) \cup {r},
         Phase(c) # "idle", Asked(c) > 0,
         Phase(c)' = Phase(c) \/ (Phase(c) = "open" /\ Phase(c)' = "stuck" /\ Asked(c) > 1),
         Asked(c)' = Asked(c), status'[c] = status[c]
  PROVE  [Contract!Next]_(Contract!vars)
<1>1. Askeds' = Askeds /\ status' = status
  BY SeenStays
<1>2. Contract!Finish(c, r)
  BY <1>1 DEF Seen, Contract!Finish, Contract!MayBe
<1> QED  BY <1>2 DEF Contract!Next

LEMMA SeenStick ==
  ASSUME TypeOK, NEW c \in Channels, Seen(c), up, up',
         Phase(c) = "open", Phase(c)' = "stuck", Asked(c) > 1,
         Asked(c)' = Asked(c), Results(c)' = Results(c), status'[c] = status[c]
  PROVE  [Contract!Next]_(Contract!vars)
<1>1. Askeds' = Askeds /\ status' = status /\ AllResults' = AllResults
  BY SeenStays
<1>2. Contract!Stick(c)
  BY <1>1 DEF Seen, Contract!Stick
<1> QED  BY <1>2 DEF Contract!Next

(* A stuck handler is on a channel with more than one program, before and  *)
(* after the step.                                                         *)
LEMMA StuckAfter ==
  ASSUME TypeOK', NEW c \in Channels, ChannelInv(c)', Stuck(c)'
  PROVE  Asked(c)' > 1
<1>1. Len(quit'[c]) # 0
  BY DEF Stuck, QuitCap
<1>2. ~(Asked(c)' <= 1)
  BY <1>1 DEF ChannelInv, PlaceInv, Stuck
<1>3. Asked(c)' \in Nat
  BY DEF TypeOK, Asked, Programs
<1> QED  BY <1>2, <1>3

(* A conclusion adds one result.                                           *)
LEMMA ResultAdded ==
  ASSUME TypeOK, NEW c \in Channels, NEW p \in Programs, NEW r \in {0, 1, Lost},
         Conclude(c, p, r)
  PROVE  \E x \in Codes \cup {Lost} : Results(c)' = Results(c) \cup {x}
<1>1. /\ outcome'[c][p] = IF outcome[c][p] = None THEN r ELSE outcome[c][p]
      /\ \A q \in Programs \ {p} : outcome'[c][q] = outcome[c][q]
  BY ConcludeAt
<1>2. outcome[c][p] \in Codes \cup {None, Lost}
  BY DEF TypeOK
<1>3. outcome'[c][p] \in Codes \cup {Lost} /\ outcome'[c][p] # None
  BY <1>1, <1>2, CodesAre DEF Codes
<1>4. Results(c)' = Results(c) \cup {outcome'[c][p]}
  BY <1>1, <1>3 DEF Results
<1> QED  BY <1>3, <1>4

(* A program runs only on a channel that was opened and asked for it.      *)
LEMMA RunsOpened ==
  ASSUME TypeOK, NEW c \in Channels, ChannelInv(c), NEW p \in Programs, Begun(c, p)
  PROVE  handler[c] # "none" /\ Asked(c) > 0
<1>1. asked[c][p] \in Nat \ {0}
  BY AskedOne
<1>2. asked[c][p] <= Asked(c) /\ Asked(c) \in Nat
  BY AskedNat
<1> QED  BY <1>1, <1>2 DEF ChannelInv, StartInv

LEMMA ClientContract ==
  ASSUME IInv, IInv', NEW c \in Channels, Client(c), Seen(c)
  PROVE  [Contract!Next]_(Contract!vars)
<1> USE DEF IInv
<1>1. CASE ClientOpen(c)
  <2>1. handler[c] = "none" /\ handler'[c] = "select" /\ up /\ up'
        /\ UNCHANGED <<asked, outcome, status>>
    BY <1>1 DEF ClientOpen, ChannelInv, StartInv, TypeOK, progVars
  <2>2. Phase(c) = "idle" /\ Phase(c)' = "open"
    BY <2>1 DEF Phase, Stuck
  <2>3. UNCHANGED <<Askeds, AllResults>>
    BY <2>1 DEF Askeds, AllResults, Asked, Results
  <2>4. Contract!Open(c)
    BY <2>1, <2>2, <2>3 DEF Seen, Contract!Open
  <2> QED  BY <2>4 DEF Contract!Next
<1>2. CASE ClientEOF(c) \/ ClientClose(c) \/ \E i \in Inputs : ClientInput(c, i)
  <2>1. up /\ UNCHANGED <<up, handler, quit, asked, outcome, status>>
    BY <1>2 DEF ClientEOF, ClientClose, ClientInput, progVars
  <2>2. Phase(c)' = Phase(c) /\ Asked(c)' = Asked(c) /\ Results(c)' = Results(c)
    BY <2>1 DEF Phase, Stuck, Asked, Results
  <2> QED  BY <2>1, <2>2, SeenNothing DEF TypeOK
<1>3. ASSUME NEW r \in RequestKinds, ClientRequest(c, r)
      PROVE  [Contract!Next]_(Contract!vars)
  <2>1. up /\ UNCHANGED <<up, handler, quit, outcome, status>> /\ link[c] # "none"
    BY <1>3 DEF ClientRequest, progVars
  <2>2. Phase(c)' = Phase(c) /\ Results(c)' = Results(c) /\ Phase(c) # "idle"
    BY <2>1 DEF Phase, Stuck, Results, ChannelInv, StartInv
  <2>3. CASE r \notin Programs
    <3>1. Asked(c)' = Asked(c)
      BY <1>3, <2>3 DEF ClientRequest, Asked
    <3> QED  BY <2>1, <2>2, <3>1, SeenNothing DEF TypeOK
  <2>4. CASE r \in Programs
    <3>1. \A p \in Programs : asked'[c][p] = IF p = r THEN asked[c][p] + 1 ELSE asked[c][p]
      BY <1>3, <2>4 DEF ClientRequest, TypeOK
    <3>2. Asked(c)' = Asked(c) + 1
      BY <2>4, <3>1, AskedNat DEF Asked, Programs
    <3>3. UNCHANGED <<Phases, AllResults, status>>
      BY <2>1 DEF Phases, AllResults, Phase, Stuck, Results
    <3>4. Contract!Ask(c)
      BY <2>1, <2>2, <3>2, <3>3 DEF Seen, Contract!Ask
    <3> QED  BY <3>4 DEF Contract!Next
  <2> QED  BY <2>3, <2>4
<1> QED  BY <1>1, <1>2, <1>3 DEF Client

LEMMA HandlerContract ==
  ASSUME IInv, IInv', NEW c \in Channels, Handler(c), Seen(c)
  PROVE  [Contract!Next]_(Contract!vars)
<1> USE DEF IInv
<1>1. CASE TakePty(c) \/ TakeOther(c) \/ TakeShell(c) \/ TakeSftp(c) \/ TakeScp(c) \/ TakeResize(c)
  <2>1. /\ up /\ handler[c] = "select" /\ UNCHANGED <<asked, outcome, quit, status>>
        /\ handler'[c] \in {"select", "shell", "short", "noterm"}
    BY <1>1 DEF TakePty, TakeOther, TakeShell, TakeSftp, TakeScp, TakeResize, Take,
                clientVars, progVars, TypeOK
  <2>2. Phase(c)' = Phase(c) /\ Asked(c)' = Asked(c) /\ Results(c)' = Results(c)
    BY <2>1 DEF Phase, Stuck, Asked, Results
  <2> QED  BY <2>1, <2>2, SeenNothing DEF TypeOK
<1>2. CASE StartShell(c) \/ ExecSignal(c)
  <2>1. /\ up /\ UNCHANGED <<up, asked, outcome, status>> /\ handler'[c] = "select"
        /\ handler[c] = "shell" \/ (handler[c] \in {"exec0", "exec1"} /\ Len(quit[c]) < QuitCap)
    BY <1>2 DEF StartShell, ExecSignal, Signal, clientVars, progVars, TypeOK
  <2>2. ~Stuck(c) /\ ~Stuck(c)'
    <3>1. Len(quit[c]) \in Nat
      BY DEF TypeOK
    <3>2. ~Stuck(c)
      BY <2>1, <3>1 DEF Stuck, QuitCap
    <3>3. ~Stuck(c)'
      BY <2>1 DEF Stuck
    <3> QED  BY <3>2, <3>3
  <2>3. Phase(c)' = Phase(c) /\ Asked(c)' = Asked(c) /\ Results(c)' = Results(c)
    BY <2>1, <2>2 DEF Phase, Asked, Results
  <2> QED  BY <2>1, <2>3, SeenNothing DEF TypeOK
<1>3. CASE TakeExec(c)
  <2>1. /\ up /\ up' /\ handler[c] = "select" /\ handler'[c] \in {"exec0", "exec1"}
        /\ UNCHANGED <<asked, quit, status>> /\ Take(c, "exec")
    BY <1>3 DEF TakeExec, Take, clientVars, TypeOK
  <2>2. PICK x \in Codes \cup {Lost} : Results(c)' = Results(c) \cup {x}
    BY <1>3, ResultAdded DEF TakeExec, Codes, Programs
  <2>3. Asked(c)' = Asked(c) /\ Phase(c) = "open"
    BY <2>1 DEF Asked, Phase, Stuck
  <2>4. Phase(c)' = "open" \/ (Phase(c)' = "stuck" /\ Asked(c) > 1)
    BY <2>1, <2>3, StuckAfter DEF Phase
  <2>5. Asked(c) > 0
    <3>1. asked'[c]["exec"] \in Nat \ {0}
      BY <2>1, QueueTail, <1>3 DEF ChannelInv, Begun, TakeExec, clientVars, Programs
    <3> QED  BY <2>1, <3>1, AskedNat DEF Programs
  <2> QED  BY <2>1, <2>2, <2>3, <2>4, <2>5, SeenFinish
<1>4. CASE RequestsClosed(c) \/ TakeQuit(c)
  <2>1. /\ up /\ up' /\ handler[c] = "select" /\ handler'[c] = "done"
        /\ UNCHANGED <<asked, outcome>>
    BY <1>4 DEF RequestsClosed, TakeQuit, clientVars, progVars, TypeOK
  <2>2. Phase(c) = "open" /\ Phase(c)' = "gone"
    BY <2>1 DEF Phase, Stuck
  <2>3. UNCHANGED <<Askeds, AllResults>>
    BY <2>1 DEF Askeds, AllResults, Asked, Results
  <2>4. CASE status' = status
    <3>1. Contract!Leave(c)
      BY <2>1, <2>2, <2>3, <2>4 DEF Seen, Contract!Leave
    <3> QED  BY <3>1 DEF Contract!Next
  <2>5. CASE TakeQuit(c) /\ status' = [status EXCEPT ![c] = Head(quit[c])]
    <3>1. Head(quit[c]) \in Codes
      BY <2>5 DEF TakeQuit, TypeOK
    <3>2. Head(quit[c]) \in Results(c)
      BY <2>1, <2>5, <3>1, CodesAre DEF TakeQuit, ChannelInv, SignalInv, Results
    <3>3. Contract!Report(c)
      BY <2>1, <2>2, <2>3, <2>5, <3>1, <3>2 DEF Seen, Contract!Report
    <3> QED  BY <3>3 DEF Contract!Next
  <2> QED  BY <1>4, <2>4, <2>5 DEF RequestsClosed, TakeQuit
<1> QED  BY <1>1, <1>2, <1>3, <1>4 DEF Handler

LEMMA ProgramContract ==
  ASSUME IInv, IInv', NEW c \in Channels, Shell(c) \/ Sftp(c) \/ Scp(c), Seen(c)
  PROVE  [Contract!Next]_(Contract!vars)
<1> USE DEF IInv
<1>0. up /\ UNCHANGED <<asked, handler, status>> /\ Asked(c)' = Asked(c)
  BY DEF Shell, ShellBoot, ShellLine, ShellEOF, ShellReadError, ShellSignal,
         Sftp, SftpPacket, SftpEOF, SftpSignal, Scp, ScpFinish, ScpCrash, ScpSignal,
         Signal, clientVars, Asked
<1>1. CASE UNCHANGED <<quit, outcome>>
  <2>1. Phase(c)' = Phase(c) /\ Results(c)' = Results(c)
    BY <1>0, <1>1 DEF Phase, Stuck, Results
  <2> QED  BY <1>0, <2>1, SeenNothing DEF TypeOK
<1>2. CASE ShellSignal(c) \/ SftpSignal(c) \/ ScpSignal(c)
  <2>1. up' /\ UNCHANGED outcome /\ Len(quit[c]) < QuitCap
    BY <1>0, <1>2 DEF ShellSignal, SftpSignal, ScpSignal, Signal, clientVars
  <2>2. Results(c)' = Results(c) /\ ~Stuck(c)
    BY <2>1 DEF Results, Stuck, QuitCap, TypeOK
  <2>3. CASE Stuck(c)'
    <3>1. Asked(c)' > 1
      BY <2>3, StuckAfter
    <3>2. Phase(c) = "open" /\ Phase(c)' = "stuck"
      BY <1>0, <2>2, <2>3 DEF Phase, Stuck
    <3> QED  BY <1>0, <2>1, <2>2, <3>1, <3>2, SeenStick
  <2>4. CASE ~Stuck(c)'
    <3>1. Phase(c)' = Phase(c)
      BY <1>0, <2>2, <2>4 DEF Phase
    <3> QED  BY <1>0, <2>2, <3>1, SeenNothing DEF TypeOK
  <2> QED  BY <2>3, <2>4
<1>3. ASSUME NEW p \in Programs, Begun(c, p), NEW r \in {0, 1, Lost}, Conclude(c, p, r),
             UNCHANGED <<up, quit>>
      PROVE  [Contract!Next]_(Contract!vars)
  <2>1. PICK x \in Codes \cup {Lost} : Results(c)' = Results(c) \cup {x}
    BY <1>3, ResultAdded
  <2>2. handler[c] # "none" /\ Asked(c) > 0
    BY <1>3, RunsOpened
  <2>3. Phase(c)' = Phase(c) /\ Phase(c) # "idle"
    BY <1>0, <1>3, <2>2 DEF Phase, Stuck
  <2> QED  BY <1>0, <1>3, <2>1, <2>2, <2>3, SeenFinish
<1>4. CASE ShellLine(c) \/ ShellEOF(c) \/ ShellReadError(c)
  <2>1. Begun(c, "shell") /\ UNCHANGED <<up, quit>>
    BY <1>4 DEF ShellLine, ShellEOF, ShellReadError, Begun
  <2>2. UNCHANGED outcome \/ \E r \in {0, 1, Lost} : Conclude(c, "shell", r)
    BY <1>4 DEF ShellLine, ShellEOF, ShellReadError
  <2> QED  BY <1>1, <1>3, <2>1, <2>2 DEF Programs
<1>5. CASE SftpPacket(c) \/ SftpEOF(c)
  <2>1. Begun(c, "sftp") /\ UNCHANGED <<up, quit>>
    BY <1>5 DEF SftpPacket, SftpEOF, Begun
  <2>2. UNCHANGED outcome \/ \E r \in {0, 1, Lost} : Conclude(c, "sftp", r)
    BY <1>5 DEF SftpPacket, SftpEOF
  <2> QED  BY <1>1, <1>3, <2>1, <2>2 DEF Programs
<1>6. CASE ScpFinish(c)
  <2>1. Begun(c, "scp") /\ UNCHANGED <<up, quit>>
    BY <1>6 DEF ScpFinish, Begun
  <2>2. \E r \in {0, 1, Lost} : Conclude(c, "scp", r)
    BY <1>6 DEF ScpFinish
  <2> QED  BY <1>3, <2>1, <2>2 DEF Programs
<1>7. CASE ShellBoot(c) \/ ScpCrash(c)
  BY <1>1, <1>7 DEF ShellBoot, ScpCrash
<1> QED  BY <1>2, <1>4, <1>5, <1>6, <1>7 DEF Shell, Sftp, Scp

LEMMA ContractStep ==
  ASSUME IInv, IInv', [Next]_vars
  PROVE  [Contract!Next]_(Contract!vars)
<1>1. CASE UNCHANGED vars
  BY <1>1 DEF vars, clientVars, progVars, Contract!vars,
              Phases, AllResults, Askeds, Phase, Results, Asked, Stuck
<1>2. CASE Next
  <2>1. PICK c \in Channels : Client(c) \/ Handler(c) \/ Shell(c) \/ Sftp(c) \/ Scp(c)
    BY <1>2 DEF Next
  <2>2. Seen(c)
    BY <2>1, SeenAt DEF Seen, IInv
  <2> QED  BY <2>1, <2>2, ClientContract, HandlerContract, ProgramContract
<1> QED  BY <1>1, <1>2

(* Every behaviour of the goroutines is one the contract allows, whatever  *)
(* the faults, however early the client resizes and however many programs  *)
(* it asks for.                                                            *)
THEOREM ImplementsContract == Spec => KeepsContract
<1>1. Init => Contract!Init
  <2> SUFFICES ASSUME Init PROVE Contract!Init
    OBVIOUS
  <2>1. \A c \in Channels : Phase(c) = "idle" /\ Asked(c) = 0 /\ Results(c) = {}
    <3> TAKE c \in Channels
    <3>1. handler[c] = "none" /\ \A p \in Programs : asked[c][p] = 0 /\ outcome[c][p] = None
      BY DEF Init
    <3>2. Phase(c) = "idle"
      BY <3>1 DEF Phase, Stuck
    <3>3. Asked(c) = 0
      BY <3>1 DEF Asked, Programs
    <3>4. Results(c) = {}
      BY <3>1 DEF Results
    <3> QED  BY <3>2, <3>3, <3>4
  <2> QED  BY <2>1 DEF Init, Contract!Init, Phases, Askeds, AllResults
<1>2. IInv /\ IInv' /\ [Next]_vars => [Contract!Next]_(Contract!vars)
  BY ContractStep
<1> QED  BY <1>1, <1>2, InvHolds, PTL DEF Spec, KeepsContract, Contract!Spec
=============================================================================
