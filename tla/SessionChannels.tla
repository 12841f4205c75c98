--------------------------- MODULE SessionChannels ---------------------------
(***************************************************************************)
(* The "session" channels of one SSH connection (ssh.go, handleNewSession) *)
(* and the goroutines they start: the shell (os/shell.go, HandleRequest),  *)
(* the SFTP server (sftp/sftp.go, HandleRequest and cleanUp) and scp       *)
(* (os/command/scp.go, Main).                                              *)
(*                                                                         *)
(* Every channel has one handler goroutine, which selects between the      *)
(* channel's requests and quitSignal, a Go channel of capacity one on      *)
(* which the programs announce that they are over.  All handlers of the    *)
(* connection share the field s.sys of the SSHSession without a lock.      *)
(***************************************************************************)
EXTENDS Naturals, Sequences

CONSTANTS
  Channels,     \* the session channels the client may open on the connection
  None,         \* no channel, no exit code
  Lost,         \* the result of a shell that is over and has told nobody
  RequestKinds, \* the kinds of channel request the client sends
  MaxMsgs,      \* bound on requests plus inputs the client sends on a channel
  Faults        \* "hook": the session log cannot be created
                \* "scp" : scp -f of a path that does not exist
                \* "payload": an exec or subsystem payload under four bytes

Programs == {"shell", "sftp", "scp", "exec"}

Codes == {0, 1}

\* What a client writes on a channel, seen by the program that reads it: an
\* ordinary line or packet, one that leaves the shell (exit, logout, Ctrl-D on
\* an empty line), one whose handling panics, a line pasted in brackets.
Inputs == {"work", "exit", "crash", "paste"}

ASSUME ConstantsAssumption ==
  /\ None \notin Channels
  /\ None \notin Codes
  /\ Lost \notin Codes \cup {None}
  /\ RequestKinds \subseteq Programs \cup {"pty", "resize", "other"}
  /\ MaxMsgs \in 0..16   \* x/crypto/ssh buffers 16 requests before it blocks
  /\ Faults \subseteq {"hook", "scp", "payload"}

VARIABLES
  up,       \* the server process has not crashed
  link,     \* what the client did to the channel: opened, sent EOF, closed
  sent,     \* number of messages the client has sent on the channel
  asked,    \* how often the client has requested each program on the channel
  eager,    \* the client resized a shell before its prompt (history)
  reqs,     \* channel requests not yet taken by the handler
  stdin,    \* channel data not yet read
  handler,  \* where the handler goroutine is
  quit,     \* the buffer of quitSignal
  sys,      \* s.sys, named by the channel its System reads and writes
  io,       \* the channel that the shell, or the exec command, reads and writes
  shell, sftp, scp,  \* where the programs' goroutines are
  outcome,  \* first result of each program of the channel (history)
  status    \* exit-status sent to the client before the channel was closed

clientVars == <<link, sent, asked, eager>>
progVars   == <<io, shell, sftp, scp, outcome>>
vars == <<up, clientVars, reqs, stdin, handler, quit, sys, progVars, status>>

\* Where the process goes down is a place of its own: "short", "noterm",
\* "nolog" and "nofile".
HandlerPCs == {"none", "select", "shell", "exec0", "exec1", "done", "short", "noterm"}
ShellPCs   == {"off", "nohook", "start", "run", "exit", "eof", "panic", "done", "nolog"}
SftpPCs    == {"off", "run", "eof", "trunc", "clean", "done"}
ScpPCs     == {"off", "run", "ok", "fail", "done", "nofile"}

QuitCap == 1

Init ==
  /\ up      = TRUE
  /\ link    = [c \in Channels |-> "none"]
  /\ sent    = [c \in Channels |-> 0]
  /\ asked   = [c \in Channels |-> [p \in Programs |-> 0]]
  /\ eager   = [c \in Channels |-> FALSE]
  /\ reqs    = [c \in Channels |-> <<>>]
  /\ stdin   = [c \in Channels |-> <<>>]
  /\ handler = [c \in Channels |-> "none"]
  /\ quit    = [c \in Channels |-> <<>>]
  /\ sys     = None
  /\ io      = [c \in Channels |-> None]
  /\ shell   = [c \in Channels |-> "off"]
  /\ sftp    = [c \in Channels |-> "off"]
  /\ scp     = [c \in Channels |-> "off"]
  /\ outcome = [c \in Channels |-> [p \in Programs |-> None]]
  /\ status  = [c \in Channels |-> None]

-----------------------------------------------------------------------------
(* The client, and the part of x/crypto/ssh that delivers its messages.    *)

ClientOpen(c) ==
  /\ up /\ link[c] = "none"
  /\ link' = [link EXCEPT ![c] = "open"]
  /\ handler' = [handler EXCEPT ![c] = "select"]
  /\ UNCHANGED <<up, sent, asked, eager, reqs, stdin, quit, sys, progVars, status>>

\* All the programs the client has asked for on the channel.
Asked(c) ==
  asked[c]["shell"] + asked[c]["sftp"] + asked[c]["scp"] + asked[c]["exec"]

\* A limit of the model, not of the server: one shell, one SFTP server and one
\* scp per channel.  They may be combined, and exec may be repeated.
MayRequest(c, r) == r \in Programs \ {"exec"} => asked[c][r] = 0

\* The shell was asked for and has no terminal yet.
BeforePrompt(c) == asked[c]["shell"] > 0 /\ shell[c] \in {"off", "nohook", "start"}

ClientRequest(c, r) ==
  /\ up /\ link[c] \in {"open", "eof"} /\ sent[c] < MaxMsgs
  /\ MayRequest(c, r)
  /\ sent' = [sent EXCEPT ![c] = @ + 1]
  /\ asked' = IF r \in Programs THEN [asked EXCEPT ![c][r] = @ + 1] ELSE asked
  /\ eager' = [eager EXCEPT ![c] = @ \/ (r = "resize" /\ BeforePrompt(c))]
  /\ reqs' = [reqs EXCEPT ![c] = Append(@, r)]
  /\ UNCHANGED <<up, link, stdin, handler, quit, sys, progVars, status>>

ClientInput(c, i) ==
  /\ up /\ link[c] = "open" /\ sent[c] < MaxMsgs
  /\ sent' = [sent EXCEPT ![c] = @ + 1]
  /\ stdin' = [stdin EXCEPT ![c] = Append(@, i)]
  /\ UNCHANGED <<up, link, asked, eager, reqs, handler, quit, sys, progVars, status>>

ClientEOF(c) ==
  /\ up /\ link[c] = "open"
  /\ link' = [link EXCEPT ![c] = "eof"]
  /\ UNCHANGED <<up, sent, asked, eager, reqs, stdin, handler, quit, sys, progVars, status>>

\* The client closes the channel, or the connection is lost.
ClientClose(c) ==
  /\ up /\ link[c] \in {"open", "eof"}
  /\ link' = [link EXCEPT ![c] = "closed"]
  /\ UNCHANGED <<up, sent, asked, eager, reqs, stdin, handler, quit, sys, progVars, status>>

-----------------------------------------------------------------------------
(* The handler goroutine: select over the requests and quitSignal.         *)

\* The handler takes request r off the queue of channel c.
Take(c, r) ==
  /\ up /\ handler[c] = "select" /\ reqs[c] # <<>> /\ Head(reqs[c]) = r
  /\ reqs' = [reqs EXCEPT ![c] = Tail(@)]

\* pty-req replaces the connection's System by one on this channel.
TakePty(c) ==
  /\ Take(c, "pty")
  /\ sys' = c
  /\ UNCHANGED <<up, clientVars, stdin, handler, quit, progVars, status>>

\* Requests that change nothing here: env, PuTTY's winadj, unknown subsystems,
\* unknown types, payloads that do not parse.  exec and subsystem take
\* req.Payload[4:] of any payload, and the handler has no recover.
TakeOther(c) ==
  /\ Take(c, "other")
  /\ \/ UNCHANGED <<up, handler>>
     \/ /\ "payload" \in Faults /\ up' = FALSE
        /\ handler' = [handler EXCEPT ![c] = "short"]
  /\ UNCHANGED <<clientVars, stdin, quit, sys, progVars, status>>

\* shell, first part: make a System unless the connection has one.
TakeShell(c) ==
  /\ Take(c, "shell")
  /\ sys' = IF sys = None THEN c ELSE sys
  /\ handler' = [handler EXCEPT ![c] = "shell"]
  /\ UNCHANGED <<up, clientVars, stdin, quit, progVars, status>>

\* shell, second part: s.sys is read again, the log hook is made, the shell's
\* goroutine starts.  When the hook fails the error is logged and nil is used.
StartShell(c) ==
  /\ up /\ handler[c] = "shell"
  /\ \E pc \in {"start"} \cup (IF "hook" \in Faults THEN {"nohook"} ELSE {}) :
       shell' = [shell EXCEPT ![c] = pc]
  /\ io' = [io EXCEPT ![c] = sys]
  /\ handler' = [handler EXCEPT ![c] = "select"]
  /\ UNCHANGED <<up, clientVars, reqs, stdin, quit, sys, sftp, scp, outcome, status>>

TakeSftp(c) ==
  /\ Take(c, "sftp")
  /\ sftp' = [sftp EXCEPT ![c] = "run"]
  /\ UNCHANGED <<up, clientVars, stdin, handler, quit, sys, io, shell, scp, outcome, status>>

TakeScp(c) ==
  /\ Take(c, "scp")
  /\ scp' = [scp EXCEPT ![c] = "run"]
  /\ UNCHANGED <<up, clientVars, stdin, handler, quit, sys, io, shell, sftp, outcome, status>>

\* An outcome is the first result of a program.
Conclude(c, p, code) ==
  outcome' = IF outcome[c][p] = None THEN [outcome EXCEPT ![c][p] = code] ELSE outcome

\* exec runs its command in the handler itself, on the connection's System if
\* there is one and else on a System of its own that is not kept.
TakeExec(c) ==
  /\ Take(c, "exec")
  /\ io' = [io EXCEPT ![c] = IF sys = None THEN c ELSE sys]
  /\ \E code \in Codes :
       /\ handler' = [handler EXCEPT ![c] = IF code = 0 THEN "exec0" ELSE "exec1"]
       /\ Conclude(c, "exec", code)
  /\ UNCHANGED <<up, clientVars, stdin, quit, sys, shell, sftp, scp, status>>

\* Mutated TakeResize: without the test of sh.
TakeResizeUnguarded(c) ==
  /\ Take(c, "resize")
  /\ \/ shell[c] \notin {"off", "nohook", "start"} /\ UNCHANGED <<up, handler>>
     \/ /\ shell[c] \in {"off", "nohook", "start"} /\ up' = FALSE
        /\ handler' = [handler EXCEPT ![c] = "noterm"]
  /\ UNCHANGED <<clientVars, stdin, quit, sys, progVars, status>>

\* window-change: SetSize dereferences the terminal, which the shell's
\* goroutine creates; the handler has no recover.
TakeResize(c) ==
  /\ Take(c, "resize")
  /\ \/ shell[c] \notin {"nohook", "start"} /\ UNCHANGED <<up, handler>>
     \/ /\ shell[c] \in {"nohook", "start"} /\ up' = FALSE
        /\ handler' = [handler EXCEPT ![c] = "noterm"]
  /\ UNCHANGED <<clientVars, stdin, quit, sys, progVars, status>>

\* A send on quitSignal of channel c: it blocks while the buffer is full.
Signal(c, code) ==
  /\ up /\ Len(quit[c]) < QuitCap
  /\ quit' = [quit EXCEPT ![c] = Append(@, code)]

\* Mutated ExecSignal: a failing command signals 1 and then 0 as well.
ExecSignalTwice(c) ==
  /\ handler[c] \in {"exec0", "exec1"}
  /\ Signal(c, IF handler[c] = "exec0" THEN 0 ELSE 1)
  /\ handler' = [handler EXCEPT ![c] = IF @ = "exec1" THEN "exec0" ELSE "select"]
  /\ UNCHANGED <<up, clientVars, reqs, stdin, sys, progVars, status>>

ExecSignal(c) ==
  /\ handler[c] \in {"exec0", "exec1"}
  /\ Signal(c, IF handler[c] = "exec0" THEN 0 ELSE 1)
  /\ handler' = [handler EXCEPT ![c] = "select"]
  /\ UNCHANGED <<up, clientVars, reqs, stdin, sys, progVars, status>>

\* The request channel is closed and drained: the handler just returns.
RequestsClosed(c) ==
  /\ up /\ handler[c] = "select" /\ reqs[c] = <<>> /\ link[c] = "closed"
  /\ handler' = [handler EXCEPT ![c] = "done"]
  /\ UNCHANGED <<up, clientVars, reqs, stdin, quit, sys, progVars, status>>

\* Mutated TakeQuit: the handler goes on after the exit status.
TakeQuitGoesOn(c) ==
  /\ up /\ handler[c] = "select" /\ quit[c] # <<>>
  /\ quit' = [quit EXCEPT ![c] = Tail(@)]
  /\ status' = IF link[c] = "closed" THEN status
                                     ELSE [status EXCEPT ![c] = Head(quit[c])]
  /\ UNCHANGED <<up, clientVars, handler, reqs, stdin, sys, progVars>>

\* The exit status goes out and the channel is closed, unless the client
\* closed it first; then the handler returns.
TakeQuit(c) ==
  /\ up /\ handler[c] = "select" /\ quit[c] # <<>>
  /\ quit' = [quit EXCEPT ![c] = Tail(@)]
  /\ status' = IF link[c] = "closed" THEN status
                                     ELSE [status EXCEPT ![c] = Head(quit[c])]
  /\ handler' = [handler EXCEPT ![c] = "done"]
  /\ UNCHANGED <<up, clientVars, reqs, stdin, sys, progVars>>

Handler(c) ==
  \/ TakePty(c) \/ TakeOther(c) \/ TakeShell(c) \/ StartShell(c)
  \/ TakeSftp(c) \/ TakeScp(c) \/ TakeExec(c) \/ TakeResize(c)
  \/ ExecSignal(c) \/ RequestsClosed(c) \/ TakeQuit(c)

-----------------------------------------------------------------------------
(* The shell.  It reads the channel of the System it was given.            *)

AtEOF(d) == stdin[d] = <<>> /\ link[d] \in {"eof", "closed"}

\* NewLogger panics on a nil hook before the recover is deferred.
ShellBoot(c) ==
  /\ up /\ shell[c] \in {"nohook", "start"}
  /\ IF shell[c] = "nohook"
     THEN up' = FALSE /\ shell' = [shell EXCEPT ![c] = "nolog"]
     ELSE shell' = [shell EXCEPT ![c] = "run"] /\ UNCHANGED up
  /\ UNCHANGED <<clientVars, reqs, stdin, handler, quit, sys, io, sftp, scp, outcome, status>>

\* The next line that the shell can read is of kind i.
NextLine(c, i) == stdin[io[c]] # <<>> /\ Head(stdin[io[c]]) = i

ReadLine(c) ==
  stdin[io[c]] # <<>> /\ stdin' = [stdin EXCEPT ![io[c]] = Tail(@)]

ShellLine(c) ==
  /\ up /\ shell[c] = "run" /\ ReadLine(c)
  /\ \/ NextLine(c, "work") /\ UNCHANGED <<shell, outcome>>
     \/ /\ NextLine(c, "exit")
        /\ shell' = [shell EXCEPT ![c] = "exit"]
        /\ Conclude(c, "shell", 0)
     \/ /\ NextLine(c, "crash")
        /\ shell' = [shell EXCEPT ![c] = "panic"]
        /\ Conclude(c, "shell", 1)
  /\ UNCHANGED <<up, clientVars, reqs, handler, quit, sys, io, sftp, scp, status>>

\* The read that ends with io.EOF: the client sent EOF or is gone, or it sent
\* Ctrl-D on an empty line.
ReadsEOF(c) ==
  \/ AtEOF(io[c]) /\ UNCHANGED stdin
  \/ NextLine(c, "exit") /\ ReadLine(c)

\* Mutated ShellEOF: EOF leaves the loop like any other read error.
ShellEOFBreaks(c) ==
  /\ up /\ shell[c] = "run" /\ ReadsEOF(c)
  /\ shell' = [shell EXCEPT ![c] = "done"]
  /\ Conclude(c, "shell", 0)
  /\ UNCHANGED <<up, clientVars, reqs, handler, quit, sys, io, sftp, scp, status>>

ShellEOF(c) ==
  /\ up /\ shell[c] = "run" /\ ReadsEOF(c)
  /\ shell' = [shell EXCEPT ![c] = "eof"]
  /\ Conclude(c, "shell", 0)
  /\ UNCHANGED <<up, clientVars, reqs, handler, quit, sys, io, sftp, scp, status>>

\* Any other read error leaves the loop without a signal: the terminal returns
\* one with every line pasted in brackets, and a connection that breaks while
\* data is left may give one.
ShellReadError(c) ==
  /\ up /\ shell[c] = "run" /\ ReadLine(c)
  /\ NextLine(c, "paste") \/ link[io[c]] = "closed"
  /\ shell' = [shell EXCEPT ![c] = "done"]
  /\ Conclude(c, "shell", Lost)
  /\ UNCHANGED <<up, clientVars, reqs, handler, quit, sys, io, sftp, scp, status>>

\* exit: the loop goes on after the signal.  EOF and panic: the shell returns
\* and the session log is closed.
ShellSignal(c) ==
  /\ shell[c] \in {"exit", "eof", "panic"}
  /\ Signal(c, IF shell[c] = "panic" THEN 1 ELSE 0)
  /\ shell' = [shell EXCEPT ![c] = IF @ = "exit" THEN "run" ELSE "done"]
  /\ UNCHANGED <<up, clientVars, reqs, stdin, handler, sys, io, sftp, scp, outcome, status>>

Shell(c) ==
  ShellBoot(c) \/ ShellLine(c) \/ ShellEOF(c) \/ ShellReadError(c) \/ ShellSignal(c)

-----------------------------------------------------------------------------
(* The SFTP server.                                                        *)

\* A packet that does not parse panics; cleanUp closes the files and recovers.
SftpPacket(c) ==
  /\ up /\ sftp[c] = "run" /\ stdin[c] # <<>>
  /\ stdin' = [stdin EXCEPT ![c] = Tail(@)]
  /\ IF Head(stdin[c]) = "crash"
     THEN sftp' = [sftp EXCEPT ![c] = "clean"] /\ Conclude(c, "sftp", 1)
     ELSE UNCHANGED <<sftp, outcome>>
  /\ UNCHANGED <<up, clientVars, reqs, handler, quit, sys, io, shell, scp, status>>

\* EOF between packets is success, in the middle of one it is an error.
SftpEOF(c) ==
  /\ up /\ sftp[c] = "run" /\ AtEOF(c)
  /\ \/ sftp' = [sftp EXCEPT ![c] = "eof"]   /\ Conclude(c, "sftp", 0)
     \/ sftp' = [sftp EXCEPT ![c] = "trunc"] /\ Conclude(c, "sftp", 1)
  /\ UNCHANGED <<up, clientVars, reqs, stdin, handler, quit, sys, io, shell, scp, status>>

\* Mutated SftpSignal: cleanUp, and its 1, come before the loop's own signal.
SftpSignalSwapped(c) ==
  /\ sftp[c] \in {"eof", "trunc", "clean"}
  /\ Signal(c, IF sftp[c] = "clean" THEN 0 ELSE 1)
  /\ sftp' = [sftp EXCEPT ![c] = IF @ = "clean" THEN "done" ELSE "clean"]
  /\ UNCHANGED <<up, clientVars, reqs, stdin, handler, sys, io, shell, scp, outcome, status>>

\* Mutated SftpSignal: at EOF the loop signals 0 and then 1 before cleanUp.
SftpSignalTwice(c) ==
  /\ sftp[c] \in {"eof", "trunc", "clean"}
  /\ Signal(c, IF sftp[c] = "eof" THEN 0 ELSE 1)
  /\ sftp' = [sftp EXCEPT ![c] = CASE @ = "eof"   -> "trunc"
                                   [] @ = "trunc" -> "clean"
                                   [] @ = "clean" -> "done"]
  /\ UNCHANGED <<up, clientVars, reqs, stdin, handler, sys, io, shell, scp, outcome, status>>

\* Deferred calls run last-in first-out: the signal of the read loop, then
\* cleanUp, which closes the files and always signals 1.
SftpSignal(c) ==
  /\ sftp[c] \in {"eof", "trunc", "clean"}
  /\ Signal(c, IF sftp[c] = "eof" THEN 0 ELSE 1)
  /\ sftp' = [sftp EXCEPT ![c] = IF @ = "clean" THEN "done" ELSE "clean"]
  /\ UNCHANGED <<up, clientVars, reqs, stdin, handler, sys, io, shell, scp, outcome, status>>

Sftp(c) == SftpPacket(c) \/ SftpEOF(c) \/ SftpSignal(c)

-----------------------------------------------------------------------------
(* scp: one result, one signal.                                            *)

ScpFinish(c) ==
  /\ up /\ scp[c] = "run"
  /\ \/ scp' = [scp EXCEPT ![c] = "ok"]   /\ Conclude(c, "scp", 0)
     \/ scp' = [scp EXCEPT ![c] = "fail"] /\ Conclude(c, "scp", 1)
  /\ UNCHANGED <<up, clientVars, reqs, stdin, handler, quit, sys, io, shell, sftp, status>>

\* scp -f of a missing path goes on with a nil FileInfo, without a recover.
ScpCrash(c) ==
  /\ up /\ scp[c] = "run" /\ "scp" \in Faults
  /\ up' = FALSE
  /\ scp' = [scp EXCEPT ![c] = "nofile"]
  /\ UNCHANGED <<clientVars, reqs, stdin, handler, quit, sys, io, shell, sftp, outcome, status>>

\* Mutated ScpSignal: no return after the signal of a usage error.
ScpSignalTwice(c) ==
  /\ scp[c] \in {"ok", "fail"}
  /\ Signal(c, IF scp[c] = "ok" THEN 0 ELSE 1)
  /\ scp' = [scp EXCEPT ![c] = IF @ = "fail" THEN "ok" ELSE "done"]
  /\ UNCHANGED <<up, clientVars, reqs, stdin, handler, sys, io, shell, sftp, outcome, status>>

ScpSignal(c) ==
  /\ scp[c] \in {"ok", "fail"}
  /\ Signal(c, IF scp[c] = "ok" THEN 0 ELSE 1)
  /\ scp' = [scp EXCEPT ![c] = "done"]
  /\ UNCHANGED <<up, clientVars, reqs, stdin, handler, sys, io, shell, sftp, outcome, status>>

Scp(c) == ScpFinish(c) \/ ScpCrash(c) \/ ScpSignal(c)

-----------------------------------------------------------------------------
Client(c) ==
  \/ ClientOpen(c) \/ ClientEOF(c) \/ ClientClose(c)
  \/ \E r \in RequestKinds : ClientRequest(c, r)
  \/ \E i \in Inputs : ClientInput(c, i)

Next == \E c \in Channels :
  Client(c) \/ Handler(c) \/ Shell(c) \/ Sftp(c) \/ Scp(c)

Spec == Init /\ [][Next]_vars

\* Goroutines that can run do run.  The client need not send anything, nor go,
\* but it reads what it is sent: a program is not stuck in a write.  scp is sure
\* to come to an end only once the channel is closed.
Fairness == \A c \in Channels :
  /\ WF_vars(Handler(c))
  /\ WF_vars(Shell(c))
  /\ WF_vars(SftpEOF(c) \/ SftpPacket(c)) /\ WF_vars(SftpSignal(c))
  /\ WF_vars(link[c] = "closed" /\ ScpFinish(c)) /\ WF_vars(ScpSignal(c))

FairSpec == Spec /\ Fairness

-----------------------------------------------------------------------------
(* Properties.                                                             *)

TypeOK ==
  /\ up \in BOOLEAN
  /\ link \in [Channels -> {"none", "open", "eof", "closed"}]
  /\ sent \in [Channels -> 0..MaxMsgs]
  /\ asked \in [Channels -> [Programs -> Nat]]
  /\ eager \in [Channels -> BOOLEAN]
  /\ reqs \in [Channels -> Seq(RequestKinds)]
  /\ stdin \in [Channels -> Seq(Inputs)]
  /\ handler \in [Channels -> HandlerPCs]
  /\ quit \in [Channels -> Seq(Codes)]
  /\ sys \in Channels \cup {None}
  /\ io \in [Channels -> Channels \cup {None}]
  /\ shell \in [Channels -> ShellPCs]
  /\ sftp \in [Channels -> SftpPCs]
  /\ scp \in [Channels -> ScpPCs]
  /\ outcome \in [Channels -> [Programs -> Codes \cup {None, Lost}]]
  /\ status \in [Channels -> Codes \cup {None}]

\* The exit status a client is told is the first result of a program it asked
\* for: with one program on the channel its result, also for the SFTP server,
\* which sends two signals and whose second one is always 1, and for a shell that
\* sends one per exit line and one more at EOF.
ExitStatusIsOutcome ==
  \A c \in Channels : status[c] # None => \E p \in Programs : status[c] = outcome[c][p]

\* The handler waits for ever in its own send: it is the only receiver.
Stuck(c) == handler[c] \in {"exec0", "exec1"} /\ Len(quit[c]) >= QuitCap

\* A handler gets stuck on the signal of an exec command only on a channel on
\* which the client has asked for another program, or for exec twice.
StuckHasCause == \A c \in Channels : Stuck(c) => Asked(c) > 1

\* A shell or an exec command reads and writes the channel it was requested
\* on, whatever happens on the connection's other channels.
OwnChannel == \A c \in Channels : io[c] \in {None, c}

\* A session takes the process down in four ways only: a payload under four
\* bytes, a session log that cannot be created, scp -f of a missing path, and a
\* window-change that the client sent before the shell it had asked for was
\* there.  Clients that wait for the prompt may resize as they like.
CrashHasCause ==
  up \/ \E c \in Channels :
    \/ handler[c] = "short" /\ "payload" \in Faults
    \/ shell[c] = "nolog" /\ "hook" \in Faults
    \/ scp[c] = "nofile" /\ "scp" \in Faults
    \/ handler[c] = "noterm" /\ eager[c] /\ BeforePrompt(c)

\* The goroutines keep the contract of a session channel: the handler that has
\* returned is a channel that is gone, with a report if a status was sent.
Phase(c) ==
  CASE handler[c] = "none" -> "idle"
    [] handler[c] = "done" -> "gone"
    [] Stuck(c)            -> "stuck"
    [] OTHER               -> "open"

Results(c) == {outcome[c][p] : p \in Programs} \ {None}

Askeds     == [c \in Channels |-> Asked(c)]
Phases     == [c \in Channels |-> Phase(c)]
AllResults == [c \in Channels |-> Results(c)]

Contract == INSTANCE ChannelContract WITH
  alive <- up, asked <- Askeds, phase <- Phases, result <- AllResults, report <- status

\* Every step is a step of the contract, crashes, stuck handlers and shells that
\* tell nobody included.
KeepsContract == Contract!Spec

\* And when a program has come to an end with a result the channel is closed with
\* one, unless the client closes it first or two programs have made it stuck.  A
\* shell that a read error ends has no result: its channel stays open.
KeepsContractFairly == Contract!FairSpec

\* Once the client is gone the SFTP server closes its files, although its last
\* send on quitSignal may block for ever because the handler has returned.  It
\* must be alone on the channel: behind another program's signal its first send
\* blocks, before the files are closed.
FilesReleased == \A c \in Channels :
  (sftp[c] = "run" /\ link[c] = "closed")
    ~> (sftp[c] \in {"clean", "done"} \/ ~up \/ Asked(c) > 1)

\* Once the client is gone an scp goroutine returns, if it is alone.
ScpReturns == \A c \in Channels :
  (scp[c] = "run" /\ link[c] = "closed") ~> (scp[c] = "done" \/ ~up \/ Asked(c) > 1)

\* Once the client of a shell is gone the session log is closed (and, with
\* asciinema, uploaded): README.md, "Records shell sessions and upload to
\* asciinema.org".
RecordingClosed == \A c \in Channels :
  (shell[c] = "run" /\ link[io[c]] = "closed" /\ link[c] = "closed")
    ~> (shell[c] = "done" \/ ~up)
=============================================================================
