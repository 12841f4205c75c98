------------------------------ MODULE ScpSink ------------------------------
(***************************************************************************)
(* The receiving side of scp (os/command/scp.go, sinkMode): the loop that  *)
(* reads command lines and the bytes of files from a session channel, and  *)
(* a client that does what scp -t expects of it: it sends one command,     *)
(* waits for the reply byte, and sends the bytes of a file after the reply *)
(* to its C command.                                                       *)
(*                                                                         *)
(* The channel carries tokens: a command line, a block of a file's data or *)
(* the zero byte behind it.                                                *)
(***************************************************************************)
EXTENDS Integers, Sequences, SequencesExt

CONSTANTS
  FileNames,  \* names of the files the client uploads
  DirNames,   \* names of the directories
  Sizes,      \* sizes of the files, in blocks
  Limit,      \* server.receiveFileSizeLimit, 0 for none
  MaxMsgs     \* bound on the commands of the client

ASSUME SinkAssumption ==
  /\ Sizes \subseteq Nat /\ Limit \in Nat /\ MaxMsgs \in Nat
  /\ FileNames \cap DirNames = {}

\* scp_OK and scp_ERR.
Replies == {"OK", "ERR"}

\* "bad" is a line that does not parse, "T" a time stamp.
Commands ==
  [op : {"C"}, name : FileNames, size : Sizes] \cup [op : {"D"}, name : DirNames]
    \cup [op : {"E", "T", "bad"}]

Block == [op |-> "data"]
Zero  == [op |-> "zero"]
Greeting == [op |-> "greeting"]

VARIABLES
  pc,      \* "start", "cmd", "data" or "done"
  cwd,     \* the server's current directory, below the target of the upload
  cur,     \* the file that is being received
  left,    \* blocks of it still to come
  files,   \* the files on the disk: directory, name and length
  result,  \* what sinkMode returns
  stream,  \* tokens on their way to the server
  replies, \* replies on their way to the client
  link,    \* "open", or "closed" by the client
  asked,   \* what the client waits for a reply to, Greeting at first
  waiting, \* whether it does
  dir,     \* the directory the client is in
  stored,  \* the files the client has been told are stored
  spoilt,  \* a directory was refused or a write has failed (history)
  msgs     \* number of commands the client has sent

serverVars == <<pc, cwd, cur, left, files, result, spoilt>>
clientVars == <<link, asked, waiting, dir, stored, msgs>>
vars == <<serverVars, clientVars, stream, replies>>

At(d, n, len) == [dir |-> d, name |-> n, len |-> len]

\* The files fs without the one called n in d.
Without(fs, d, n) == {f \in fs : f.dir # d \/ f.name # n}

AtRest ==
  /\ cwd = <<>> /\ result = 0 /\ spoilt = FALSE
  /\ cur = Greeting /\ left = 0
  /\ files = {} /\ stored = {}
  /\ stream = <<>> /\ replies = <<>>
  /\ link = "open" /\ asked = Greeting /\ dir = <<>>
  /\ msgs = 0

Init == AtRest /\ pc = "start" /\ waiting = TRUE

-----------------------------------------------------------------------------
(* The client.                                                             *)

\* It leaves a directory only after it has entered one.  A file that is sent
\* again counts as stored when it has arrived.
ClientCommand(cmd) ==
  /\ link = "open" /\ ~waiting /\ msgs < MaxMsgs
  /\ cmd.op = "E" => dir # <<>>
  /\ stream' = Append(stream, cmd)
  /\ asked' = cmd /\ waiting' = TRUE /\ msgs' = msgs + 1
  /\ stored' = IF cmd.op = "C" THEN Without(stored, dir, cmd.name) ELSE stored
  /\ UNCHANGED <<serverVars, link, dir, replies>>

\* The reply to C, if it is OK, calls for the data.
ClientSendsFile(r) ==
  /\ asked.op = "C" /\ r = "OK"
  /\ stream' = stream \o [i \in 1..asked.size |-> Block] \o <<Zero>>
  /\ asked' = [asked EXCEPT !.op = "file"]
  /\ UNCHANGED <<waiting, dir, stored>>

\* Any other reply concludes a command.  A directory that was refused is not
\* entered.
ClientConcludes(r) ==
  /\ ~(asked.op = "C" /\ r = "OK")
  /\ waiting' = FALSE
  /\ dir' = CASE asked.op = "D" /\ r = "OK" -> Append(dir, asked.name)
              [] asked.op = "E"             -> Front(dir)
              [] OTHER                      -> dir
  /\ stored' = IF asked.op = "file" /\ r = "OK"
               THEN stored \cup {At(dir, asked.name, asked.size)} ELSE stored
  /\ UNCHANGED <<asked, stream>>

ClientReply ==
  /\ link = "open" /\ waiting /\ replies # <<>>
  /\ ClientSendsFile(Head(replies)) \/ ClientConcludes(Head(replies))
  /\ replies' = Tail(replies)
  /\ UNCHANGED <<serverVars, link, msgs>>

\* The client goes, also in the middle of a file or of a line.
ClientClose ==
  /\ link = "open"
  /\ link' = "closed"
  /\ \E n \in 0..Len(stream) : stream' = SubSeq(stream, 1, n)
  /\ UNCHANGED <<serverVars, asked, waiting, dir, stored, msgs, replies>>

Client == (\E cmd \in Commands : ClientCommand(cmd)) \/ ClientReply \/ ClientClose

-----------------------------------------------------------------------------
(* The server.                                                             *)

Reply(r) == replies' = Append(replies, r)

Start ==
  /\ pc = "start"
  /\ pc' = "cmd" /\ Reply("OK")
  /\ UNCHANGED <<cwd, cur, left, files, result, spoilt, clientVars, stream>>

\* The server reads the line cmd, which is next in the stream.
Line(op) ==
  /\ pc = "cmd" /\ stream # <<>> /\ Head(stream).op = op
  /\ stream' = Tail(stream)
  /\ UNCHANGED <<result, clientVars>>

\* Mutated TooLarge: the limit is not looked at.
NeverTooLarge(size) == FALSE

TooLarge(size) == Limit > 0 /\ size > Limit

\* Mutated FileCommand: it goes on after the reply to a size that is too large.
FileCommandGoesOn ==
  /\ Line("C")
  /\ replies' = replies \o (IF TooLarge(Head(stream).size) THEN <<"ERR", "OK">> ELSE <<"OK">>)
  /\ pc' = "data" /\ cur' = Head(stream) /\ left' = Head(stream).size
  /\ files' = Without(files, cwd, cur'.name) \cup {At(cwd, cur'.name, 0)}
  /\ UNCHANGED <<cwd, spoilt>>

\* C: the file is created, or truncated, unless it is too large or the disk
\* refuses it.
FileCommand ==
  /\ Line("C")
  /\ \/ /\ Reply("ERR")
        /\ UNCHANGED <<pc, cur, left, files>>
     \/ /\ ~TooLarge(Head(stream).size)
        /\ Reply("OK")
        /\ pc' = "data" /\ cur' = Head(stream) /\ left' = Head(stream).size
        /\ files' = Without(files, cwd, cur'.name) \cup {At(cwd, cur'.name, 0)}
  /\ UNCHANGED <<cwd, spoilt>>

\* Mutated DirCommand: the directory is made and not entered.
DirCommandStays ==
  /\ Line("D")
  /\ \/ Reply("OK") /\ UNCHANGED spoilt
     \/ Reply("ERR") /\ spoilt' = TRUE
  /\ UNCHANGED <<pc, cwd, cur, left, files>>

\* D: the directory is entered before it is made.
DirCommand ==
  /\ Line("D")
  /\ cwd' = Append(cwd, Head(stream).name)
  /\ \/ Reply("OK") /\ UNCHANGED spoilt
     \/ Reply("ERR") /\ spoilt' = TRUE
  /\ UNCHANGED <<pc, cur, left, files>>

\* Mutated EndCommand: no reply.
EndCommandSilent ==
  /\ Line("E")
  /\ cwd' = Front(cwd)
  /\ UNCHANGED <<pc, cur, left, files, spoilt, replies>>

\* E goes one directory up.  What is above the target counts as the target: the
\* client goes there only when it is not in step any more.
EndCommand ==
  /\ Line("E")
  /\ cwd' = Front(cwd)
  /\ Reply("OK")
  /\ UNCHANGED <<pc, cur, left, files, spoilt>>

OtherCommand ==
  /\ \/ Line("T")   /\ Reply("OK")
     \/ Line("bad") /\ Reply("ERR")
  /\ UNCHANGED <<pc, cwd, cur, left, files, spoilt>>

\* A line that starts with what is left of a file: up to a line feed in the
\* data, or up to the end of the next command.
Garbage ==
  /\ pc = "cmd" /\ stream # <<>> /\ Head(stream) \in {Block, Zero}
  /\ \E k \in 1..Len(stream) :
       /\ \A i \in 1..(k - 1) : stream[i] \in {Block, Zero}
       /\ stream[k] # Zero
       /\ stream' = SubSeq(stream, k + 1, Len(stream))
  /\ Reply("ERR")
  /\ UNCHANGED <<pc, cwd, cur, left, files, result, spoilt, clientVars>>

\* Mutated ReadEOF: the end is skipped like an empty line.
ReadEOFSkipped == FALSE

\* The end of the stream, or another error of the channel.
ReadEOF ==
  /\ pc = "cmd" /\ link = "closed"
  /\ \A i \in 1..Len(stream) : stream[i] \in {Block, Zero}
  /\ pc' = "done" /\ result' \in {0, 1}
  /\ UNCHANGED <<cwd, cur, left, files, spoilt, clientVars, stream, replies>>

\* io.CopyN takes the next block, whatever it is, and writes it; when the write
\* fails the file is given up and not closed.
CopyBlock ==
  /\ pc = "data" /\ left > 0 /\ stream # <<>>
  /\ stream' = Tail(stream)
  /\ \/ /\ left' = left - 1
        /\ files' = Without(files, cwd, cur.name) \cup {At(cwd, cur.name, cur.size - left')}
        /\ UNCHANGED <<pc, spoilt, replies>>
     \/ /\ Reply("ERR")
        /\ pc' = "cmd" /\ spoilt' = TRUE
        /\ UNCHANGED <<left, files>>
  /\ UNCHANGED <<cwd, cur, result, clientVars>>

\* The client has gone in the middle of a file: what has come stays.
CopyCut ==
  /\ pc = "data" /\ left > 0 /\ stream = <<>> /\ link = "closed"
  /\ pc' = "cmd" /\ Reply("ERR")
  /\ UNCHANGED <<cwd, cur, left, files, result, spoilt, clientVars, stream>>

\* The copy is complete: the byte behind the file is discarded.  If it never
\* comes both replies are sent.
FileEnd ==
  /\ pc = "data" /\ left = 0
  /\ \/ stream # <<>> /\ stream' = Tail(stream) /\ Reply("OK")
     \/ /\ stream = <<>> /\ link = "closed"
        /\ replies' = replies \o <<"ERR", "OK">> /\ UNCHANGED stream
  /\ pc' = "cmd"
  /\ UNCHANGED <<cwd, cur, left, files, result, spoilt, clientVars>>

Server ==
  \/ Start \/ FileCommand \/ DirCommand \/ EndCommand \/ OtherCommand
  \/ Garbage \/ ReadEOF \/ CopyBlock \/ CopyCut \/ FileEnd

-----------------------------------------------------------------------------
Next == Client \/ Server

Spec == Init /\ [][Next]_vars

\* The goroutine runs, and the client reads the replies.
FairSpec == Spec /\ WF_vars(Server) /\ WF_vars(ClientReply)

-----------------------------------------------------------------------------
(* Properties.                                                             *)

Paths == Seq(DirNames)
Entries == [dir : Paths, name : FileNames, len : Nat]

TypeOK ==
  /\ pc \in {"start", "cmd", "data", "done"}
  /\ cwd \in Paths /\ dir \in Paths
  /\ cur = Greeting \/ (cur \in Commands /\ cur.op = "C")
  /\ left \in Nat /\ result \in {0, 1}
  /\ files \subseteq Entries /\ stored \subseteq Entries
  /\ stream \in Seq(Commands \cup {Block, Zero})
  /\ replies \in Seq(Replies)
  /\ link \in {"open", "closed"} /\ waiting \in BOOLEAN /\ spoilt \in BOOLEAN
  /\ msgs \in 0..MaxMsgs

\* A file the client was told is stored is on the disk, whole and in the
\* directory the client meant, however many directories it went through and
\* whatever was refused; until a directory is refused, which moves the server
\* away from the client, or a write fails.
StoredFilesAreThere == ~spoilt => stored \subseteq files

\* Until then every command is answered once: a reply is one the client waits
\* for, and the server has read all that was sent before it.
RepliesInTurn == ~spoilt /\ link = "open" =>
  Len(replies) <= 1 /\ (replies # <<>> => waiting /\ stream = <<>>)

\* No file is larger than the limit, whatever the client, also one that is not
\* in step any more: config.yaml, "Max size allowed for SCP/SFTP file upload in
\* bytes".
FilesWithinLimit == \A f \in files : Limit > 0 => f.len <= Limit

\* The client and the server do not wait for each other.
CommandsAnswered == waiting /\ ~spoilt ~> ~waiting \/ link = "closed" \/ spoilt

\* Once the client has gone the goroutine returns, which the model of the
\* session channels takes for granted (SessionChannels, ScpFinish).
SinkReturns == link = "closed" ~> pc = "done"
=============================================================================
