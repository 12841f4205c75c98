---------------------------- MODULE ScpSinkProofs ----------------------------
(***************************************************************************)
(* Theorems about the receiving side of scp (ScpSink): what is stored is   *)
(* what the client was told, replies come in turn, and no file exceeds the *)
(* limit, for any names, sizes and limit.                                  *)
(***************************************************************************)
EXTENDS ScpSink, SequenceTheorems, TLAPS

(* What the client may be waiting for.                                     *)
Questions == {Greeting} \cup Commands \cup [op : {"file"}, name : FileNames, size : Sizes]

(* What is left of a file in the stream.                                   *)
Rest == {Block, Zero}

(* A file that is being received is not too large, and no file is.         *)
LimitInv ==
  /\ FilesWithinLimit
  /\ pc = "data" => cur \in Commands /\ cur.op = "C" /\ left <= cur.size /\ ~TooLarge(cur.size)

(* No file called n in d counts as stored.                                 *)
Unstored(d, n) == \A f \in stored : f.dir # d \/ f.name # n

(* A file that may still be written to does not count as stored.  A command *)
(* is alone in the stream, so that it is executed where it was sent.       *)
StoredInv == ~spoilt =>
  /\ stored \subseteq files
  /\ pc = "start" => stream = <<>>
  /\ pc = "data" => Unstored(cwd, cur.name) /\ \A i \in 1..Len(stream) : stream[i] \in Rest
  /\ \A i \in 1..Len(stream) : stream[i] \notin Rest =>
       Len(stream) = 1 /\ (stream[i].op = "C" => Unstored(cwd, stream[i].name))

(* A command is on its way to the server, or its reply on its way back.    *)
Sent ==
  /\ asked \in Commands /\ pc = "cmd" /\ stream = <<asked>> /\ replies = <<>>
  /\ cwd = dir

Answered ==
  /\ asked \in Commands /\ stream = <<>>
  /\ \E r \in Replies :
       /\ replies = <<r>>
       /\ IF asked.op = "C" /\ r = "OK"
          THEN /\ pc = "data" /\ cur = asked /\ left = asked.size
               /\ At(dir, asked.name, 0) \in files
          ELSE pc = "cmd"
       /\ asked.op = "D" => r = "OK"
  /\ cwd = CASE asked.op = "D" -> Append(dir, asked.name)
             [] asked.op = "E" -> Front(dir)
             [] OTHER          -> dir

(* The bytes of a file are on their way, or their reply is on its way back. *)
Sending ==
  /\ asked.op = "file" /\ pc = "data" /\ cwd = dir /\ replies = <<>>
  /\ cur.name = asked.name /\ cur.size = asked.size /\ Len(stream) = left + 1
  /\ At(dir, asked.name, asked.size - left) \in files

Delivered ==
  /\ asked.op = "file" /\ pc = "cmd" /\ cwd = dir /\ stream = <<>>
  /\ replies = <<"OK">>
  /\ At(dir, asked.name, asked.size) \in files

Opening ==
  /\ asked = Greeting /\ cwd = dir /\ stream = <<>>
  /\ \/ pc = "start" /\ replies = <<>>
     \/ pc = "cmd"   /\ replies = <<"OK">>

Resting == pc = "cmd" /\ stream = <<>> /\ replies = <<>> /\ cwd = dir

(* While the client is there it and the server are in one of these.        *)
StepInv == ~spoilt /\ link = "open" =>
  IF waiting THEN Opening \/ Sent \/ Answered \/ Sending \/ Delivered ELSE Resting

Types == TypeOK /\ asked \in Questions

IInv == Types /\ LimitInv /\ StoredInv /\ StepInv

-----------------------------------------------------------------------------
(* Sequences: what the steps do to the stream and to the directories.      *)

LEMMA FrontType ==
  ASSUME NEW S, NEW q \in Seq(S)
  PROVE  Front(q) \in Seq(S)
BY DEF Front

LEMMA TailKeeps ==
  ASSUME NEW S, NEW q \in Seq(S), q # <<>>
  PROVE  /\ Tail(q) \in Seq(S) /\ Len(Tail(q)) = Len(q) - 1
         /\ Head(q) = q[1] /\ Head(q) \in S
         /\ \A i \in 1..Len(Tail(q)) : Tail(q)[i] = q[i + 1]
OBVIOUS

(* A stream that starts with a command, in step, is that command.          *)
LEMMA CommandAlone ==
  ASSUME NEW S, NEW q \in Seq(S), Len(q) = 1
  PROVE  /\ q = <<q[1]>> /\ Tail(q) = <<>> /\ q # <<>>
<1>1. Len(<<q[1]>>) = Len(q) /\ \A i \in 1..Len(q) : q[i] = <<q[1]>>[i]
  OBVIOUS
<1>2. q[1] \in S
  OBVIOUS
<1>3. <<q[1]>> \in Seq(S)
  BY <1>2
<1>4. q = <<q[1]>>
  BY <1>1, <1>3, SeqEqual
<1>5. Tail(q) \in Seq(S) /\ Len(Tail(q)) = 0
  OBVIOUS
<1>6. q # <<>>
  OBVIOUS
<1> QED  BY <1>4, <1>5, <1>6, EmptySeq

(* The bytes of a file.                                                    *)
LEMMA FileBytes ==
  ASSUME NEW n \in Nat
  PROVE  LET q == <<>> \o [i \in 1..n |-> Block] \o <<Zero>>
         IN  /\ q \in Seq(Rest) /\ Len(q) = n + 1
             /\ \A i \in 1..Len(q) : q[i] \in Rest
<1>1. [i \in 1..n |-> Block] \in Seq(Rest) /\ Len([i \in 1..n |-> Block]) = n
  BY DEF Rest
<1>2. <<Zero>> \in Seq(Rest) /\ Len(<<Zero>>) = 1
  BY DEF Rest
<1> QED  BY <1>1, <1>2

(* A command is neither a block nor the zero byte.                         *)
LEMMA CommandOps ==
  /\ \A cmd \in Commands : cmd \notin Rest /\ cmd.op \in {"C", "D", "E", "T", "bad"}
  /\ \A cmd \in Commands : cmd.op = "C" => cmd.name \in FileNames /\ cmd.size \in Sizes
  /\ \A cmd \in Commands : cmd.op = "D" => cmd.name \in DirNames
  /\ \A x \in Rest : x.op \in {"data", "zero"}
  /\ Greeting.op = "greeting" /\ Greeting \notin Commands
<1>1. \A x \in Rest : x.op \in {"data", "zero"}
  BY DEF Rest, Block, Zero
<1>2. \A cmd \in Commands : cmd.op \in {"C", "D", "E", "T", "bad"}
  BY DEF Commands
<1>3. \A cmd \in Commands : cmd.op = "C" => cmd.name \in FileNames /\ cmd.size \in Sizes
  BY DEF Commands
<1>4. \A cmd \in Commands : cmd.op = "D" => cmd.name \in DirNames
  BY DEF Commands
<1>5. Greeting.op = "greeting"
  BY DEF Greeting
<1> QED  BY <1>1, <1>2, <1>3, <1>4, <1>5

LEMMA InitInv == Init => IInv
<1> SUFFICES ASSUME Init PROVE IInv
  OBVIOUS
<1>1. Types
  <2>1. <<>> \in Paths /\ <<>> \in Seq(Commands \cup {Block, Zero}) /\ <<>> \in Seq(Replies)
    BY DEF Paths
  <2>2. 0 \in 0..MaxMsgs
    BY SinkAssumption DEF SinkAssumption
  <2>3. Greeting \in Questions
    BY DEF Questions
  <2> QED  BY <2>1, <2>2, <2>3 DEF Init, AtRest, Types, TypeOK
<1>2. LimitInv /\ StoredInv
  BY DEF Init, AtRest, LimitInv, StoredInv, FilesWithinLimit
<1>3. StepInv
  BY DEF Init, AtRest, StepInv, Opening
<1> QED  BY <1>1, <1>2, <1>3 DEF IInv
-----------------------------------------------------------------------------
(* Types and the limit, action by action.                                  *)

(* What a line that the server reads leaves in place.                      *)
LEMMA LineTypes ==
  ASSUME Types, NEW op \in {"C", "D", "E", "T", "bad"}, Line(op)
  PROVE  /\ Head(stream) \in Commands /\ Head(stream).op = op
         /\ stream' \in Seq(Commands \cup Rest) /\ stream' = Tail(stream)
         /\ UNCHANGED <<result, link, asked, waiting, dir, stored, msgs>>
<1>1. stream \in Seq(Commands \cup Rest) /\ stream # <<>>
  BY DEF Types, TypeOK, Line, Rest
<1>2. Head(stream) \in Commands \cup Rest /\ Tail(stream) \in Seq(Commands \cup Rest)
  BY <1>1, TailKeeps
<1>3. Head(stream) \in Commands /\ Head(stream).op = op
  BY <1>2, CommandOps DEF Line
<1> QED  BY <1>2, <1>3 DEF Line, clientVars

LEMMA ReplyTypes ==
  ASSUME Types, NEW r \in Replies, Reply(r)
  PROVE  replies' \in Seq(Replies)
BY DEF Reply, Types, TypeOK

(* The files with one of them set to a new length.                         *)
LEMMA FilesType ==
  ASSUME Types, NEW n \in FileNames, NEW len \in Nat
  PROVE  Without(files, cwd, n) \cup {At(cwd, n, len)} \subseteq Entries
BY DEF Types, TypeOK, Without, At, Entries

LEMMA ClientCommandTypes ==
  ASSUME Types, NEW cmd \in Commands, ClientCommand(cmd)
  PROVE  Types'
<1>1. cmd \in Questions /\ msgs + 1 \in 0..MaxMsgs
  BY SinkAssumption DEF Questions, ClientCommand, Types, TypeOK, SinkAssumption
<1>2. Append(stream, cmd) \in Seq(Commands \cup {Block, Zero})
  BY DEF Types, TypeOK
<1>3. stored' \subseteq stored
  BY DEF ClientCommand, Without
<1> QED  BY <1>1, <1>2, <1>3 DEF ClientCommand, serverVars, Types, TypeOK

LEMMA ClientReplyTypes ==
  ASSUME Types, ClientReply
  PROVE  Types'
<1>1. UNCHANGED <<serverVars, link, msgs>> /\ replies' \in Seq(Replies) /\ Head(replies) \in Replies
  BY TailKeeps DEF ClientReply, Types, TypeOK
<1>2. CASE ClientSendsFile(Head(replies))
  <2>1. asked \in [op : {"C"}, name : FileNames, size : Sizes]
    BY <1>2 DEF ClientSendsFile, Types, Questions, Greeting, Commands
  <2>2. asked' \in Questions /\ asked.size \in Nat
    BY <1>2, <2>1, SinkAssumption DEF ClientSendsFile, Questions, SinkAssumption
  <2>3. [i \in 1..asked.size |-> Block] \in Seq({Block, Zero}) /\ <<Zero>> \in Seq({Block, Zero})
    BY <2>2
  <2>4. stream' \in Seq(Commands \cup {Block, Zero})
    BY <1>2, <2>3 DEF ClientSendsFile, Types, TypeOK
  <2> QED  BY <1>1, <1>2, <2>2, <2>4 DEF ClientSendsFile, serverVars, Types, TypeOK
<1>3. CASE ClientConcludes(Head(replies))
  <2>1. asked.op = "D" => asked \in Commands /\ asked.name \in DirNames
    BY CommandOps DEF Types, Questions, Greeting
  <2>2. dir' \in Paths
    BY <1>3, <2>1, FrontType DEF ClientConcludes, Types, TypeOK, Paths
  <2>3. asked.op = "file" => asked.name \in FileNames /\ asked.size \in Nat
    BY CommandOps, SinkAssumption DEF Types, Questions, Greeting, SinkAssumption
  <2>4. stored' \subseteq Entries
    BY <1>3, <2>3 DEF ClientConcludes, Types, TypeOK, At, Entries
  <2> QED  BY <1>1, <1>3, <2>2, <2>4 DEF ClientConcludes, serverVars, Types, TypeOK
<1> QED  BY <1>2, <1>3 DEF ClientReply

LEMMA ClientCloseTypes ==
  ASSUME Types, ClientClose
  PROVE  Types'
<1>1. stream' \in Seq(Commands \cup {Block, Zero})
  BY DEF ClientClose, Types, TypeOK
<1> QED  BY <1>1 DEF ClientClose, serverVars, Types, TypeOK

LEMMA FileCommandTypes ==
  ASSUME Types, FileCommand
  PROVE  Types'
<1>1. /\ Head(stream) \in Commands /\ Head(stream).op = "C"
      /\ stream' \in Seq(Commands \cup {Block, Zero})
      /\ UNCHANGED <<result, link, asked, waiting, dir, stored, msgs, cwd, spoilt>>
  BY LineTypes DEF FileCommand, Rest
<1>2. Head(stream).name \in FileNames /\ Head(stream).size \in Nat
  BY <1>1, CommandOps, SinkAssumption DEF SinkAssumption
<1>3. replies' \in Seq(Replies)
  BY ReplyTypes DEF FileCommand, Replies
<1>4. Without(files, cwd, Head(stream).name) \cup {At(cwd, Head(stream).name, 0)} \subseteq Entries
  BY <1>2, FilesType
<1>5. pc' \in {"cmd", "data"} /\ cur' \in {cur, Head(stream)} /\ left' \in Nat /\ files' \subseteq Entries
  BY <1>2, <1>4 DEF FileCommand, Line, Types, TypeOK
<1> QED  BY <1>1, <1>3, <1>5 DEF Types, TypeOK

LEMMA DirectoryTypes ==
  ASSUME Types, DirCommand \/ EndCommand \/ OtherCommand
  PROVE  Types'
<1>1. CASE DirCommand
  <2>1. /\ Head(stream).name \in DirNames
        /\ stream' \in Seq(Commands \cup {Block, Zero})
        /\ UNCHANGED <<result, link, asked, waiting, dir, stored, msgs>>
    BY <1>1, LineTypes, CommandOps DEF DirCommand, Rest
  <2>2. cwd' \in Paths
    BY <1>1, <2>1 DEF DirCommand, Types, TypeOK, Paths
  <2>3. replies' \in Seq(Replies) /\ spoilt' \in BOOLEAN
    BY <1>1, ReplyTypes DEF DirCommand, Replies, Types, TypeOK
  <2> QED  BY <1>1, <2>1, <2>2, <2>3 DEF DirCommand, Types, TypeOK
<1>2. CASE EndCommand
  <2>1. /\ stream' \in Seq(Commands \cup {Block, Zero})
        /\ UNCHANGED <<result, link, asked, waiting, dir, stored, msgs>>
    BY <1>2, LineTypes DEF EndCommand, Rest
  <2>2. cwd' \in Paths
    BY <1>2, FrontType DEF EndCommand, Types, TypeOK, Paths
  <2>3. replies' \in Seq(Replies)
    BY <1>2, ReplyTypes DEF EndCommand, Replies
  <2> QED  BY <1>2, <2>1, <2>2, <2>3 DEF EndCommand, Types, TypeOK
<1>3. CASE OtherCommand
  <2>1. /\ stream' \in Seq(Commands \cup {Block, Zero})
        /\ UNCHANGED <<result, link, asked, waiting, dir, stored, msgs>>
    BY <1>3, LineTypes DEF OtherCommand, Rest
  <2>2. replies' \in Seq(Replies)
    BY <1>3, ReplyTypes DEF OtherCommand, Replies
  <2> QED  BY <1>3, <2>1, <2>2 DEF OtherCommand, Types, TypeOK
<1> QED  BY <1>1, <1>2, <1>3

LEMMA DataTypes ==
  ASSUME Types, LimitInv, CopyBlock \/ CopyCut \/ FileEnd
  PROVE  Types'
<1>1. CASE CopyBlock
  <2>1. stream' \in Seq(Commands \cup {Block, Zero})
    BY <1>1, TailKeeps DEF CopyBlock, Types, TypeOK
  <2>2. replies' \in Seq(Replies)
    BY <1>1, ReplyTypes DEF CopyBlock, Replies, Types, TypeOK
  <2>3. left' \in Nat /\ pc' \in {"cmd", "data"}
    BY <1>1 DEF CopyBlock, Types, TypeOK
  <2>4. cur.name \in FileNames /\ cur.size \in Nat /\ left <= cur.size
    BY <1>1, CommandOps, SinkAssumption DEF CopyBlock, LimitInv, SinkAssumption
  <2>5. left' = left - 1 => cur.size - left' \in Nat
    BY <2>4 DEF Types, TypeOK
  <2>6. files' \subseteq Entries
    BY <1>1, <2>4, <2>5, FilesType DEF CopyBlock, Types, TypeOK
  <2> QED  BY <1>1, <2>1, <2>2, <2>3, <2>6 DEF CopyBlock, clientVars, Types, TypeOK
<1>2. CASE CopyCut
  <2>1. replies' \in Seq(Replies)
    BY <1>2, ReplyTypes DEF CopyCut, Replies
  <2> QED  BY <1>2, <2>1 DEF CopyCut, clientVars, Types, TypeOK
<1>3. CASE FileEnd
  <2>1. stream' \in Seq(Commands \cup {Block, Zero})
    BY <1>3, TailKeeps DEF FileEnd, Types, TypeOK
  <2>2. replies \o <<"ERR", "OK">> \in Seq(Replies)
    BY DEF Types, TypeOK, Replies
  <2>3. replies' \in Seq(Replies)
    BY <1>3, <2>2, ReplyTypes DEF FileEnd, Replies
  <2> QED  BY <1>3, <2>1, <2>3 DEF FileEnd, clientVars, Types, TypeOK
<1> QED  BY <1>1, <1>2, <1>3

LEMMA LoopTypes ==
  ASSUME Types, Start \/ Garbage \/ ReadEOF
  PROVE  Types'
<1>1. CASE Start
  <2>1. replies' \in Seq(Replies)
    BY <1>1, ReplyTypes DEF Start, Replies
  <2> QED  BY <1>1, <2>1 DEF Start, clientVars, Types, TypeOK
<1>2. CASE Garbage
  <2>1. replies' \in Seq(Replies)
    BY <1>2, ReplyTypes DEF Garbage, Replies
  <2>2. stream' \in Seq(Commands \cup {Block, Zero})
    BY <1>2, SubSeqProperties DEF Garbage, Types, TypeOK
  <2> QED  BY <1>2, <2>1, <2>2 DEF Garbage, clientVars, Types, TypeOK
<1>3. CASE ReadEOF
  BY <1>3 DEF ReadEOF, clientVars, Types, TypeOK
<1> QED  BY <1>1, <1>2, <1>3

LEMMA NextTypes ==
  ASSUME Types, LimitInv, [Next]_vars
  PROVE  Types'
<1>1. CASE Client
  BY <1>1, ClientCommandTypes, ClientReplyTypes, ClientCloseTypes DEF Client
<1>2. CASE Server
  BY <1>2, FileCommandTypes, DirectoryTypes, DataTypes, LoopTypes DEF Server
<1>3. CASE UNCHANGED vars
  BY <1>3 DEF vars, serverVars, clientVars, Types, TypeOK
<1> QED  BY <1>1, <1>2, <1>3 DEF Next

(* Only C opens a file, after a look at the limit, and only CopyBlock       *)
(* lengthens one, within the size that was announced.                      *)
LEMMA NextLimit ==
  ASSUME Types, LimitInv, [Next]_vars
  PROVE  LimitInv'
<1>1. CASE Client
  <2>1. UNCHANGED serverVars
    BY <1>1 DEF Client, ClientCommand, ClientReply, ClientClose
  <2> QED  BY <2>1 DEF serverVars, LimitInv, FilesWithinLimit
<1>2. CASE FileCommand
  <2>1. Head(stream) \in Commands /\ Head(stream).op = "C" /\ Head(stream).size \in Nat
    BY <1>2, LineTypes, CommandOps, SinkAssumption DEF FileCommand, SinkAssumption
  <2>2. pc = "cmd"
    BY <1>2 DEF FileCommand, Line
  <2>3. CASE UNCHANGED <<pc, cur, left, files>>
    BY <2>2, <2>3 DEF LimitInv, FilesWithinLimit
  <2>4. CASE /\ ~TooLarge(Head(stream).size)
             /\ pc' = "data" /\ cur' = Head(stream) /\ left' = Head(stream).size
             /\ files' = Without(files, cwd, cur'.name) \cup {At(cwd, cur'.name, 0)}
    <3>1. FilesWithinLimit'
      BY <2>4, SinkAssumption DEF LimitInv, FilesWithinLimit, Without, At, SinkAssumption
    <3> QED  BY <2>1, <2>4, <3>1 DEF LimitInv
  <2> QED  BY <1>2, <2>3, <2>4 DEF FileCommand
<1>3. CASE CopyBlock
  <2>1. /\ cur \in Commands /\ cur.op = "C" /\ cur.size \in Nat /\ left \in Nat
        /\ left <= cur.size /\ ~TooLarge(cur.size) /\ cur' = cur
    BY <1>3, CommandOps, SinkAssumption DEF CopyBlock, LimitInv, Types, TypeOK, SinkAssumption
  <2>2. CASE /\ left' = left - 1 /\ pc' = pc
             /\ files' = Without(files, cwd, cur.name) \cup {At(cwd, cur.name, cur.size - left')}
    <3>1. Limit > 0 => cur.size - left' <= Limit
      BY <1>3, <2>1, <2>2, SinkAssumption DEF CopyBlock, TooLarge, SinkAssumption
    <3>2. FilesWithinLimit'
      BY <2>2, <3>1 DEF LimitInv, FilesWithinLimit, Without, At
    <3> QED  BY <2>1, <2>2, <3>2 DEF LimitInv
  <2>3. CASE pc' = "cmd" /\ UNCHANGED <<left, files>>
    BY <2>3 DEF LimitInv, FilesWithinLimit
  <2> QED  BY <1>3, <2>2, <2>3 DEF CopyBlock
<1>4. CASE Start \/ DirCommand \/ EndCommand \/ OtherCommand \/ Garbage \/ ReadEOF \/ CopyCut \/ FileEnd
  <2>1. files' = files /\ pc' # "data"
    BY <1>4 DEF Start, DirCommand, EndCommand, OtherCommand, Garbage, ReadEOF, CopyCut, FileEnd, Line
  <2> QED  BY <2>1 DEF LimitInv, FilesWithinLimit
<1>5. CASE UNCHANGED vars
  BY <1>5 DEF vars, serverVars, LimitInv, FilesWithinLimit
<1> QED  BY <1>1, <1>2, <1>3, <1>4, <1>5 DEF Next, Server

(* The states of the server and of the client are what TypeOK says.        *)
THEOREM SinkTypes == Spec => []TypeOK
<1>1. Init => Types /\ LimitInv
  BY InitInv DEF IInv
<1>2. Types /\ LimitInv /\ [Next]_vars => (Types /\ LimitInv)'
  BY NextTypes, NextLimit
<1>3. Types /\ LimitInv => TypeOK
  BY DEF Types
<1> QED  BY <1>1, <1>2, <1>3, PTL DEF Spec

(* For every limit, whatever the client sends and wherever it stops, no    *)
(* file that sinkMode writes grows beyond the limit: C is refused before   *)
(* the file is opened, and the copy counts the bytes.                      *)
THEOREM SinkKeepsLimit == Spec => []FilesWithinLimit
<1>1. Init => Types /\ LimitInv
  BY InitInv DEF IInv
<1>2. Types /\ LimitInv /\ [Next]_vars => (Types /\ LimitInv)'
  BY NextTypes, NextLimit
<1>3. Types /\ LimitInv => FilesWithinLimit
  BY DEF LimitInv
<1> QED  BY <1>1, <1>2, <1>3, PTL DEF Spec
-----------------------------------------------------------------------------
(* The client and the server in step.                                      *)

(* The line that is read was sent in the directory the server is in, and   *)
(* nothing comes behind it.                                                *)
LEMMA LineInStep ==
  ASSUME IInv, NEW op \in {"C", "D", "E", "T", "bad"}, Line(op)
  PROVE  /\ ~spoilt => /\ stream' = <<>> /\ stored \subseteq files
                       /\ op = "C" => Unstored(cwd, Head(stream).name)
         /\ ~spoilt /\ link = "open" => waiting /\ Sent /\ Head(stream) = asked
<1>1. stream \in Seq(Commands \cup Rest) /\ stream # <<>>
  BY DEF IInv, Types, TypeOK, Line, Rest
<1>2. Head(stream) \in Commands /\ Head(stream).op = op /\ stream' = Tail(stream)
  BY LineTypes DEF IInv
<1>3. Head(stream) = stream[1] /\ Head(stream) \notin Rest /\ Len(stream) \in Nat /\ Len(stream) >= 1
  BY <1>1, <1>2, TailKeeps, CommandOps
<1>4. ~spoilt => Len(stream) = 1 /\ (op = "C" => Unstored(cwd, Head(stream).name))
  BY <1>2, <1>3 DEF IInv, StoredInv
<1>5. ~spoilt => stream' = <<>> /\ stored \subseteq files
  BY <1>1, <1>2, <1>4, CommandAlone DEF IInv, StoredInv
<1>6. ~spoilt /\ link = "open" => waiting /\ Sent
  BY <1>1 DEF IInv, StepInv, Resting, Opening, Answered, Sending, Delivered, Line
<1>7. Sent => Head(stream) = asked
  BY DEF Sent
<1> QED  BY <1>4, <1>5, <1>6, <1>7

(* The client sends its next command when nothing is under way.            *)
LEMMA ClientCommandStep ==
  ASSUME IInv, NEW cmd \in Commands, ClientCommand(cmd)
  PROVE  StoredInv' /\ StepInv'
<1> SUFFICES ASSUME ~spoilt PROVE StoredInv' /\ StepInv'
  BY DEF ClientCommand, serverVars, StoredInv, StepInv
<1>1. Resting
  BY DEF IInv, StepInv, ClientCommand
<1>2. stream' = <<cmd>> /\ Len(stream') = 1 /\ stream'[1] = cmd
  BY <1>1 DEF Resting, ClientCommand
<1>3. stored' \subseteq stored /\ (cmd.op = "C" => Unstored(cwd, cmd.name)')
  BY <1>1 DEF ClientCommand, Without, Unstored, Resting, serverVars
<1>4. StoredInv'
  BY <1>1, <1>2, <1>3 DEF IInv, StoredInv, Resting, ClientCommand, serverVars
<1>5. Sent'
  BY <1>1, <1>2 DEF Sent, Resting, ClientCommand, serverVars
<1> QED  BY <1>4, <1>5 DEF StepInv, ClientCommand

(* The data follows the reply to C.                                        *)
LEMMA ClientSendsFileStep ==
  ASSUME IInv, ClientReply, ClientSendsFile(Head(replies)), ~spoilt
  PROVE  StoredInv' /\ StepInv'
<1>1. asked \in [op : {"C"}, name : FileNames, size : Sizes] /\ asked.size \in Nat
  BY SinkAssumption DEF ClientSendsFile, IInv, Types, Questions, Greeting, Commands, SinkAssumption
<1>2. Answered
  BY <1>1 DEF IInv, StepInv, ClientReply, ClientSendsFile, Opening, Greeting, Sent, Sending, Delivered
<1>3. /\ pc = "data" /\ cur = asked /\ left = asked.size /\ At(dir, asked.name, 0) \in files
      /\ cwd = dir /\ stream = <<>> /\ replies' = <<>>
  BY <1>2 DEF Answered, ClientReply, ClientSendsFile
<1>4. Len(stream') = asked.size + 1 /\ \A i \in 1..Len(stream') : stream'[i] \in Rest
  BY <1>1, <1>3, FileBytes DEF ClientSendsFile
<1>5. asked'.op = "file" /\ asked'.name = asked.name /\ asked'.size = asked.size
  BY <1>1 DEF ClientSendsFile
<1>6. UNCHANGED <<pc, cwd, cur, left, files, spoilt, stored, dir, waiting, link>>
  BY DEF ClientReply, ClientSendsFile, serverVars
<1>7. StoredInv'
  BY <1>3, <1>4, <1>6 DEF IInv, StoredInv, Unstored
<1>8. asked.size - left = 0
  BY <1>1, <1>3
<1>9. Sending'
  BY <1>3, <1>4, <1>5, <1>6, <1>8 DEF Sending
<1> QED  BY <1>6, <1>7, <1>9 DEF StepInv, ClientReply

(* Any other reply leaves the server at rest where the client is.          *)
LEMMA ClientConcludesStep ==
  ASSUME IInv, ClientReply, ClientConcludes(Head(replies)), ~spoilt
  PROVE  StoredInv' /\ StepInv'
<1>1. UNCHANGED <<pc, cwd, cur, left, files, spoilt, stream, link>> /\ ~waiting'
  BY DEF ClientReply, ClientConcludes, serverVars
<1>2. asked \in Commands => asked.op \in {"C", "D", "E", "T", "bad"}
  BY CommandOps
<1>3. CASE Opening
  <2>1. asked.op = "greeting" /\ pc = "cmd" /\ replies' = <<>> /\ stream = <<>> /\ cwd = dir
    <3>1. replies # <<>> /\ replies' = Tail(replies)
      BY DEF ClientReply
    <3>2. asked = Greeting /\ pc = "cmd" /\ replies = <<"OK">> /\ stream = <<>> /\ cwd = dir
      BY <1>3, <3>1 DEF Opening
    <3> QED  BY <3>1, <3>2, CommandOps
  <2>2. dir' = dir /\ stored' = stored
    BY <2>1 DEF ClientConcludes
  <2>3. Resting'
    BY <1>1, <2>1, <2>2 DEF Resting
  <2> QED  BY <1>1, <2>2, <2>3 DEF StepInv, IInv, StoredInv, Unstored
<1>4. CASE Answered
  <2>1. Head(replies) \in Replies /\ replies = <<Head(replies)>> /\ replies' = <<>>
    BY <1>4 DEF Answered, ClientReply
  <2>2. pc = "cmd" /\ (asked.op = "D" => Head(replies) = "OK") /\ stream = <<>>
    BY <1>4, <2>1 DEF Answered, ClientConcludes
  <2>3. cwd = dir' /\ stored' = stored
    BY <1>2, <1>4, <2>2 DEF Answered, ClientConcludes
  <2>4. Resting'
    BY <1>1, <2>1, <2>2, <2>3 DEF Resting
  <2> QED  BY <1>1, <2>3, <2>4 DEF StepInv, IInv, StoredInv, Unstored
<1>5. CASE Delivered
  <2>1. replies' = <<>> /\ Head(replies) = "OK" /\ dir' = dir
    BY <1>5 DEF Delivered, ClientReply, ClientConcludes
  <2>2. stored' = stored \cup {At(dir, asked.name, asked.size)}
    BY <1>5, <2>1 DEF Delivered, ClientConcludes
  <2>3. Resting'
    BY <1>1, <1>5, <2>1 DEF Delivered, Resting
  <2>4. stream' = <<>> /\ pc' = "cmd" /\ stored' \subseteq files'
    BY <1>1, <1>5, <2>2 DEF Delivered, IInv, StoredInv
  <2> QED  BY <1>1, <2>3, <2>4 DEF StepInv, StoredInv
<1> QED
  BY <1>3, <1>4, <1>5 DEF IInv, StepInv, ClientReply, Sent, Sending

(* A stream that is cut stays in order.                                    *)
LEMMA ClientCloseStep ==
  ASSUME IInv, ClientClose
  PROVE  StoredInv' /\ StepInv'
<1>1. stream \in Seq(Commands \cup Rest)
  BY DEF IInv, Types, TypeOK, Rest
<1>2. PICK n \in 0..Len(stream) : stream' = SubSeq(stream, 1, n)
  BY DEF ClientClose
<1>3. Len(stream') = n /\ \A i \in 1..n : stream'[i] = stream[i]
  BY <1>1, <1>2, SubSeqProperties
<1>4. stream = <<>> => stream' = <<>>
  BY <1>1, <1>2, <1>3
<1>5. UNCHANGED <<pc, cwd, cur, files, spoilt, stored>>
  BY DEF ClientClose, serverVars
<1>6. StoredInv'
  BY <1>1, <1>2, <1>3, <1>4, <1>5 DEF IInv, StoredInv, Unstored
<1> QED  BY <1>6 DEF StepInv, ClientClose

LEMMA FileCommandStep ==
  ASSUME IInv, FileCommand
  PROVE  StoredInv' /\ StepInv'
<1> SUFFICES ASSUME ~spoilt PROVE StoredInv' /\ StepInv'
  BY DEF FileCommand, StoredInv, StepInv
<1>1. /\ stream' = <<>> /\ stored \subseteq files /\ Unstored(cwd, Head(stream).name)
      /\ link = "open" => waiting /\ Sent /\ Head(stream) = asked
  BY LineInStep DEF FileCommand
<1>2. /\ Head(stream) \in Commands /\ Head(stream).op = "C" /\ pc = "cmd"
      /\ UNCHANGED <<link, asked, waiting, dir, stored, cwd, spoilt>>
  BY LineTypes DEF FileCommand, Line, IInv
<1>3. CASE Reply("ERR") /\ UNCHANGED <<pc, cur, left, files>>
  <2>1. link = "open" => Answered'
    BY <1>1, <1>2, <1>3 DEF Sent, Answered, Reply, Replies
  <2> QED  BY <1>1, <1>2, <1>3, <2>1 DEF StoredInv, StepInv
<1>4. CASE /\ Reply("OK")
           /\ pc' = "data" /\ cur' = Head(stream) /\ left' = Head(stream).size
           /\ files' = Without(files, cwd, cur'.name) \cup {At(cwd, cur'.name, 0)}
  <2>1. stored' \subseteq files' /\ Unstored(cwd, cur.name)'
    BY <1>1, <1>2, <1>4 DEF Unstored, Without
  <2>2. StoredInv'
    BY <1>1, <1>4, <2>1 DEF StoredInv
  <2>3. link = "open" => Answered'
    BY <1>1, <1>2, <1>4 DEF Sent, Answered, Reply, Replies
  <2> QED  BY <1>1, <1>2, <2>2, <2>3 DEF StepInv
<1> QED  BY <1>3, <1>4 DEF FileCommand

LEMMA DirectoryStep ==
  ASSUME IInv, DirCommand \/ EndCommand \/ OtherCommand
  PROVE  StoredInv' /\ StepInv'
<1> SUFFICES ASSUME ~spoilt' PROVE StoredInv' /\ StepInv'
  BY DEF StoredInv, StepInv
<1>1. ~spoilt
  BY DEF DirCommand, EndCommand, OtherCommand
<1>2. PICK op \in {"D", "E", "T", "bad"} : Line(op)
  BY DEF DirCommand, EndCommand, OtherCommand
<1>3. /\ stream' = <<>> /\ stored \subseteq files
      /\ link = "open" => waiting /\ Sent /\ Head(stream) = asked
  BY <1>1, <1>2, LineInStep
<1>4. /\ Head(stream) \in Commands /\ Head(stream).op = op /\ pc' = "cmd"
      /\ UNCHANGED <<link, asked, waiting, dir, stored, files>>
  BY <1>2, LineTypes DEF DirCommand, EndCommand, OtherCommand, Line, IInv
<1>5. StoredInv'
  BY <1>3, <1>4 DEF StoredInv
<1>6. ASSUME link = "open" PROVE Answered'
  <2>1. /\ asked' \in Commands /\ asked'.op = op /\ replies = <<>> /\ cwd = dir'
        /\ Head(stream) = asked'
    BY <1>3, <1>4, <1>6 DEF Sent
  <2>2. CASE DirCommand
    <3>1. op = "D"
      BY <1>2, <2>2 DEF DirCommand, Line
    <3>2. replies' = <<"OK">> /\ cwd' = Append(dir', asked'.name)
      BY <2>1, <2>2 DEF DirCommand, Reply
    <3> QED  BY <1>3, <1>4, <2>1, <3>1, <3>2 DEF Answered, Replies
  <2>3. CASE EndCommand
    <3>1. op = "E"
      BY <1>2, <2>3 DEF EndCommand, Line
    <3>2. replies' = <<"OK">> /\ cwd' = Front(dir')
      BY <2>1, <2>3 DEF EndCommand, Reply
    <3> QED  BY <1>3, <1>4, <2>1, <3>1, <3>2 DEF Answered, Replies
  <2>4. CASE OtherCommand
    <3>1. op \in {"T", "bad"}
      BY <1>2, <2>4 DEF OtherCommand, Line
    <3>2. replies' \in {<<"OK">>, <<"ERR">>} /\ cwd' = dir'
      BY <2>1, <2>4 DEF OtherCommand, Reply
    <3> QED  BY <1>3, <1>4, <2>1, <3>1, <3>2 DEF Answered, Replies
  <2> QED  BY <2>2, <2>3, <2>4
<1> QED  BY <1>3, <1>4, <1>5, <1>6 DEF StepInv

LEMMA CopyBlockStep ==
  ASSUME IInv, CopyBlock
  PROVE  StoredInv' /\ StepInv'
<1> SUFFICES ASSUME ~spoilt' PROVE StoredInv' /\ StepInv'
  BY DEF StoredInv, StepInv
<1>1. /\ pc = "data" /\ stream # <<>> /\ stream' = Tail(stream) /\ left' = left - 1 /\ left > 0
      /\ files' = Without(files, cwd, cur.name) \cup {At(cwd, cur.name, cur.size - left')}
      /\ UNCHANGED <<pc, spoilt, replies, cwd, cur, link, asked, waiting, dir, stored>>
      /\ ~spoilt
  BY DEF CopyBlock, clientVars
<1>2. stream \in Seq(Commands \cup Rest) /\ left \in Nat
  BY DEF IInv, Types, TypeOK, Rest
<1>3. /\ Len(stream') = Len(stream) - 1
      /\ \A i \in 1..Len(stream') : stream'[i] = stream[i + 1]
  BY <1>1, <1>2, TailKeeps
<1>4. /\ stored \subseteq files /\ Unstored(cwd, cur.name)
      /\ \A i \in 1..Len(stream) : stream[i] \in Rest
  BY <1>1 DEF IInv, StoredInv
<1>5. \A i \in 1..Len(stream') : stream'[i] \in Rest
  <2> SUFFICES ASSUME NEW i \in 1..Len(stream') PROVE stream'[i] \in Rest
    OBVIOUS
  <2>1. i + 1 \in 1..Len(stream)
    BY <1>2, <1>3
  <2> QED  BY <1>3, <1>4, <2>1
<1>6. stored' \subseteq files' /\ Unstored(cwd, cur.name)'
  BY <1>1, <1>4 DEF Unstored, Without
<1>7. StoredInv'
  BY <1>1, <1>5, <1>6 DEF StoredInv
<1>8. ASSUME link = "open" PROVE waiting /\ Sending'
  <2>1. waiting /\ Sending
    BY <1>1, <1>8 DEF IInv, StepInv, Opening, Sent, Answered, Delivered, Resting
  <2>2. Len(stream') = left' + 1
    BY <1>1, <1>2, <1>3, <2>1 DEF Sending
  <2> QED  BY <1>1, <2>1, <2>2 DEF Sending
<1> QED  BY <1>1, <1>7, <1>8 DEF StepInv

LEMMA FileEndStep ==
  ASSUME IInv, FileEnd \/ CopyCut
  PROVE  StoredInv' /\ StepInv'
<1> SUFFICES ASSUME ~spoilt PROVE StoredInv' /\ StepInv'
  BY DEF FileEnd, CopyCut, StoredInv, StepInv
<1>1. /\ pc = "data" /\ pc' = "cmd"
      /\ UNCHANGED <<files, cwd, spoilt, link, asked, waiting, dir, stored>>
  BY DEF FileEnd, CopyCut, clientVars
<1>2. stream \in Seq(Commands \cup Rest)
  BY DEF IInv, Types, TypeOK, Rest
<1>3. stored \subseteq files /\ \A i \in 1..Len(stream) : stream[i] \in Rest
  BY <1>1 DEF IInv, StoredInv
<1>4. \A i \in 1..Len(stream') : stream'[i] \in Rest
  <2>1. CASE stream # <<>> /\ stream' = Tail(stream)
    <3>1. /\ Len(stream') = Len(stream) - 1
          /\ \A i \in 1..Len(stream') : stream'[i] = stream[i + 1]
      BY <1>2, <2>1, TailKeeps
    <3> SUFFICES ASSUME NEW i \in 1..Len(stream') PROVE stream'[i] \in Rest
      OBVIOUS
    <3>2. i + 1 \in 1..Len(stream)
      BY <1>2, <3>1
    <3> QED  BY <1>3, <3>1, <3>2
  <2>2. CASE stream' = stream
    BY <1>3, <2>2
  <2> QED  BY <2>1, <2>2 DEF FileEnd, CopyCut
<1>5. StoredInv'
  BY <1>1, <1>3, <1>4 DEF StoredInv
<1>6. ASSUME link = "open" PROVE waiting /\ Delivered'
  <2>1. stream # <<>> /\ stream' = Tail(stream) /\ Reply("OK") /\ left = 0
    BY <1>6 DEF FileEnd, CopyCut
  <2>2. waiting /\ Sending
    BY <1>1, <1>6, <2>1 DEF IInv, StepInv, Opening, Sent, Answered, Delivered, Resting
  <2>3. Len(stream) = 1
    BY <2>1, <2>2 DEF Sending
  <2>4. stream' = <<>>
    BY <1>2, <2>1, <2>3, CommandAlone
  <2>5. replies' = <<"OK">>
    BY <2>1, <2>2 DEF Sending, Reply
  <2>6. At(dir, asked.name, asked.size) \in files
    <3>1. asked.op = "file" /\ asked \in Questions
      BY <2>2 DEF Sending, IInv, Types
    <3>2. asked.size \in Nat
      BY <3>1, CommandOps, SinkAssumption DEF Questions, SinkAssumption
    <3>3. asked.size - left = asked.size
      BY <2>1, <3>2
    <3> QED  BY <2>2, <3>3 DEF Sending
  <2> QED  BY <1>1, <2>2, <2>4, <2>5, <2>6 DEF Sending, Delivered
<1> QED  BY <1>1, <1>5, <1>6 DEF StepInv

LEMMA LoopStep ==
  ASSUME IInv, Start \/ Garbage \/ ReadEOF
  PROVE  StoredInv' /\ StepInv'
<1> SUFFICES ASSUME ~spoilt PROVE StoredInv' /\ StepInv'
  BY DEF Start, Garbage, ReadEOF, StoredInv, StepInv
<1>1. UNCHANGED <<cwd, files, spoilt, link, asked, waiting, dir, stored>>
  BY DEF Start, Garbage, ReadEOF, clientVars
<1>2. CASE Start
  <2>1. stream' = <<>> /\ pc = "start" /\ pc' = "cmd" /\ stored \subseteq files
    BY <1>2 DEF Start, IInv, StoredInv
  <2>2. ASSUME link = "open" PROVE waiting /\ Opening'
    <3>1. waiting /\ Opening
      BY <2>1, <2>2 DEF IInv, StepInv, Sent, Answered, Sending, Delivered, Resting
    <3> QED  BY <1>1, <1>2, <2>1, <3>1 DEF Opening, Start, Reply
  <2> QED  BY <1>1, <2>1, <2>2 DEF StoredInv, StepInv
<1>3. CASE Garbage
  <2>1. /\ pc = "cmd" /\ stream # <<>> /\ stream \in Seq(Commands \cup Rest) /\ pc' = "cmd"
        /\ Head(stream) \in Rest /\ Head(stream) = stream[1]
    BY <1>3, TailKeeps DEF Garbage, Rest, IInv, Types, TypeOK
  <2>2. Len(stream) \in Nat /\ 1 \in 1..Len(stream)
    BY <2>1
  <2>3. \A i \in 1..Len(stream) : stream[i] \in Rest
    <3> SUFFICES ASSUME NEW i \in 1..Len(stream), stream[i] \notin Rest PROVE FALSE
      OBVIOUS
    <3>1. Len(stream) = 1
      BY DEF IInv, StoredInv
    <3>2. i = 1
      BY <3>1
    <3> QED  BY <2>1, <3>2
  <2>4. PICK k \in 1..Len(stream) : stream' = SubSeq(stream, k + 1, Len(stream))
    BY <1>3 DEF Garbage
  <2>5. /\ Len(stream') = Len(stream) - k
        /\ \A i \in 1..Len(stream') : stream'[i] = stream[k + i]
    BY <2>1, <2>4, SubSeqProperties
  <2>6. \A i \in 1..Len(stream') : stream'[i] \in Rest
    <3> SUFFICES ASSUME NEW i \in 1..Len(stream') PROVE stream'[i] \in Rest
      OBVIOUS
    <3>1. k + i \in 1..Len(stream)
      BY <2>1, <2>5
    <3> QED  BY <2>3, <2>5, <3>1
  <2>7. StoredInv'
    BY <1>1, <2>1, <2>6 DEF StoredInv, IInv
  <2>8. link # "open"
    <3>1. Sent => Head(stream) \notin Rest
      BY CommandOps DEF Sent
    <3> QED
      BY <2>1, <3>1 DEF IInv, StepInv, Opening, Answered, Sending, Delivered, Resting
  <2> QED  BY <1>1, <2>7, <2>8 DEF StepInv
<1>4. CASE ReadEOF
  BY <1>1, <1>4 DEF ReadEOF, IInv, StoredInv, StepInv, Unstored
<1> QED  BY <1>2, <1>3, <1>4

LEMMA NextInv ==
  ASSUME IInv, [Next]_vars
  PROVE  IInv'
<1>1. Types' /\ LimitInv'
  BY NextTypes, NextLimit DEF IInv
<1>2. CASE Client
  <2>1. (\E cmd \in Commands : ClientCommand(cmd)) => StoredInv' /\ StepInv'
    BY ClientCommandStep
  <2>2. ClientReply /\ spoilt => StoredInv' /\ StepInv'
    BY DEF ClientReply, serverVars, StoredInv, StepInv
  <2>3. ClientReply /\ ~spoilt => StoredInv' /\ StepInv'
    BY ClientSendsFileStep, ClientConcludesStep DEF ClientReply
  <2>4. ClientClose => StoredInv' /\ StepInv'
    BY ClientCloseStep
  <2>5. StoredInv' /\ StepInv'
    BY <1>2, <2>1, <2>2, <2>3, <2>4 DEF Client
  <2> QED  BY <1>1, <2>5 DEF IInv
<1>3. CASE Server
  <2>1. StoredInv' /\ StepInv'
    BY <1>3, FileCommandStep, DirectoryStep, CopyBlockStep, FileEndStep, LoopStep DEF Server
  <2> QED  BY <1>1, <2>1 DEF IInv
<1>4. CASE UNCHANGED vars
  <2>1. StoredInv'
    BY <1>4 DEF vars, serverVars, clientVars, IInv, StoredInv, Unstored
  <2>2. StepInv'
    BY <1>4 DEF vars, serverVars, clientVars, IInv, StepInv, Opening, Sent, Answered,
      Sending, Delivered, Resting
  <2> QED  BY <1>1, <2>1, <2>2 DEF IInv
<1> QED  BY <1>2, <1>3, <1>4 DEF Next

(* What the client was told is stored is on the disk, whole and where the  *)
(* client meant it, as long as no directory was refused and no write has   *)
(* failed: the current directories of the two agree when a C is executed,  *)
(* and a file that may still be written to does not count as stored.       *)
THEOREM SinkStores == Spec => []StoredFilesAreThere
<1>1. IInv => StoredFilesAreThere
  BY DEF IInv, StoredInv, StoredFilesAreThere
<1> QED  BY InitInv, NextInv, <1>1, PTL DEF Spec

(* Every command is answered once and in turn, as long as no directory was *)
(* refused, no write has failed and the client is there.                   *)
THEOREM SinkRepliesInTurn == Spec => []RepliesInTurn
<1>1. IInv => RepliesInTurn
  <2> SUFFICES ASSUME IInv, ~spoilt, link = "open"
               PROVE  Len(replies) <= 1 /\ (replies # <<>> => waiting /\ stream = <<>>)
    BY DEF RepliesInTurn
  <2>1. CASE waiting /\ (Opening \/ Answered \/ Delivered)
    <3>1. replies = <<>> \/ (\E r \in Replies : replies = <<r>>) \/ replies = <<"OK">>
      BY <2>1 DEF Opening, Answered, Delivered
    <3>2. stream = <<>>
      BY <2>1 DEF Opening, Answered, Delivered
    <3>3. Len(replies) <= 1
      <4>1. CASE replies = <<>>
        BY <4>1
      <4>2. CASE \E r \in Replies : replies = <<r>>
        BY <4>2
      <4>3. CASE replies = <<"OK">>
        BY <4>3
      <4> QED  BY <3>1, <4>1, <4>2, <4>3
    <3> QED  BY <2>1, <3>2, <3>3
  <2>2. CASE Sent \/ Sending \/ Resting
    BY <2>2 DEF Sent, Sending, Resting
  <2> QED  BY <2>1, <2>2 DEF IInv, StepInv
<1> QED  BY InitInv, NextInv, <1>1, PTL DEF Spec
=============================================================================
