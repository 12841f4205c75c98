----------------------------- MODULE ScpSource -----------------------------
(***************************************************************************)
(* The sending side of scp (os/command/scp.go, sourceMode and sendFile):   *)
(* the walk over a tree, the commands it sends, and a client that receives *)
(* them as scp does: it greets with one OK, answers D and E with one reply *)
(* and a file with two, before and after its data.                         *)
(*                                                                         *)
(* sourceMode does not wait for the greeting, so each reply it reads is    *)
(* the one to the command before.  It leaves a directory when the path of  *)
(* the next entry does not begin with the text of the last directory's.    *)
(***************************************************************************)
EXTENDS Integers, Sequences, SequencesExt, Paths

CONSTANT Trees   \* trees on the disk: paths to "dir" or "file"

\* A path is a sequence of names, numbered in the order of the walk, which
\* visits all of the tree.
ASSUME SourceAssumption ==
  \A t \in Trees :
    /\ \A p \in DOMAIN t : p \in Seq(Nat) /\ p # <<>> /\ t[p] \in {"dir", "file"}
    /\ \E p \in DOMAIN t : \A q \in DOMAIN t : Len(q) = 1 <=> q = p
    /\ \A p \in DOMAIN t : Len(p) > 1 => Front(p) \in DOMAIN t /\ t[Front(p)] = "dir"
    /\ LET w == Walk(DOMAIN t) IN
        /\ w \in Seq(DOMAIN t) /\ ToSet(w) = DOMAIN t
        /\ \A i, j \in 1..Len(w) : i < j => Before(w[i], w[j])

VARIABLES
  tree,     \* the tree that is sent
  deep,     \* the option -r
  dot,      \* the argument is ".", which begins no path below it
  at,       \* where sourceMode is
  todo,     \* what the walk has still to visit
  here,     \* its cwd
  dirLevel,
  unsent,   \* commands in the write buffer
  line,     \* commands on their way to the client
  acks,     \* replies on their way to the server
  phase,    \* the client reads a "line", "data" or its "tail", or is "gone"
  file,     \* the file it receives
  place,    \* the directory it is in
  arrived,  \* where the files that have arrived come from, and where they are
  failed,   \* a file could not be read (history)
  refused,  \* the client has refused something or left (history)
  code      \* what sourceMode returns

walkVars    == <<at, todo, here, dirLevel, unsent, failed, code>>
receiveVars == <<phase, file, place, arrived, refused>>
sourceVars  == <<tree, deep, dot, walkVars, line, acks, receiveVars>>

Root(t) == CHOOSE p \in DOMAIN t : Len(p) = 1

\* The test for leaving the directory d before the entry p.
HasPrefix(p, d) == IF dot /\ Len(d) = 1 THEN p = d ELSE TextPrefix(p, d)

\* Nothing has been sent yet but the client's greeting.
Untouched ==
  /\ here = Root(tree) /\ dirLevel = 0
  /\ unsent = <<>> /\ line = <<>> /\ acks = <<"OK">>
  /\ phase = "line" /\ file = <<>> /\ place = <<>> /\ arrived = {}
  /\ failed = FALSE /\ refused = FALSE /\ code = 0

SourceInit ==
  /\ tree \in Trees /\ deep \in BOOLEAN /\ dot \in BOOLEAN
  /\ todo = IF deep THEN Walk(DOMAIN tree) ELSE <<Root(tree)>>
  /\ at = IF deep THEN "walk" ELSE "entry"
  /\ Untouched

-----------------------------------------------------------------------------
(* The server.                                                             *)

Cmd(op, p) == [op |-> op, path |-> p]

\* Flush, with cmd at the end of the buffer.
Send(cmd) == line' = line \o Append(unsent, cmd) /\ unsent' = <<>>

\* ReadByte: the end of the channel gives the byte 0.  An error reply is
\* followed by its message, so that no byte read after it is 0.
CanRead == acks # <<>> \/ phase = "gone"
Ended   == acks = <<>>
Passed  == Ended \/ Head(acks) = "OK"

Read ==
  /\ CanRead
  /\ acks' = IF ~Ended /\ Passed THEN Tail(acks) ELSE acks
  /\ UNCHANGED <<tree, deep, dot, receiveVars>>

\* The walk or the one file is given up.
GiveUp ==
  IF deep THEN at' = "up" /\ UNCHANGED <<line, unsent>>
  ELSE at' = "done" /\ Send(Cmd("err", <<>>))

\* The walk's callback on a path that does not begin with cwd: one E, not
\* flushed.
Climb ==
  /\ at = "walk" /\ todo # <<>>
  /\ IF HasPrefix(Head(todo), here)
     THEN at' = "entry" /\ UNCHANGED unsent
     ELSE at' = "climb" /\ unsent' = Append(unsent, Cmd("E", <<>>))
  /\ UNCHANGED <<tree, deep, dot, todo, here, dirLevel, failed, code, line, acks, receiveVars>>

ClimbReply ==
  /\ at = "climb" /\ Read
  /\ IF Passed THEN at' = "entry" /\ dirLevel' = dirLevel - 1
               ELSE at' = "up" /\ UNCHANGED dirLevel
  /\ UNCHANGED <<todo, here, unsent, failed, code, line>>

Entry ==
  /\ at = "entry"
  /\ IF deep /\ tree[Head(todo)] = "dir"
     THEN at' = "dir" /\ Send(Cmd("D", Head(todo)))
     ELSE at' = "file" /\ Send(Cmd("C", Head(todo)))
  /\ UNCHANGED <<tree, deep, dot, todo, here, dirLevel, failed, code, acks, receiveVars>>

\* Mutated DirReply: cwd stays.
DirReplyStays ==
  /\ at = "dir" /\ Read
  /\ IF Passed THEN at' = "walk" /\ dirLevel' = dirLevel + 1 /\ todo' = Tail(todo)
               ELSE at' = "up" /\ UNCHANGED <<dirLevel, todo>>
  /\ UNCHANGED <<here, unsent, failed, code, line>>

DirReply ==
  /\ at = "dir" /\ Read
  /\ IF Passed
     THEN /\ at' = "walk" /\ dirLevel' = dirLevel + 1
          /\ here' = Head(todo) /\ todo' = Tail(todo)
     ELSE at' = "up" /\ UNCHANGED <<here, dirLevel, todo>>
  /\ UNCHANGED <<unsent, failed, code, line>>

FileReply ==
  /\ at = "file" /\ Read
  /\ IF Passed THEN at' = "copy" /\ UNCHANGED <<line, unsent>> ELSE GiveUp
  /\ UNCHANGED <<todo, here, dirLevel, failed, code>>

\* The file cannot be opened or read, as those of the image, or is a directory,
\* or the client has gone: nothing says so to the client.
CopyFails ==
  /\ at = "copy" /\ failed' = TRUE
  /\ GiveUp
  /\ UNCHANGED <<tree, deep, dot, todo, here, dirLevel, code, acks, receiveVars>>

Copy ==
  /\ at = "copy" /\ tree[Head(todo)] = "file"
  /\ at' = "sent"
  /\ line' = line \o unsent \o <<Cmd("data", <<>>), Cmd("zero", <<>>)>> /\ unsent' = <<>>
  /\ UNCHANGED <<tree, deep, dot, todo, here, dirLevel, failed, code, acks, receiveVars>>

\* An error reply leaves err as it was, nil.
SentReply ==
  /\ at = "sent" /\ Read
  /\ IF Ended THEN GiveUp /\ UNCHANGED <<here, todo>>
     ELSE /\ at' = "walk" /\ here' = Front(Head(todo)) /\ todo' = Tail(todo)
          /\ UNCHANGED <<line, unsent>>
  /\ UNCHANGED <<dirLevel, failed, code>>

\* Mutated Up: the last directory is not left.
UpButOne ==
  /\ at = "up" \/ (at = "walk" /\ todo = <<>>)
  /\ IF dirLevel > 1 THEN at' = "left" /\ Send(Cmd("E", <<>>))
                     ELSE at' = "done" /\ UNCHANGED <<line, unsent>>
  /\ UNCHANGED <<tree, deep, dot, todo, here, dirLevel, failed, code, acks, receiveVars>>

\* After the walk, one E for each directory that is still open.
Up ==
  /\ at = "up" \/ (at = "walk" /\ todo = <<>>)
  /\ IF dirLevel > 0 THEN at' = "left" /\ Send(Cmd("E", <<>>))
                     ELSE at' = "done" /\ UNCHANGED <<line, unsent>>
  /\ UNCHANGED <<tree, deep, dot, todo, here, dirLevel, failed, code, acks, receiveVars>>

\* Mutated LeftReply: the end of the channel is no reply.
LeftReplyWaits ==
  /\ at = "left" /\ Read /\ ~Ended
  /\ IF Passed THEN at' = "up" /\ dirLevel' = dirLevel - 1 /\ UNCHANGED code
               ELSE at' = "done" /\ code' = 1 /\ UNCHANGED dirLevel
  /\ UNCHANGED <<todo, here, unsent, failed, line>>

LeftReply ==
  /\ at = "left" /\ Read
  /\ IF Passed THEN at' = "up" /\ dirLevel' = dirLevel - 1 /\ UNCHANGED code
               ELSE at' = "done" /\ code' = 1 /\ UNCHANGED dirLevel
  /\ UNCHANGED <<todo, here, unsent, failed, line>>

Source ==
  \/ Climb \/ ClimbReply \/ Entry \/ DirReply \/ FileReply \/ Copy \/ CopyFails
  \/ SentReply \/ Up \/ LeftReply

-----------------------------------------------------------------------------
(* The client, which reads the next token.                                 *)

Token == Head(line)

Receive(ops) ==
  /\ line # <<>> /\ Token.op \in ops
  /\ line' = Tail(line)
  /\ UNCHANGED <<tree, deep, dot, walkVars>>

Ack(r) == acks' = Append(acks, r)

Refuse ==
  /\ phase = "line" /\ Receive({"C", "D"})
  /\ Ack("ERR") /\ refused' = TRUE
  /\ UNCHANGED <<phase, file, place, arrived>>

EnterDir ==
  /\ phase = "line" /\ Receive({"D"})
  /\ Ack("OK") /\ place' = Append(place, Last(Token.path))
  /\ UNCHANGED <<phase, file, arrived, refused>>

TakeFile ==
  /\ phase = "line" /\ Receive({"C"})
  /\ Ack("OK") /\ phase' = "data" /\ file' = Token.path
  /\ UNCHANGED <<place, arrived, refused>>

\* E at the top ends the client.
LeaveDir ==
  /\ phase = "line" /\ Receive({"E"})
  /\ Ack("OK")
  /\ IF place = <<>> THEN phase' = "gone" /\ UNCHANGED place
                     ELSE place' = Front(place) /\ UNCHANGED phase
  /\ UNCHANGED <<file, arrived, refused>>

\* Data or an error where a command should be.
Protocol ==
  /\ phase = "line" /\ Receive({"data", "zero", "err"})
  /\ phase' = "gone"
  /\ UNCHANGED <<acks, file, place, arrived, refused>>

\* Whatever comes is data of the file, which is longer than a few commands.
TakeData ==
  /\ phase = "data" /\ Receive({"data", "C", "D", "E", "err"})
  /\ phase' = IF Token.op = "data" THEN "tail" ELSE "data"
  /\ UNCHANGED <<acks, file, place, arrived, refused>>

\* The zero byte behind the data; the file may not have been written.
TakeTail ==
  /\ phase = "tail" /\ Receive({"zero"})
  /\ phase' = "line"
  /\ \/ /\ Ack("OK")
        /\ arrived' = arrived \cup {[src |-> file, dst |-> Append(place, Last(file))]}
        /\ UNCHANGED refused
     \/ Ack("ERR") /\ refused' = TRUE /\ UNCHANGED arrived
  /\ UNCHANGED <<file, place>>

ClientGoes ==
  /\ phase # "gone"
  /\ phase' = "gone" /\ refused' = TRUE
  /\ UNCHANGED <<tree, deep, dot, walkVars, line, acks, file, place, arrived>>

Receiver == Refuse \/ EnterDir \/ TakeFile \/ LeaveDir \/ Protocol \/ TakeData \/ TakeTail

-----------------------------------------------------------------------------
SourceNext == Source \/ Receiver \/ ClientGoes

SourceSpec == SourceInit /\ [][SourceNext]_sourceVars

\* The goroutine runs, and the client reads what it is sent.
FairSourceSpec == SourceSpec /\ WF_sourceVars(Source) /\ WF_sourceVars(Receiver)

-----------------------------------------------------------------------------
(* Properties.                                                             *)

Ops == {"C", "D", "E", "data", "zero", "err"}
Tokens == {t \in [op : Ops, path : Seq(Nat)] : t.op \in {"C", "D"} => t.path # <<>>}

SourceTypeOK ==
  /\ tree \in Trees /\ deep \in BOOLEAN /\ dot \in BOOLEAN
  /\ at \in {"walk", "climb", "entry", "dir", "file", "copy", "sent", "up", "left", "done"}
  /\ todo \in Seq(DOMAIN tree) /\ (at \in {"climb", "entry", "dir", "file", "copy", "sent"} => todo # <<>>)
  /\ here \in Seq(Nat) /\ dirLevel \in Int
  /\ unsent \in Seq(Tokens) /\ line \in Seq(Tokens) /\ acks \in Seq({"OK", "ERR"})
  /\ phase \in {"line", "data", "tail", "gone"} /\ (phase \in {"data", "tail"} => file # <<>>)
  /\ file \in Seq(Nat) /\ place \in Seq(Nat)
  /\ arrived \subseteq [src : Seq(Nat), dst : Seq(Nat)]
  /\ failed \in BOOLEAN /\ refused \in BOOLEAN /\ code \in {0, 1}

Sent == IF deep THEN {p \in DOMAIN tree : tree[p] = "file"} ELSE {Root(tree)}

\* A tree that one E at a time is enough for: the walk never leaves two
\* directories at once, nor one whose name begins the next one's.
OneStepTree ==
  deep => LET w == Walk(DOMAIN tree) IN \A i \in 1..(Len(w) - 1) :
    LET d == IF tree[w[i]] = "dir" THEN w[i] ELSE Front(w[i])
    IN  Len(d) - (Len(w[i + 1]) - 1) = IF HasPrefix(w[i + 1], d) THEN 0 ELSE 1

\* In such a tree every file that arrives is where it belongs, although the
\* replies that the server acts on are one command old, whatever the client
\* refuses, and whatever cannot be read.
FilesInPlace == OneStepTree => \A f \in arrived : f.src = f.dst

\* ... and if nothing is refused and nothing fails, all files have arrived and
\* each directory that was entered has been left.
AllArrived ==
  at = "done" /\ line = <<>> /\ ~refused /\ ~failed /\ OneStepTree =>
    {f.src : f \in arrived} = Sent /\ place = <<>> /\ code = 0

\* sourceMode returns, for every tree and every client, though E is not flushed
\* before its reply is read: the reply is already there.  After a failed read
\* the client waits for data and the server for replies until the client goes.
SourceReturns == at # "done" ~> at = "done" \/ (failed /\ phase # "gone")
=============================================================================
