-------------------------- MODULE ScpSourceProofs --------------------------
(***************************************************************************)
(* The sending side, for any trees: it reads from the channel and from the *)
(* walk only what is there, and in a tree that is left one directory at a  *)
(* time the files arrive in their places, and all of them if nothing       *)
(* fails.                                                                  *)
(*                                                                         *)
(* The invariant has three parts.  Course is the place of sourceMode in    *)
(* the walk, which no client can change as it moves on only after a reply  *)
(* that is no error.  InStep says where the client will be when it has     *)
(* read the line, with one reply still outstanding, the greeting's.  Lost  *)
(* is what InStep becomes after a refusal or a failure: no more data will  *)
(* be taken for a file that is not in its place.                           *)
(***************************************************************************)
EXTENDS ScpSource, SequenceTheorems, TLAPS

\* What of the state the client changes, and what the server does.
WalkTypeOK ==
  /\ tree \in Trees /\ deep \in BOOLEAN /\ dot \in BOOLEAN
  /\ at \in {"walk", "climb", "entry", "dir", "file", "copy", "sent", "up", "left", "done"}
  /\ todo \in Seq(DOMAIN tree) /\ (at \in {"climb", "entry", "dir", "file", "copy", "sent"} => todo # <<>>)
  /\ here \in Seq(Nat) /\ dirLevel \in Int
  /\ failed \in BOOLEAN /\ code \in {0, 1}

WireTypeOK == unsent \in Seq(Tokens) /\ line \in Seq(Tokens) /\ acks \in Seq({"OK", "ERR"})

ClientTypeOK ==
  /\ phase \in {"line", "data", "tail", "gone"} /\ (phase \in {"data", "tail"} => file # <<>>)
  /\ file \in Seq(Nat) /\ place \in Seq(Nat)
  /\ arrived \subseteq [src : Seq(Nat), dst : Seq(Nat)]
  /\ refused \in BOOLEAN

LEMMA Parts == SourceTypeOK <=> WalkTypeOK /\ WireTypeOK /\ ClientTypeOK
BY DEF SourceTypeOK, WalkTypeOK, WireTypeOK, ClientTypeOK

LEMMA PartsNext ==
  ASSUME WalkTypeOK', WireTypeOK', ClientTypeOK'
  PROVE  SourceTypeOK'
BY DEF SourceTypeOK, WalkTypeOK, WireTypeOK, ClientTypeOK

LEMMA CmdType ==
  ASSUME NEW op \in Ops, NEW p \in Seq(Nat), op \in {"C", "D"} => p # <<>>
  PROVE  Cmd(op, p) \in Tokens
BY DEF Cmd, Tokens

\* Commands may be put into the buffer and be flushed with it.
LEMMA SendType ==
  ASSUME WireTypeOK, NEW cmd \in Tokens, Send(cmd)
  PROVE  line' \in Seq(Tokens) /\ unsent' \in Seq(Tokens)
<1>1. Append(unsent, cmd) \in Seq(Tokens)
  BY AppendProperties DEF WireTypeOK
<1> QED  BY <1>1, ConcatProperties, EmptySeq DEF Send, WireTypeOK

LEMMA ReadType ==
  ASSUME WireTypeOK, Read
  PROVE  acks' \in Seq({"OK", "ERR"})
BY HeadTailProperties DEF Read, Ended, Passed, WireTypeOK

LEMMA FrontType ==
  ASSUME NEW S, NEW s \in Seq(S), s # <<>>
  PROVE  Front(s) \in Seq(S)
<1> DEFINE n == Len(s) - 1
<1>1. 1 \in Int /\ n \in Int /\ \A i \in 1..n : s[i] \in S
  <2>1. Len(s) \in Nat \ {0}
    BY EmptySeq
  <2>2. \A i \in 1..n : i \in 1..Len(s)
    BY <2>1
  <2> QED  BY <2>1, <2>2, ElementOfSeq
<1>2. SubSeq(s, 1, n) \in Seq(S)
  <2> HIDE DEF n
  <2> QED  BY <1>1, SubSeqProperties
<1> QED  BY <1>2 DEF Front

LEMMA LastType ==
  ASSUME NEW S, NEW s \in Seq(S), s # <<>>
  PROVE  Last(s) \in S
<1>1. Len(s) \in 1..Len(s)
  BY EmptySeq
<1> QED  BY <1>1, ElementOfSeq DEF Last

\* The entry that the walk is at.
LEMMA HeadPath ==
  ASSUME WalkTypeOK, todo # <<>>
  PROVE  /\ Head(todo) \in DOMAIN tree /\ Head(todo) \in Seq(Nat) /\ Head(todo) # <<>>
         /\ Front(Head(todo)) \in Seq(Nat)
         /\ Tail(todo) \in Seq(DOMAIN tree)
<1>1. Head(todo) \in DOMAIN tree /\ Tail(todo) \in Seq(DOMAIN tree)
  BY HeadTailProperties DEF WalkTypeOK
<1>2. Head(todo) \in Seq(Nat) /\ Head(todo) # <<>>
  BY <1>1, SourceAssumption DEF WalkTypeOK
<1>3. Front(Head(todo)) \in Seq(Nat)
  BY <1>2, FrontType
<1> QED  BY <1>1, <1>2, <1>3

-----------------------------------------------------------------------------

LEMMA InitTypes == SourceInit => SourceTypeOK
<1> SUFFICES ASSUME SourceInit PROVE SourceTypeOK
  OBVIOUS
<1>1. tree \in Trees /\ deep \in BOOLEAN /\ dot \in BOOLEAN /\ Untouched
  BY DEF SourceInit
<1>2. Root(tree) \in DOMAIN tree
  BY <1>1, SourceAssumption DEF Root
<1>3. Root(tree) \in Seq(Nat)
  BY <1>1, <1>2, SourceAssumption
<1>4. todo \in Seq(DOMAIN tree) /\ (at = "entry" => todo # <<>>) /\ at \in {"walk", "entry"}
  <2>1. CASE deep
    BY <1>1, <2>1, SourceAssumption DEF SourceInit
  <2>2. CASE ~deep
    <3>1. todo = <<Root(tree)>> /\ at = "entry"
      BY <2>2 DEF SourceInit
    <3>2. <<Root(tree)>> \in Seq(DOMAIN tree) /\ <<Root(tree)>> # <<>>
      BY <1>2
    <3> QED  BY <3>1, <3>2
  <2> QED  BY <2>1, <2>2
<1>5. WalkTypeOK
  <2>1. here = Root(tree) /\ dirLevel = 0 /\ failed = FALSE /\ code = 0
    BY <1>1, Zenon DEF Untouched
  <2>2. failed \in BOOLEAN
    BY <2>1, Zenon
  <2>3. here \in Seq(Nat) /\ dirLevel \in Int /\ code \in {0, 1}
    BY <1>3, <2>1
  <2>4. at \in {"climb", "entry", "dir", "file", "copy", "sent"} => todo # <<>>
    BY <1>4
  <2>5. at \in {"walk", "climb", "entry", "dir", "file", "copy", "sent", "up", "left", "done"}
    BY <1>4
  <2> QED  BY <1>1, <1>4, <2>3, <2>2, <2>4, <2>5 DEF WalkTypeOK
<1>6. WireTypeOK
  BY <1>1, EmptySeq DEF WireTypeOK, Untouched
<1>7. ClientTypeOK
  BY <1>1, EmptySeq DEF ClientTypeOK, Untouched
<1> QED  BY <1>5, <1>6, <1>7, Parts

\* Giving up leaves the types, and says so to the client of a single file.
LEMMA GiveUpType ==
  ASSUME WalkTypeOK, WireTypeOK, GiveUp
  PROVE  at' \in {"up", "done"} /\ line' \in Seq(Tokens) /\ unsent' \in Seq(Tokens)
<1>1. Cmd("err", <<>>) \in Tokens
  BY CmdType, EmptySeq DEF Ops
<1>2. CASE deep
  BY <1>2 DEF GiveUp, WireTypeOK
<1>3. CASE ~deep
  BY <1>1, <1>3, SendType DEF GiveUp
<1> QED  BY <1>2, <1>3

LEMMA SourceStep ==
  ASSUME SourceTypeOK, Source
  PROVE  SourceTypeOK'
<1> USE PartsNext
<1>0. WalkTypeOK /\ WireTypeOK /\ ClientTypeOK
  BY Parts
<1>1. ASSUME UNCHANGED receiveVars PROVE ClientTypeOK'
  BY <1>0, <1>1 DEF ClientTypeOK, receiveVars
<1>2. CASE Climb
  <2>1. Cmd("E", <<>>) \in Tokens
    BY CmdType, EmptySeq DEF Ops
  <2>2. unsent' \in Seq(Tokens)
    BY <1>0, <1>2, <2>1, AppendProperties DEF Climb, WireTypeOK
  <2> QED  BY <1>0, <1>1, <1>2, <2>2 DEF Climb, WalkTypeOK, WireTypeOK
<1>3. CASE ClimbReply
  <2>1. acks' \in Seq({"OK", "ERR"}) /\ UNCHANGED <<tree, deep, dot, receiveVars>>
    BY <1>0, <1>3, ReadType DEF ClimbReply, Read
  <2> QED  BY <1>0, <1>1, <1>3, <2>1 DEF ClimbReply, WalkTypeOK, WireTypeOK
<1>4. CASE Entry
  <2>1. todo # <<>>
    BY <1>0, <1>4 DEF Entry, WalkTypeOK
  <2>2. Cmd("D", Head(todo)) \in Tokens /\ Cmd("C", Head(todo)) \in Tokens
    BY <1>0, <2>1, HeadPath, CmdType DEF Ops
  <2>3. line' \in Seq(Tokens) /\ unsent' \in Seq(Tokens)
    BY <1>0, <1>4, <2>2, SendType DEF Entry
  <2>4. WalkTypeOK'
    BY <1>0, <1>4, <2>1 DEF Entry, WalkTypeOK
  <2>5. WireTypeOK'
    BY <1>0, <1>4, <2>3 DEF Entry, WireTypeOK
  <2>6. ClientTypeOK'
    BY <1>1, <1>4 DEF Entry
  <2> QED  BY <2>4, <2>5, <2>6
<1>5. CASE DirReply
  <2>1. acks' \in Seq({"OK", "ERR"}) /\ UNCHANGED <<tree, deep, dot, receiveVars>>
    BY <1>0, <1>5, ReadType DEF DirReply, Read
  <2>2. Head(todo) \in Seq(Nat) /\ Tail(todo) \in Seq(DOMAIN tree)
    BY <1>0, <1>5, HeadPath DEF DirReply, WalkTypeOK
  <2>3. WalkTypeOK'
    <3>1. CASE Passed
      <4>1. at' = "walk" /\ dirLevel' = dirLevel + 1 /\ here' = Head(todo) /\ todo' = Tail(todo)
            /\ UNCHANGED <<failed, code>>
        BY <1>5, <3>1 DEF DirReply
      <4> QED  BY <1>0, <2>1, <2>2, <4>1 DEF WalkTypeOK
    <3>2. CASE ~Passed
      BY <1>0, <1>5, <2>1, <3>2 DEF DirReply, WalkTypeOK
    <3> QED  BY <3>1, <3>2
  <2>4. WireTypeOK'
    BY <1>0, <1>5, <2>1 DEF DirReply, WireTypeOK
  <2> QED  BY <1>1, <2>1, <2>3, <2>4
<1>6. CASE FileReply
  <2>1. acks' \in Seq({"OK", "ERR"}) /\ UNCHANGED <<tree, deep, dot, receiveVars>>
    BY <1>0, <1>6, ReadType DEF FileReply, Read
  <2>2. /\ line' \in Seq(Tokens) /\ unsent' \in Seq(Tokens)
        /\ at' = "copy" \/ at' \in {"up", "done"}
    BY <1>0, <1>6, GiveUpType DEF FileReply, WireTypeOK
  <2> QED  BY <1>0, <1>1, <1>6, <2>1, <2>2 DEF FileReply, WalkTypeOK, WireTypeOK
<1>7. CASE CopyFails
  <2>1. at' \in {"up", "done"} /\ line' \in Seq(Tokens) /\ unsent' \in Seq(Tokens)
    BY <1>0, <1>7, GiveUpType DEF CopyFails
  <2> QED  BY <1>0, <1>1, <1>7, <2>1 DEF CopyFails, WalkTypeOK, WireTypeOK
<1>8. CASE Copy
  <2>1. <<Cmd("data", <<>>), Cmd("zero", <<>>)>> \in Seq(Tokens)
    <3>1. Cmd("data", <<>>) \in Tokens /\ Cmd("zero", <<>>) \in Tokens
      BY CmdType, EmptySeq DEF Ops
    <3> QED  BY <3>1
  <2>2. line' \in Seq(Tokens) /\ unsent' \in Seq(Tokens)
    BY <1>0, <1>8, <2>1, ConcatProperties, EmptySeq DEF Copy, WireTypeOK
  <2> QED  BY <1>0, <1>1, <1>8, <2>2 DEF Copy, WalkTypeOK, WireTypeOK
<1>9. CASE SentReply
  <2>1. acks' \in Seq({"OK", "ERR"}) /\ UNCHANGED <<tree, deep, dot, receiveVars>>
    BY <1>0, <1>9, ReadType DEF SentReply, Read
  <2>2. Front(Head(todo)) \in Seq(Nat) /\ Tail(todo) \in Seq(DOMAIN tree)
    BY <1>0, <1>9, HeadPath DEF SentReply, WalkTypeOK
  <2>3. CASE Ended
    <3>1. at' \in {"up", "done"} /\ line' \in Seq(Tokens) /\ unsent' \in Seq(Tokens)
      BY <1>0, <1>9, <2>3, GiveUpType DEF SentReply
    <3> QED  BY <1>0, <1>1, <1>9, <2>1, <2>3, <3>1 DEF SentReply, WalkTypeOK, WireTypeOK
  <2>4. CASE ~Ended
    BY <1>0, <1>1, <1>9, <2>1, <2>2, <2>4 DEF SentReply, WalkTypeOK, WireTypeOK
  <2> QED  BY <2>3, <2>4
<1>10. CASE Up
  <2>1. Cmd("E", <<>>) \in Tokens
    BY CmdType, EmptySeq DEF Ops
  <2>2. line' \in Seq(Tokens) /\ unsent' \in Seq(Tokens) /\ at' \in {"left", "done"}
    BY <1>0, <1>10, <2>1, SendType DEF Up, WireTypeOK
  <2> QED  BY <1>0, <1>1, <1>10, <2>2 DEF Up, WalkTypeOK, WireTypeOK
<1>11. CASE LeftReply
  <2>1. acks' \in Seq({"OK", "ERR"}) /\ UNCHANGED <<tree, deep, dot, receiveVars>>
    BY <1>0, <1>11, ReadType DEF LeftReply, Read
  <2> QED  BY <1>0, <1>1, <1>11, <2>1 DEF LeftReply, WalkTypeOK, WireTypeOK
<1> QED
  BY <1>2, <1>3, <1>4, <1>5, <1>6, <1>7, <1>8, <1>9, <1>10, <1>11 DEF Source

LEMMA ReceiveStep ==
  ASSUME SourceTypeOK, Receiver \/ ClientGoes
  PROVE  SourceTypeOK'
<1> USE PartsNext
<1>0. WalkTypeOK /\ WireTypeOK /\ ClientTypeOK
  BY Parts
<1>1. ASSUME UNCHANGED <<tree, deep, dot, walkVars>> PROVE WalkTypeOK' /\ unsent' = unsent
  BY <1>0, <1>1 DEF WalkTypeOK, walkVars
<1>2. ASSUME NEW ops, Receive(ops)
      PROVE  /\ WalkTypeOK' /\ unsent' = unsent /\ line' \in Seq(Tokens)
             /\ Token \in Tokens /\ Token.path \in Seq(Nat)
  <2>1. Token \in Tokens /\ Tail(line) \in Seq(Tokens)
    BY <1>0, <1>2, HeadTailProperties DEF Receive, Token, WireTypeOK
  <2> QED  BY <1>1, <1>2, <2>1 DEF Receive, Tokens
<1>3. ASSUME NEW r \in {"OK", "ERR"}, Ack(r)
      PROVE  acks' \in Seq({"OK", "ERR"})
  BY <1>0, <1>3, AppendProperties DEF Ack, WireTypeOK
<1>4. CASE Refuse
  BY <1>0, <1>2, <1>3, <1>4 DEF Refuse, WireTypeOK, ClientTypeOK
<1>5. ASSUME NEW ops, Receive(ops), Token.op \in {"C", "D"}
      PROVE  Last(Token.path) \in Nat
  <2>1. Token.path \in Seq(Nat) /\ Token.path # <<>>
    BY <1>2, <1>5 DEF Tokens
  <2> QED  BY <2>1, LastType
<1>6. CASE EnterDir
  <2>1. Receive({"D"}) /\ Ack("OK") /\ place' = Append(place, Last(Token.path))
        /\ UNCHANGED <<phase, file, arrived, refused>>
    BY <1>6 DEF EnterDir
  <2>2. Last(Token.path) \in Nat
    BY <1>5, <2>1 DEF Receive
  <2>3. place' \in Seq(Nat)
    BY <1>0, <2>1, <2>2, AppendProperties DEF ClientTypeOK
  <2>4. ClientTypeOK'
    BY <1>0, <2>1, <2>3 DEF ClientTypeOK
  <2> QED  BY <1>0, <1>2, <1>3, <2>1, <2>4 DEF WireTypeOK
<1>7. CASE TakeFile
  <2>1. Receive({"C"}) /\ Token.op = "C" /\ Ack("OK") /\ phase' = "data" /\ file' = Token.path
        /\ UNCHANGED <<place, arrived, refused>>
    BY <1>7 DEF TakeFile, Receive
  <2>2. Token.path \in Seq(Nat) /\ Token.path # <<>>
    BY <1>2, <2>1 DEF Tokens
  <2>3. ClientTypeOK'
    BY <1>0, <2>1, <2>2 DEF ClientTypeOK
  <2> QED  BY <1>0, <1>2, <1>3, <2>1, <2>3 DEF WireTypeOK
<1>8. CASE LeaveDir
  <2>1. place # <<>> => Front(place) \in Seq(Nat)
    BY <1>0, FrontType DEF ClientTypeOK
  <2>2. ClientTypeOK'
    BY <1>0, <1>8, <2>1 DEF LeaveDir, ClientTypeOK
  <2> QED  BY <1>0, <1>2, <1>3, <1>8, <2>2 DEF LeaveDir, WireTypeOK
<1>9. CASE Protocol
  BY <1>0, <1>2, <1>9 DEF Protocol, WireTypeOK, ClientTypeOK
<1>10. CASE TakeData
  BY <1>0, <1>2, <1>10 DEF TakeData, WireTypeOK, ClientTypeOK
<1>11. CASE TakeTail
  <2>1. Receive({"zero"}) /\ (Ack("OK") \/ Ack("ERR")) /\ phase' = "line"
        /\ UNCHANGED <<file, place>> /\ phase = "tail"
    BY <1>11 DEF TakeTail
  <2>2. ClientTypeOK'
    <3>1. CASE arrived' = arrived
      BY <1>0, <1>11, <2>1, <3>1 DEF TakeTail, ClientTypeOK
    <3>2. CASE arrived' = arrived \cup {[src |-> file, dst |-> Append(place, Last(file))]}
      <4>1. file \in Seq(Nat) /\ file # <<>> /\ place \in Seq(Nat)
        BY <1>0, <2>1 DEF ClientTypeOK
      <4>2. Append(place, Last(file)) \in Seq(Nat)
        BY <4>1, LastType, AppendProperties
      <4>3. arrived' \subseteq [src : Seq(Nat), dst : Seq(Nat)]
        <5>1. [src |-> file, dst |-> Append(place, Last(file))] \in [src : Seq(Nat), dst : Seq(Nat)]
          BY <4>1, <4>2
        <5>2. arrived \subseteq [src : Seq(Nat), dst : Seq(Nat)]
          BY <1>0 DEF ClientTypeOK
        <5> QED  BY <3>2, <5>1, <5>2, Zenon
      <4> QED  BY <1>0, <1>11, <2>1, <4>3 DEF TakeTail, ClientTypeOK
    <3> QED  BY <1>11, <3>1, <3>2 DEF TakeTail
  <2> QED  BY <1>0, <1>2, <1>3, <2>1, <2>2 DEF WireTypeOK
<1>12. CASE ClientGoes
  BY <1>0, <1>1, <1>12 DEF ClientGoes, WireTypeOK, ClientTypeOK
<1> QED
  BY <1>4, <1>6, <1>7, <1>8, <1>9, <1>10, <1>11, <1>12 DEF Receiver

\* The types hold for any trees and any client.
THEOREM SourceTypes == SourceSpec => []SourceTypeOK
<1>1. SourceTypeOK /\ UNCHANGED sourceVars => SourceTypeOK'
  BY DEF SourceTypeOK, sourceVars, walkVars, receiveVars
<1>2. SourceTypeOK /\ [SourceNext]_sourceVars => SourceTypeOK'
  BY <1>1, SourceStep, ReceiveStep DEF SourceNext
<1> QED  BY InitTypes, <1>2, PTL DEF SourceSpec
-----------------------------------------------------------------------------
(* Paths, and the order of the walk.                                       *)

\* Front takes the last name off, Append puts it back.
LEMMA FrontProperties ==
  ASSUME NEW S, NEW s \in Seq(S), s # <<>>
  PROVE  /\ Front(s) \in Seq(S) /\ Len(Front(s)) = Len(s) - 1
         /\ \A i \in 1..(Len(s) - 1) : Front(s)[i] = s[i]
         /\ Append(Front(s), Last(s)) = s
<1> DEFINE n == Len(s) - 1
<1>1. Len(s) \in Nat \ {0}
  BY EmptySeq
<1>2. 1 \in Int /\ n \in Int /\ \A i \in 1..n : s[i] \in S
  <2>1. \A i \in 1..n : i \in 1..Len(s)
    BY <1>1
  <2> QED  BY <1>1, <2>1, ElementOfSeq
<1>3. /\ SubSeq(s, 1, n) \in Seq(S) /\ Len(SubSeq(s, 1, n)) = n
      /\ \A i \in 1..n : SubSeq(s, 1, n)[i] = s[i]
  <2>1. /\ SubSeq(s, 1, n) \in Seq(S)
        /\ Len(SubSeq(s, 1, n)) = IF 1 <= n THEN n - 1 + 1 ELSE 0
        /\ \A i \in 1..(n - 1 + 1) : SubSeq(s, 1, n)[i] = s[1 + i - 1]
    <3> HIDE DEF n
    <3> QED  BY <1>2, SubSeqProperties
  <2>2. n \in Nat
    BY <1>1
  <2>3. Len(SubSeq(s, 1, n)) = n
    <3> HIDE DEF n
    <3> QED  BY <2>1, <2>2
  <2>4. ASSUME NEW i \in 1..n PROVE SubSeq(s, 1, n)[i] = s[i]
    <3> HIDE DEF n
    <3>1. i \in 1..(n - 1 + 1) /\ 1 + i - 1 = i
      BY <2>2
    <3> QED  BY <2>1, <3>1
  <2> HIDE DEF n
  <2> QED  BY <2>1, <2>3, <2>4
<1>4. Front(s) = SubSeq(s, 1, n)
  BY DEF Front
<1>5. Append(Front(s), Last(s)) = s
  <2>1. Last(s) \in S /\ Last(s) = s[Len(s)]
    BY LastType DEF Last
  <2>2. /\ Append(Front(s), Last(s)) \in Seq(S) /\ Len(Append(Front(s), Last(s))) = n + 1
        /\ \A i \in 1..n : Append(Front(s), Last(s))[i] = Front(s)[i]
        /\ Append(Front(s), Last(s))[n + 1] = Last(s)
    BY <1>3, <1>4, <2>1, AppendProperties
  <2>3. \A i \in 1..Len(s) : Append(Front(s), Last(s))[i] = s[i]
    BY <1>1, <1>3, <1>4, <2>1, <2>2
  <2>4. Len(Append(Front(s), Last(s))) = Len(s)
    BY <1>1, <2>2
  <2> QED  BY <2>2, <2>3, <2>4, SeqEqual
<1> QED  BY <1>3, <1>4, <1>5

LEMMA SameFront ==
  ASSUME NEW S, NEW s \in Seq(S), NEW t \in Seq(S), t # <<>>,
         Len(s) = Len(t) - 1, \A i \in 1..Len(s) : s[i] = t[i]
  PROVE  s = Front(t)
BY FrontProperties, SeqEqual, EmptySeq

LEMMA EmptyIfLengthNought ==
  ASSUME NEW S, NEW s \in Seq(S), Len(s) = 0
  PROVE  s = <<>>
BY EmptySeq

LEMMA OneOrMore ==
  ASSUME NEW S, NEW s \in Seq(S), s # <<>>
  PROVE  Len(s) = 1 \/ Len(s) > 1
<1>1. Len(s) \in Nat \ {0}
  BY EmptySeq
<1>2. \A n \in Nat \ {0} : n = 1 \/ n > 1
  OBVIOUS
<1> QED  BY <1>1, <1>2

\* Of two paths only one comes before the other, and of one none.
LEMMA BeforeAsymmetric ==
  ASSUME NEW p \in Seq(Nat), NEW q \in Seq(Nat), Before(p, q), Before(q, p)
  PROVE  FALSE
<1>1. PICK i \in 1..Len(q) : /\ \A n \in 1..(i - 1) : n <= Len(p) /\ p[n] = q[n]
                             /\ i <= Len(p) => p[i] < q[i]
  BY DEF Before
<1>2. PICK j \in 1..Len(p) : /\ \A n \in 1..(j - 1) : n <= Len(q) /\ q[n] = p[n]
                             /\ j <= Len(q) => q[j] < p[j]
  BY DEF Before
<1>3. Len(p) \in Nat /\ Len(q) \in Nat
  BY LenProperties
<1>4. CASE i < j
  <2>1. i \in 1..(j - 1) /\ i \in 1..Len(p)
    BY <1>3, <1>4
  <2>2. q[i] = p[i] /\ p[i] < q[i] /\ p[i] \in Nat
    BY <1>1, <1>2, <2>1, ElementOfSeq
  <2> QED  BY <2>2
<1>5. CASE j < i
  <2>1. j \in 1..(i - 1) /\ j \in 1..Len(q)
    BY <1>3, <1>5
  <2>2. p[j] = q[j] /\ q[j] < p[j] /\ p[j] \in Nat
    BY <1>1, <1>2, <2>1, ElementOfSeq
  <2> QED  BY <2>2
<1>6. CASE i = j
  <2>1. p[i] < q[i] /\ q[i] < p[i] /\ p[i] \in Nat /\ q[i] \in Nat
    BY <1>1, <1>2, <1>3, <1>6, ElementOfSeq
  <2> QED  BY <2>1
<1>7. i < j \/ j < i \/ i = j
  BY <1>1, <1>2, <1>3
<1> QED  BY <1>4, <1>5, <1>6, <1>7

LEMMA BeforeIrreflexive ==
  ASSUME NEW p \in Seq(Nat), Before(p, p)
  PROVE  FALSE
BY BeforeAsymmetric

\* What comes before a path and not before its directory is in the directory, or
\* the directory itself.
LEMMA BetweenIsBelow ==
  ASSUME NEW f \in Seq(Nat), NEW c \in Seq(Nat), NEW q \in Seq(Nat),
         Len(q) = Len(f) + 1, \A i \in 1..Len(f) : q[i] = f[i],
         Before(c, q), ~Before(c, f)
  PROVE  Len(f) <= Len(c) /\ \A i \in 1..Len(f) : c[i] = f[i]
<1>1. Len(f) \in Nat /\ Len(c) \in Nat
  BY LenProperties
<1>2. PICK i \in 1..Len(q) : /\ \A j \in 1..(i - 1) : j <= Len(c) /\ c[j] = q[j]
                             /\ i <= Len(c) => c[i] < q[i]
  BY DEF Before
<1>3. CASE i <= Len(f)
  <2>1. \A j \in 1..(i - 1) : j <= Len(c) /\ c[j] = f[j]
    BY <1>1, <1>2, <1>3
  <2>2. q[i] = f[i] /\ i \in 1..Len(f)
    BY <1>1, <1>3
  <2>3. Before(c, f)
    BY <1>2, <2>1, <2>2 DEF Before
  <2> QED  BY <2>3
<1>4. CASE i > Len(f)
  <2>1. i = Len(f) + 1
    BY <1>1, <1>4
  <2>2. \A j \in 1..Len(f) : j \in 1..(i - 1)
    BY <1>1, <2>1
  <2>3. CASE Len(f) = 0
    BY <1>1, <2>3
  <2>4. CASE Len(f) # 0
    <3>1. Len(f) \in 1..(i - 1)
      BY <1>1, <2>1, <2>4
    <3> QED  BY <1>2, <2>2, <3>1
  <2> QED  BY <2>3, <2>4
<1> QED  BY <1>1, <1>3, <1>4

-----------------------------------------------------------------------------
(* The way of the walk through the tree.                                   *)

LEMMA RootProperties ==
  ASSUME tree \in Trees
  PROVE  /\ Root(tree) \in DOMAIN tree /\ Root(tree) \in Seq(Nat) /\ Root(tree) # <<>>
         /\ \A q \in DOMAIN tree : Len(q) = 1 <=> q = Root(tree)
<1>1. PICK p \in DOMAIN tree : \A q \in DOMAIN tree : Len(q) = 1 <=> q = p
  BY SourceAssumption
<1>2. Root(tree) = p
  BY <1>1 DEF Root
<1> QED  BY <1>1, <1>2, SourceAssumption

\* The walk of a tree begins at its root, and visits no path twice.
LEMMA WalkProperties ==
  ASSUME tree \in Trees, NEW w, w = Walk(DOMAIN tree)
  PROVE  /\ w \in Seq(DOMAIN tree) /\ Len(w) \in Nat \ {0} /\ ToSet(w) = DOMAIN tree
         /\ w[1] = Root(tree)
         /\ \A i, j \in 1..Len(w) : w[i] = w[j] => i = j
<1>1. /\ w \in Seq(DOMAIN tree) /\ ToSet(w) = DOMAIN tree
      /\ \A i, j \in 1..Len(w) : i < j => Before(w[i], w[j])
  BY SourceAssumption
<1>2. DOMAIN w = 1..Len(w) /\ Len(w) \in Nat /\ \A i \in 1..Len(w) : w[i] \in Seq(Nat)
  BY <1>1, LenProperties, ElementOfSeq, SourceAssumption
<1>3. PICK r \in 1..Len(w) : w[r] = Root(tree)
  BY <1>1, <1>2, RootProperties DEF ToSet
<1>4. \A i, j \in 1..Len(w) : w[i] = w[j] => i = j
  <2> SUFFICES ASSUME NEW i \in 1..Len(w), NEW j \in 1..Len(w), w[i] = w[j], i < j PROVE FALSE
    BY <1>2
  <2> QED  BY <1>1, <1>2, BeforeIrreflexive
<1>5. w[1] = Root(tree)
  <2> DEFINE f == Front(w[1])
  <2>1. 1 \in 1..Len(w) /\ w[1] \in DOMAIN tree /\ w[1] \in Seq(Nat) /\ w[1] # <<>>
    BY <1>1, <1>2, <1>3, ElementOfSeq, SourceAssumption
  <2>2. Len(w[1]) \in Nat \ {0}
    BY <2>1, EmptySeq
  <2>3. CASE Len(w[1]) = 1
    BY <2>1, <2>3, RootProperties
  <2>4. CASE Len(w[1]) > 1
    <3>1. f \in DOMAIN tree
      BY <2>1, <2>4, SourceAssumption
    <3>2. PICK i \in 1..Len(w) : w[i] = f
      BY <1>1, <1>2, <3>1 DEF ToSet
    <3>3. f \in Seq(Nat) /\ Len(f) = Len(w[1]) - 1 /\ \A n \in 1..(Len(w[1]) - 1) : f[n] = w[1][n]
      BY <2>1, FrontProperties
    <3>4. i > 1
      BY <1>2, <2>2, <3>2, <3>3
    <3>5. Before(w[1], f)
      BY <1>1, <2>1, <3>2, <3>4
    <3>6. PICK n \in 1..Len(f) : n <= Len(w[1]) => w[1][n] < f[n]
      BY <3>5 DEF Before
    <3>7. n <= Len(w[1]) /\ w[1][n] = f[n] /\ f[n] \in Nat
      <4>1. n \in 1..(Len(w[1]) - 1)
        BY <3>3
      <4> QED  BY <2>2, <3>3, <4>1, ElementOfSeq
    <3> QED  BY <3>6, <3>7
  <2>5. Len(w[1]) = 1 \/ Len(w[1]) > 1
    BY <2>1, OneOrMore
  <2> QED  BY <2>3, <2>4, <2>5, Zenon
<1> QED  BY <1>1, <1>2, <1>3, <1>4, <1>5

\* The directory of an entry is that of the entry before it in the walk, or one
\* around it.
LEMMA NextEntry ==
  ASSUME tree \in Trees, NEW c \in DOMAIN tree, NEW q \in DOMAIN tree, q # Root(tree),
         Before(c, q), \A f \in DOMAIN tree : f = c \/ f = q \/ Before(f, c) \/ Before(q, f)
  PROVE  /\ c \in Seq(Nat) /\ c # <<>> /\ q \in Seq(Nat) /\ Len(q) > 1
         /\ Len(q) - 1 <= Len(c) /\ \A i \in 1..(Len(q) - 1) : c[i] = q[i]
         /\ tree[c] # "dir" => Len(q) - 1 <= Len(c) - 1
<1> DEFINE f == Front(q)
<1>1. c \in Seq(Nat) /\ c # <<>> /\ q \in Seq(Nat) /\ q # <<>>
  BY SourceAssumption
<1>2. Len(q) > 1
  <2>1. Len(q) # 1
    BY RootProperties
  <2> QED  BY <1>1, <2>1, OneOrMore
<1>3. f \in DOMAIN tree /\ tree[f] = "dir"
  BY <1>2, SourceAssumption
<1>4. /\ f \in Seq(Nat) /\ Len(f) \in Nat /\ Len(q) = Len(f) + 1
      /\ \A i \in 1..Len(f) : q[i] = f[i]
  <2>1. f \in Seq(Nat) /\ Len(f) = Len(q) - 1 /\ \A i \in 1..(Len(q) - 1) : f[i] = q[i]
    BY <1>1, FrontProperties
  <2>2. Len(q) \in Nat /\ Len(f) \in Nat
    BY <1>1, <2>1, LenProperties
  <2> HIDE DEF f
  <2> QED  BY <2>1, <2>2
<1> HIDE DEF f
<1>5. ~Before(c, f)
  <2> SUFFICES ASSUME Before(c, f) PROVE FALSE
    OBVIOUS
  <2>1. f # c /\ ~Before(f, c)
    BY <1>1, <1>4, BeforeAsymmetric
  <2>2. f # q
    BY <1>4
  <2>3. Before(q, f)
    BY <1>3, <2>1, <2>2
  <2>4. PICK n \in 1..Len(f) : n <= Len(q) => q[n] < f[n]
    BY <2>3 DEF Before
  <2>5. n <= Len(q) /\ q[n] = f[n] /\ f[n] \in Nat
    BY <1>4, ElementOfSeq
  <2> QED  BY <2>4, <2>5
<1>6. Len(c) \in Nat /\ Len(f) <= Len(c) /\ \A i \in 1..Len(f) : c[i] = f[i]
  BY <1>1, <1>4, <1>5, BetweenIsBelow, LenProperties
<1>7. tree[c] # "dir" => Len(f) # Len(c)
  BY <1>1, <1>3, <1>4, <1>6, SeqEqual
<1> QED  BY <1>1, <1>2, <1>4, <1>6, <1>7

-----------------------------------------------------------------------------
(* The place of the server in the walk, whatever the client does.          *)

\* What there is to visit.
Visits == IF deep THEN Walk(DOMAIN tree) ELSE <<Root(tree)>>

\* The directory the walk is in after the visit of p.
Around(p) == IF deep /\ tree[p] = "dir" THEN p ELSE Front(p)

\* The walk has visited k entries.
Behind(k) ==
  /\ k \in 0..Len(Visits) /\ Len(todo) = Len(Visits) - k
  /\ \A i \in 1..Len(todo) : todo[i] = Visits[k + i]
  /\ here = IF k = 0 THEN Root(tree) ELSE Around(Visits[k])

\* The directory it is in, which at first is none.
Inside == IF Len(todo) = Len(Visits) THEN <<>> ELSE here

\* What has been sent.
Due == Sent \ ToSet(todo)

LEMMA VisitsProperties ==
  ASSUME WalkTypeOK
  PROVE  /\ Visits \in Seq(DOMAIN tree) /\ Len(Visits) \in Nat \ {0} /\ Sent \subseteq ToSet(Visits)
         /\ Visits[1] = Root(tree)
         /\ \A i, j \in 1..Len(Visits) : Visits[i] = Visits[j] => i = j
<1>1. tree \in Trees /\ deep \in BOOLEAN
  BY DEF WalkTypeOK
<1>2. CASE deep
  <2>1. Visits = Walk(DOMAIN tree) /\ Sent \subseteq DOMAIN tree
    BY <1>2 DEF Visits, Sent
  <2> QED  BY <1>1, <2>1, WalkProperties
<1>3. CASE ~deep
  <2>1. Visits = <<Root(tree)>> /\ Sent = {Root(tree)} /\ Root(tree) \in DOMAIN tree
    BY <1>1, <1>3, RootProperties DEF Visits, Sent
  <2>2. Len(Visits) = 1 /\ Visits[1] = Root(tree) /\ DOMAIN Visits = 1..1
    BY <2>1
  <2>3. Sent \subseteq ToSet(Visits)
    BY <2>1, <2>2 DEF ToSet
  <2> QED  BY <2>1, <2>2, <2>3
<1> QED  BY <1>1, <1>2, <1>3

\* A visit.
LEMMA Visit ==
  ASSUME WalkTypeOK, NEW k, Behind(k), todo # <<>>
  PROVE  /\ k + 1 \in 1..Len(Visits) /\ Head(todo) = Visits[k + 1]
         /\ Len(Tail(todo)) = Len(Visits) - (k + 1)
         /\ \A i \in 1..Len(Tail(todo)) : Tail(todo)[i] = Visits[k + 1 + i]
<1>1. todo \in Seq(DOMAIN tree)
  BY DEF WalkTypeOK
<1>2. /\ Len(todo) \in Nat \ {0} /\ Head(todo) = todo[1] /\ Len(Tail(todo)) = Len(todo) - 1
      /\ \A i \in 1..Len(Tail(todo)) : Tail(todo)[i] = todo[i + 1]
  BY <1>1, EmptySeq, HeadTailProperties
<1>3. /\ k \in 0..Len(Visits) /\ Len(todo) = Len(Visits) - k /\ Len(Visits) \in Nat
      /\ \A i \in 1..Len(todo) : todo[i] = Visits[k + i]
  BY VisitsProperties DEF Behind
<1>4. k + 1 \in 1..Len(Visits) /\ 1 \in 1..Len(todo) /\ Len(Tail(todo)) = Len(Visits) - (k + 1)
  BY <1>2, <1>3
<1>5. ASSUME NEW i \in 1..Len(Tail(todo)) PROVE Tail(todo)[i] = Visits[k + 1 + i]
  <2>1. i + 1 \in 1..Len(todo) /\ k + (i + 1) = k + 1 + i
    BY <1>2, <1>3
  <2> QED  BY <1>2, <1>3, <2>1
<1> QED  BY <1>2, <1>3, <1>4, <1>5

\* After the visit of a file one more has been sent.
LEMMA DueAfter ==
  ASSUME WalkTypeOK, NEW k, Behind(k), todo # <<>>
  PROVE  Sent \ ToSet(Tail(todo)) = Due \cup ({Head(todo)} \cap Sent)
<1>1. todo \in Seq(DOMAIN tree) /\ Tail(todo) \in Seq(DOMAIN tree)
  BY HeadTailProperties DEF WalkTypeOK
<1>2. /\ Len(todo) \in Nat \ {0} /\ Head(todo) = todo[1] /\ Len(Tail(todo)) = Len(todo) - 1
      /\ \A i \in 1..Len(Tail(todo)) : Tail(todo)[i] = todo[i + 1]
  BY <1>1, EmptySeq, HeadTailProperties
<1>3. DOMAIN todo = 1..Len(todo) /\ DOMAIN Tail(todo) = 1..(Len(todo) - 1)
  BY <1>1, <1>2, LenProperties
<1>4. ToSet(todo) = {Head(todo)} \cup ToSet(Tail(todo))
  <2>1. ASSUME NEW i \in 1..Len(todo) PROVE todo[i] \in {Head(todo)} \cup ToSet(Tail(todo))
    <3>1. CASE i = 1
      BY <1>2, <3>1
    <3>2. CASE i # 1
      <4>1. i - 1 \in 1..(Len(todo) - 1) /\ i - 1 + 1 = i
        BY <1>2, <3>2
      <4> QED  BY <1>2, <1>3, <4>1 DEF ToSet
    <3> QED  BY <3>1, <3>2
  <2>2. ASSUME NEW i \in 1..(Len(todo) - 1) PROVE Tail(todo)[i] \in ToSet(todo)
    BY <1>2, <1>3 DEF ToSet
  <2>3. Head(todo) \in ToSet(todo)
    BY <1>2, <1>3 DEF ToSet
  <2> QED  BY <1>3, <2>1, <2>2, <2>3 DEF ToSet
<1>5. Head(todo) \notin ToSet(Tail(todo))
  <2> SUFFICES ASSUME NEW i \in 1..Len(Tail(todo)), Tail(todo)[i] = Head(todo) PROVE FALSE
    BY <1>2, <1>3 DEF ToSet
  <2>1. k + 1 + i \in 1..Len(Visits) /\ k + 1 + i # k + 1
    BY <1>2, Visit DEF Behind
  <2>2. Visits[k + 1 + i] = Visits[k + 1] /\ k + 1 \in 1..Len(Visits)
    BY Visit
  <2> QED  BY <2>1, <2>2, VisitsProperties
<1> QED  BY <1>4, <1>5 DEF Due

\* In a tree that one E at a time is enough for, the directory of the next entry
\* is the one the walk is in, or that around it.
LEMMA OneStep ==
  ASSUME WalkTypeOK, OneStepTree, deep, NEW k, Behind(k), todo # <<>>
  PROVE  /\ Inside \in Seq(Nat)
         /\ HasPrefix(Head(todo), here) => Inside = Front(Head(todo))
         /\ ~HasPrefix(Head(todo), here) => Inside # <<>> /\ Front(Inside) = Front(Head(todo))
<1> DEFINE q == Head(todo)
<1>1. /\ k + 1 \in 1..Len(Visits) /\ q = Visits[k + 1] /\ k \in 0..Len(Visits)
      /\ Len(todo) = Len(Visits) - k /\ here = IF k = 0 THEN Root(tree) ELSE Around(Visits[k])
  BY Visit DEF Behind
<1>2. Visits \in Seq(DOMAIN tree) /\ Len(Visits) \in Nat \ {0} /\ Visits[1] = Root(tree)
  BY VisitsProperties
<1>3. tree \in Trees /\ q \in DOMAIN tree /\ q \in Seq(Nat) /\ q # <<>>
  BY HeadPath DEF WalkTypeOK
<1>4. CASE k = 0
  <2>1. Inside = <<>> /\ q = Root(tree) /\ here = q
    BY <1>1, <1>2, <1>4 DEF Inside
  <2>2. Len(q) = 1
    BY <1>3, <2>1, RootProperties
  <2>3. HasPrefix(q, q)
    BY <1>3, <2>2 DEF HasPrefix, TextPrefix, Last
  <2>4. Front(q) = <<>>
    BY <1>3, <2>2, FrontProperties, EmptyIfLengthNought
  <2> QED  BY <2>1, <2>3, <2>4, EmptySeq
<1>5. CASE k # 0
  <2> DEFINE c == Visits[k]
             d == IF tree[c] = "dir" THEN c ELSE Front(c)
  <2>1. k \in 1..Len(Visits) /\ k \in 1..(Len(Visits) - 1)
    BY <1>1, <1>2, <1>5
  <2>2. Inside = d /\ here = d
    BY <1>1, <1>2, <1>5 DEF Inside, Around
  <2>3. Visits = Walk(DOMAIN tree)
    BY DEF Visits
  <2>4. Len(d) - (Len(q) - 1) = IF HasPrefix(q, d) THEN 0 ELSE 1
    BY <1>1, <2>1, <2>3 DEF OneStepTree
  <2>5. c \in DOMAIN tree
    BY <1>2, <2>1, ElementOfSeq
  <2>6. q # Root(tree)
    BY <1>1, <1>2, <1>5, VisitsProperties
  <2>7. Before(c, q) /\ \A f \in DOMAIN tree : f = c \/ f = q \/ Before(f, c) \/ Before(q, f)
    <3>1. \A i, j \in 1..Len(Visits) : i < j => Before(Visits[i], Visits[j])
      BY <1>3, <2>3, SourceAssumption
    <3>2. Before(c, q)
      BY <1>1, <2>1, <3>1
    <3>3. ASSUME NEW f \in DOMAIN tree PROVE f = c \/ f = q \/ Before(f, c) \/ Before(q, f)
      <4>1. PICK i \in 1..Len(Visits) : Visits[i] = f
        <5>1. DOMAIN Visits = 1..Len(Visits) /\ f \in ToSet(Visits)
          BY <1>2, <1>3, <2>3, LenProperties, SourceAssumption
        <5> QED  BY <5>1 DEF ToSet
      <4>2. i = k \/ i = k + 1 \/ i < k \/ k + 1 < i
        BY <1>1, <1>2
      <4> QED  BY <1>1, <2>1, <3>1, <4>1, <4>2
    <3> QED  BY <3>2, <3>3
  <2> HIDE DEF c, q
  <2>8. /\ c \in Seq(Nat) /\ c # <<>> /\ q \in Seq(Nat) /\ Len(q) > 1
        /\ \A i \in 1..(Len(q) - 1) : c[i] = q[i]
        /\ Len(q) - 1 <= Len(c) /\ (tree[c] # "dir" => Len(q) - 1 <= Len(c) - 1)
    BY <1>3, <2>5, <2>6, <2>7, NextEntry
  <2>9. /\ d \in Seq(Nat) /\ Len(d) \in Nat /\ Len(q) \in Nat
        /\ Len(q) - 1 <= Len(d) /\ \A i \in 1..(Len(q) - 1) : d[i] = q[i]
    <3>1. Len(q) \in Nat /\ Len(c) \in Nat
      BY <2>8, LenProperties
    <3>2. CASE tree[c] = "dir"
      BY <2>8, <3>1, <3>2
    <3>3. CASE tree[c] # "dir"
      <4>1. /\ Front(c) \in Seq(Nat) /\ Len(Front(c)) = Len(c) - 1
            /\ \A i \in 1..(Len(c) - 1) : Front(c)[i] = c[i]
        BY <2>8, FrontProperties
      <4>2. d = Front(c)
        BY <3>3
      <4> QED  BY <2>8, <3>1, <3>3, <4>1, <4>2, LenProperties
    <3> QED  BY <3>2, <3>3
  <2> HIDE DEF d
  <2>10. HasPrefix(q, d) => d = Front(q)
    <3> SUFFICES ASSUME HasPrefix(q, d) PROVE d = Front(q)
      OBVIOUS
    <3>1. Len(d) = Len(q) - 1
      BY <2>4, <2>9
    <3> QED  BY <1>3, <2>9, <3>1, SameFront
  <2>11. ~HasPrefix(q, d) => d # <<>> /\ Front(d) = Front(q)
    <3> SUFFICES ASSUME ~HasPrefix(q, d) PROVE d # <<>> /\ Front(d) = Front(q)
      OBVIOUS
    <3>1. Len(d) = Len(q)
      BY <2>4, <2>9
    <3>2. d # <<>>
      BY <2>8, <3>1, EmptySeq
    <3>3. /\ Front(d) \in Seq(Nat) /\ Len(Front(d)) = Len(q) - 1
          /\ \A i \in 1..(Len(q) - 1) : Front(d)[i] = d[i]
      BY <2>9, <3>1, <3>2, FrontProperties
    <3>4. \A i \in 1..Len(Front(d)) : Front(d)[i] = q[i]
      BY <2>9, <3>3
    <3> QED  BY <1>3, <3>2, <3>3, <3>4, SameFront
  <2> QED  BY <2>2, <2>9, <2>10, <2>11 DEF q
<1> QED  BY <1>4, <1>5

-----------------------------------------------------------------------------

\* The places of sourceMode with an entry to visit, and those before the end.
Visiting == {"entry", "dir", "file", "copy", "sent"}
Walking  == {"walk", "climb"} \cup Visiting

Course ==
  /\ at \in Walking => \E k \in 0..Len(Visits) : Behind(k)
  /\ at \in {"walk", "climb"} => dirLevel = Len(Inside) /\ (deep \/ todo = <<>>)
  /\ at = "climb" => Inside # <<>> /\ Front(Inside) = Front(Head(todo))
  /\ at \in Visiting => dirLevel = Len(Head(todo)) - 1
  /\ at = "dir" => deep /\ tree[Head(todo)] = "dir" /\ Head(todo) \notin Sent
  /\ at \in {"file", "copy", "sent"} => ~(deep /\ tree[Head(todo)] = "dir") /\ Head(todo) \in Sent

LEMMA CourseInit == SourceInit => Course
<1> SUFFICES ASSUME SourceInit PROVE Course
  OBVIOUS
<1>1. SourceTypeOK /\ WalkTypeOK
  BY InitTypes, Parts
<1>2. tree \in Trees /\ deep \in BOOLEAN /\ here = Root(tree) /\ dirLevel = 0
  BY DEF SourceInit, Untouched
<1>3. todo = Visits /\ at \in {"walk", "entry"} /\ (at = "walk" <=> deep)
  BY <1>2 DEF SourceInit, Visits
<1>4. Visits \in Seq(DOMAIN tree) /\ Len(Visits) \in Nat \ {0}
  BY <1>1, VisitsProperties
<1>5. Behind(0)
  <2>1. \A i \in 1..Len(todo) : 0 + i = i
    BY <1>3, <1>4
  <2> QED  BY <1>2, <1>3, <1>4, <2>1 DEF Behind
<1>6. Inside = <<>>
  BY <1>3 DEF Inside
<1>7. at = "entry" => dirLevel = Len(Head(todo)) - 1
  <2> SUFFICES ASSUME at = "entry" PROVE dirLevel = Len(Head(todo)) - 1
    OBVIOUS
  <2>1. todo = <<Root(tree)>>
    BY <1>2, <1>3 DEF SourceInit
  <2>2. Len(Root(tree)) = 1
    BY <1>2, RootProperties
  <2> QED  BY <1>2, <2>1, <2>2
<1> QED  BY <1>2, <1>3, <1>4, <1>5, <1>6, <1>7 DEF Course, Visiting, Walking

\* A step within one visit, and one that ends it.
LEMMA SameVisit ==
  ASSUME UNCHANGED <<tree, deep, dot, todo, here>>
  PROVE  /\ Visits' = Visits /\ Inside' = Inside /\ Due' = Due /\ Sent' = Sent
         /\ (\E k \in 0..Len(Visits) : Behind(k)) => (\E k \in 0..Len(Visits) : Behind(k))'
BY DEF Visits, Inside, Due, Sent, Behind, Around

LEMMA EndOfVisit ==
  ASSUME WalkTypeOK, \E k \in 0..Len(Visits) : Behind(k), todo # <<>>,
         UNCHANGED <<tree, deep, dot>>, todo' = Tail(todo), here' = Around(Head(todo))
  PROVE  /\ (\E k \in 0..Len(Visits) : Behind(k))' /\ Visits' = Visits /\ Sent' = Sent
         /\ Inside' = Around(Head(todo)) /\ Due' = Due \cup ({Head(todo)} \cap Sent)
         /\ ~deep => todo' = <<>>
<1>1. PICK k \in 0..Len(Visits) : Behind(k)
  OBVIOUS
<1>2. Visits' = Visits /\ Sent' = Sent /\ \A p : Around(p)' = Around(p)
  BY DEF Visits, Sent, Around
<1>3. /\ k + 1 \in 1..Len(Visits) /\ Head(todo) = Visits[k + 1] /\ Len(todo') = Len(Visits) - (k + 1)
      /\ \A i \in 1..Len(todo') : todo'[i] = Visits[k + 1 + i]
  BY <1>1, Visit
<1>4. Len(Visits) \in Nat \ {0} /\ k + 1 \in 0..Len(Visits) /\ k + 1 # 0
  BY <1>3, VisitsProperties
<1>5. Behind(k + 1)'
  <2>1. here' = IF k + 1 = 0 THEN Root(tree')
                ELSE IF deep /\ tree[Visits[k + 1]] = "dir" THEN Visits[k + 1] ELSE Front(Visits[k + 1])
    BY <1>3, <1>4 DEF Around
  <2> QED  BY <1>2, <1>3, <1>4, <2>1 DEF Behind, Around
<1>6. Inside' = Around(Head(todo))
  BY <1>2, <1>3, <1>4 DEF Inside
<1>7. Due' = Due \cup ({Head(todo)} \cap Sent)
  BY <1>1, <1>2, DueAfter DEF Due
<1>8. ~deep => todo' = <<>>
  <2> SUFFICES ASSUME ~deep PROVE todo' = <<>>
    OBVIOUS
  <2>1. Len(Visits) = 1
    BY DEF Visits
  <2>2. Len(todo') = 0
    BY <1>3, <2>1
  <2> QED  BY <2>2, HeadPath, EmptyIfLengthNought
<1> QED  BY <1>2, <1>4, <1>5, <1>6, <1>7, <1>8

LEMMA InsideType ==
  ASSUME WalkTypeOK
  PROVE  Inside \in Seq(Nat) /\ Len(Inside) \in Nat
<1>1. Inside \in Seq(Nat)
  BY EmptySeq DEF WalkTypeOK, Inside
<1> QED  BY <1>1, LenProperties

\* Outside of the walk there is nothing to say.
LEMMA CourseLeft ==
  ASSUME at' \in {"up", "left", "done"}
  PROVE  Course'
BY DEF Course, Visiting, Walking

LEMMA CourseStep ==
  ASSUME SourceTypeOK, OneStepTree, Course, Source
  PROVE  Course'
<1> DEFINE q == Head(todo)
<1>1. WalkTypeOK /\ UNCHANGED <<tree, deep, dot>>
  BY Parts DEF Source, Climb, ClimbReply, Entry, DirReply, FileReply, Copy, CopyFails, SentReply, Up, LeftReply, Read
<1>2. ASSUME at \in Visiting \cup {"climb"}
      PROVE  /\ todo # <<>> /\ q \in DOMAIN tree /\ q \in Seq(Nat) /\ q # <<>>
             /\ Front(q) \in Seq(Nat) /\ Len(Front(q)) = Len(q) - 1 /\ Len(q) \in Nat
  <2>1. todo # <<>>
    BY <1>1, <1>2 DEF Visiting, WalkTypeOK
  <2> QED  BY <1>1, <2>1, HeadPath, FrontProperties, LenProperties
<1>3. CASE Climb
  <2>1. at = "walk" /\ todo # <<>> /\ UNCHANGED <<todo, here, dirLevel>>
    BY <1>3 DEF Climb
  <2>2. deep /\ dirLevel = Len(Inside) /\ \E k \in 0..Len(Visits) : Behind(k)
    BY <2>1 DEF Course, Walking
  <2>3. /\ HasPrefix(q, here) => Inside = Front(q)
        /\ ~HasPrefix(q, here) => Inside # <<>> /\ Front(Inside) = Front(q)
    BY <1>1, <2>1, <2>2, OneStep
  <2>4. q \in Seq(Nat) /\ q # <<>> /\ Len(Front(q)) = Len(q) - 1
    BY <1>1, <2>1, HeadPath, FrontProperties
  <2>5. CASE HasPrefix(q, here)
    <3>1. at' = "entry"
      BY <1>3, <2>5 DEF Climb
    <3>2. dirLevel' = Len(Head(todo')) - 1
      BY <2>1, <2>2, <2>3, <2>4, <2>5
    <3> QED  BY <1>1, <2>1, <2>2, <3>1, <3>2, SameVisit DEF Course, Walking, Visiting
  <2>6. CASE ~HasPrefix(q, here)
    <3>1. at' = "climb"
      BY <1>3, <2>6 DEF Climb
    <3> QED  BY <1>1, <2>1, <2>2, <2>3, <2>6, <3>1, SameVisit DEF Course, Walking, Visiting
  <2> QED  BY <2>5, <2>6
<1>4. CASE ClimbReply
  <2>1. at = "climb" /\ UNCHANGED <<todo, here>>
    BY <1>4 DEF ClimbReply
  <2>2. CASE Passed
    <3>1. at' = "entry" /\ dirLevel' = dirLevel - 1
      BY <1>4, <2>2 DEF ClimbReply
    <3>2. /\ dirLevel = Len(Inside) /\ Inside # <<>> /\ Front(Inside) = Front(q)
          /\ \E k \in 0..Len(Visits) : Behind(k)
      BY <2>1 DEF Course, Walking
    <3>3. Len(Front(Inside)) = Len(Inside) - 1 /\ Len(Inside) \in Nat
      BY <1>1, <3>2, InsideType, FrontProperties
    <3>4. dirLevel' = Len(q) - 1
      BY <1>2, <2>1, <3>1, <3>2, <3>3
    <3> QED  BY <1>1, <2>1, <3>1, <3>2, <3>4, SameVisit DEF Course, Walking, Visiting
  <2>3. CASE ~Passed
    BY <1>4, <2>3, CourseLeft DEF ClimbReply
  <2> QED  BY <2>2, <2>3
<1>5. CASE Entry
  <2>1. at = "entry" /\ UNCHANGED <<todo, here, dirLevel>>
    BY <1>5 DEF Entry
  <2>2. dirLevel = Len(q) - 1 /\ \E k \in 0..Len(Visits) : Behind(k)
    BY <2>1 DEF Course, Walking, Visiting
  <2>3. q \in DOMAIN tree /\ todo # <<>> /\ tree[q] \in {"dir", "file"}
    BY <1>1, <1>2, <2>1, SourceAssumption DEF Visiting, WalkTypeOK
  <2>4. CASE deep /\ tree[q] = "dir"
    <3>1. at' = "dir" /\ q \notin Sent
      BY <1>5, <2>4 DEF Entry, Sent
    <3> QED  BY <1>1, <2>1, <2>2, <2>4, <3>1, SameVisit DEF Course, Walking, Visiting
  <2>5. CASE ~(deep /\ tree[q] = "dir")
    <3>1. at' = "file"
      BY <1>5, <2>5 DEF Entry
    <3>2. q \in Sent
      <4>1. CASE deep
        BY <2>3, <2>5, <4>1 DEF Sent
      <4>2. CASE ~deep
        <5>1. PICK k \in 0..Len(Visits) : Behind(k)
          BY <2>2
        <5>2. Visits = <<Root(tree)>> /\ q = Visits[k + 1] /\ k + 1 \in 1..Len(Visits)
          BY <1>1, <2>3, <4>2, <5>1, Visit DEF Visits
        <5>3. q = Root(tree)
          BY <5>2
        <5> QED  BY <4>2, <5>3 DEF Sent
      <4> QED  BY <4>1, <4>2
    <3> QED  BY <1>1, <2>1, <2>2, <2>5, <3>1, <3>2, SameVisit DEF Course, Walking, Visiting
  <2> QED  BY <2>4, <2>5
<1>6. CASE DirReply
  <2>1. at = "dir"
    BY <1>6 DEF DirReply
  <2>2. CASE Passed
    <3>1. at' = "walk" /\ dirLevel' = dirLevel + 1 /\ here' = q /\ todo' = Tail(todo)
      BY <1>6, <2>2 DEF DirReply
    <3>2. dirLevel = Len(q) - 1 /\ deep /\ tree[q] = "dir" /\ \E k \in 0..Len(Visits) : Behind(k)
      BY <2>1 DEF Course, Walking, Visiting
    <3>3. Around(q) = q
      BY <3>2 DEF Around
    <3>4. (\E k \in 0..Len(Visits) : Behind(k))' /\ Inside' = q
      BY <1>1, <1>2, <2>1, <3>1, <3>2, <3>3, EndOfVisit DEF Visiting
    <3>5. dirLevel' = Len(Inside') /\ deep'
      BY <1>1, <1>2, <2>1, <3>1, <3>2, <3>4 DEF Visiting
    <3> QED  BY <3>1, <3>4, <3>5 DEF Course, Walking, Visiting
  <2>3. CASE ~Passed
    BY <1>6, <2>3, CourseLeft DEF DirReply
  <2> QED  BY <2>2, <2>3
<1>7. ASSUME GiveUp PROVE Course'
  BY <1>7, CourseLeft DEF GiveUp
<1>8. ASSUME at \in {"file", "copy"}, at' \in {"copy", "sent"}, UNCHANGED <<todo, here, dirLevel>> PROVE Course'
  BY <1>1, <1>8, SameVisit DEF Course, Walking, Visiting
<1>9. CASE FileReply
  BY <1>7, <1>8, <1>9 DEF FileReply
<1>10. CASE Copy
  BY <1>8, <1>10 DEF Copy
<1>11. CASE CopyFails
  BY <1>7, <1>11 DEF CopyFails
<1>12. CASE SentReply
  <2>1. at = "sent" /\ UNCHANGED dirLevel
    BY <1>12 DEF SentReply
  <2>2. CASE ~Ended
    <3>1. at' = "walk" /\ here' = Front(q) /\ todo' = Tail(todo)
      BY <1>12, <2>2 DEF SentReply
    <3>2. dirLevel = Len(q) - 1 /\ ~(deep /\ tree[q] = "dir") /\ \E k \in 0..Len(Visits) : Behind(k)
      BY <2>1 DEF Course, Walking, Visiting
    <3>3. Around(q) = Front(q)
      BY <3>2 DEF Around
    <3>4. (\E k \in 0..Len(Visits) : Behind(k))' /\ Inside' = Front(q) /\ (~deep => todo' = <<>>)
      BY <1>1, <1>2, <2>1, <3>1, <3>2, <3>3, EndOfVisit DEF Visiting
    <3>5. dirLevel' = Len(Inside')
      BY <1>2, <2>1, <3>2, <3>4 DEF Visiting
    <3> QED  BY <1>1, <3>1, <3>4, <3>5 DEF Course, Walking, Visiting
  <2>3. CASE Ended
    BY <1>7, <1>12, <2>3 DEF SentReply
  <2> QED  BY <2>2, <2>3
<1>13. CASE Up
  BY <1>13, CourseLeft DEF Up
<1>14. CASE LeftReply
  BY <1>14, CourseLeft DEF LeftReply
<1> QED
  BY <1>3, <1>4, <1>5, <1>6, <1>9, <1>10, <1>11, <1>12, <1>13, <1>14 DEF Source

-----------------------------------------------------------------------------
(* The conversation.  As sourceMode reads the greeting as the reply to its  *)
(* first command, one reply is always outstanding.                         *)

EndDir  == Cmd("E", <<>>)
Content == Cmd("data", <<>>)
Zero    == Cmd("zero", <<>>)
Both    == <<"OK", "OK">>

\* The files that have come.
Srcs == {f.src : f \in arrived}

\* The client is in the directory x with the files S and its replies are a; or it
\* takes the file q for that directory.
Stands(x, S, a)   == phase = "line" /\ place = x /\ Srcs = S /\ acks = a
Takes(p, q, S, a) == phase = p /\ place = Front(q) /\ file = q /\ Srcs \cup {q} = S /\ acks = a

\* When it has read l it is in x with the files S, and one reply is outstanding.
Owed(x, S, l) ==
  \/ l = <<>> /\ Stands(x, S, <<"OK">>)
  \/ l = <<Cmd("D", x)>> /\ x # <<>> /\ Stands(Front(x), S, <<>>)
  \/ l = <<EndDir>> /\ place # <<>> /\ Front(place) = x /\ Stands(place, S, <<>>)
  \/ l = <<Content, Zero>> /\ Front(file) = x /\ Takes("data", file, S, <<>>)
  \/ l = <<Zero>> /\ Front(file) = x /\ Takes("tail", file, S, <<>>)

\* The same, before the command cmd that is the last on the line.
OwedBefore(x, S, cmd) == \E l \in Seq(Tokens) : line = Append(l, cmd) /\ Owed(x, S, l)

AtWalk  == Owed(Inside, Due, line)
AtClimb == unsent = <<EndDir>> /\ Owed(Inside, Due, line)
AtEntry ==
  \/ unsent = <<>> /\ Owed(Front(Head(todo)), Due, line)
  \/ unsent = <<EndDir>> /\ line = <<>> /\ Owed(Front(Head(todo)), Due, <<EndDir>>)
AtDir ==
  \/ OwedBefore(Front(Head(todo)), Due, Cmd("D", Head(todo)))
  \/ line = <<>> /\ Stands(Head(todo), Due, Both)
AtFile ==
  \/ OwedBefore(Front(Head(todo)), Due, Cmd("C", Head(todo)))
  \/ line = <<>> /\ Takes("data", Head(todo), Due \cup {Head(todo)}, Both)
AtCopy ==
  \/ line = <<Cmd("C", Head(todo))>> /\ Stands(Front(Head(todo)), Due, <<>>)
  \/ line = <<>> /\ Takes("data", Head(todo), Due \cup {Head(todo)}, <<"OK">>)
AtSent ==
  \/ line = <<Cmd("C", Head(todo)), Content, Zero>> /\ Stands(Front(Head(todo)), Due, <<>>)
  \/ line = <<Content, Zero>> /\ Takes("data", Head(todo), Due \cup {Head(todo)}, <<"OK">>)
  \/ line = <<Zero>> /\ Takes("tail", Head(todo), Due \cup {Head(todo)}, <<"OK">>)
  \/ line = <<>> /\ Stands(Front(Head(todo)), Due \cup {Head(todo)}, Both)
AtUp == \E x \in Seq(Nat) : Len(x) = dirLevel /\ Owed(x, Sent, line)
AtLeft ==
  \/ \E x \in Seq(Nat) : Len(x) = dirLevel /\ OwedBefore(x, Sent, EndDir)
  \/ line = <<>> /\ Len(place) = dirLevel - 1 /\ Stands(place, Sent, Both)

\* Both sides are where they should be.
InStep ==
  /\ ~refused /\ ~failed /\ code = 0
  /\ at \notin {"climb", "entry"} => unsent = <<>>
  /\ at = "walk" => AtWalk
  /\ at = "climb" => AtClimb
  /\ at = "entry" => AtEntry
  /\ at = "dir" => AtDir
  /\ at = "file" => AtFile
  /\ at = "copy" => AtCopy
  /\ at = "sent" => AtSent
  /\ at = "up" => AtUp
  /\ at = "left" => AtLeft /\ dirLevel > 0
  /\ at = "done" => AtUp /\ dirLevel = 0

\* Or something has been refused or could not be read, and no more data will
\* be taken for a file that is not in its place: the client has gone or will,
\* because data come where it expects a command; or an error that the server is
\* still to read stands before any data; or it sends no more.
Quiet(s) == \A i \in 1..Len(s) : s[i].op # "data"

Harmless ==
  /\ Quiet(unsent)
  /\ line # <<>> => Quiet(Tail(line)) /\ (phase = "data" /\ Head(line).op = "data" => place = Front(file))

Doomed == phase = "line" /\ line # <<>> /\ Head(line).op = "data"

Late ==
  /\ phase = "line" /\ line = <<>> /\ unsent = <<>>
  /\ \/ at \in {"dir", "file", "sent"} /\ acks = <<"OK", "ERR">>
     \/ at = "copy" /\ acks = <<"ERR">>

Stopping == at \in {"up", "left", "done"}
Warned   == at \in {"walk", "climb", "entry", "dir", "file"} /\ acks # <<>> /\ Head(acks) = "ERR"

Lost ==
  /\ refused \/ failed
  /\ phase = "tail" => place = Front(file)
  /\ phase = "gone" \/ Doomed \/ Late \/ (Harmless /\ (Stopping \/ Warned))

-----------------------------------------------------------------------------
(* A step of the client, which reads a token.                              *)

LEMMA WhatIsRead ==
  ASSUME Receiver
  PROVE  /\ line # <<>> /\ line' = Tail(line) /\ phase # "gone" /\ UNCHANGED <<tree, deep, dot, walkVars>>
         /\ phase = "line" /\ Token.op = "D" => Refuse \/ EnterDir
         /\ phase = "line" /\ Token.op = "C" => Refuse \/ TakeFile
         /\ phase = "line" /\ Token.op = "E" => LeaveDir
         /\ phase = "line" /\ Token.op \in {"data", "zero", "err"} => Protocol
         /\ phase = "data" => TakeData
         /\ phase = "tail" => TakeTail
BY DEF Receiver, Refuse, EnterDir, TakeFile, LeaveDir, Protocol, TakeData, TakeTail, Receive

LEMMA OneMoreFile ==
  ASSUME NEW A, NEW q, NEW d
  PROVE  {f.src : f \in A \cup {[src |-> q, dst |-> d]}} = {f.src : f \in A} \cup {q}
<1> DEFINE r == [src |-> q, dst |-> d]
<1>1. r.src = q
  OBVIOUS
<1> HIDE DEF r
<1>2. {f.src : f \in A \cup {r}} = {f.src : f \in A} \cup {q}
  BY <1>1
<1> QED  BY <1>2 DEF r

LEMMA OwedRead ==
  ASSUME SourceTypeOK, Receiver, NEW x \in Seq(Nat), NEW S, NEW l, Owed(x, S, l), l # <<>>,
         Token = Head(l)
  PROVE  \/ refused' = refused /\ Owed(x, S, Tail(l))'
         \/ refused' = TRUE /\ phase' = "line" /\ acks' = <<"ERR">> /\ Tail(l) = <<>>
<1>1. CASE l = <<Cmd("D", x)>> /\ x # <<>> /\ Stands(Front(x), S, <<>>)
  <2>1. Token.op = "D" /\ Token.path = x /\ phase = "line" /\ Tail(l) = <<>>
    BY <1>1 DEF Cmd, Stands
  <2>2. CASE Refuse
    BY <1>1, <2>1, <2>2 DEF Refuse, Ack, Stands
  <2>3. CASE EnterDir
    <3>1. place' = x
      BY <1>1, <2>1, <2>3, FrontProperties DEF EnterDir, Stands
    <3>2. acks' = <<"OK">> /\ phase' = "line" /\ refused' = refused /\ Srcs' = S
      BY <1>1, <2>1, <2>3 DEF EnterDir, Stands, Ack, Srcs
    <3> QED  BY <2>1, <3>1, <3>2 DEF Owed, Stands
  <2> QED  BY <2>1, <2>2, <2>3, WhatIsRead
<1>2. CASE l = <<EndDir>> /\ place # <<>> /\ Front(place) = x /\ Stands(place, S, <<>>)
  <2>1. Token.op = "E" /\ phase = "line" /\ Tail(l) = <<>>
    BY <1>2 DEF Cmd, Stands, EndDir
  <2>2. LeaveDir
    BY <2>1, WhatIsRead
  <2>3. acks' = <<"OK">> /\ phase' = "line" /\ refused' = refused /\ Srcs' = S /\ place' = x
    BY <1>2, <2>1, <2>2 DEF LeaveDir, Stands, Ack, Srcs
  <2> QED  BY <2>1, <2>3 DEF Owed, Stands
<1>3. CASE l = <<Content, Zero>> /\ Front(file) = x /\ Takes("data", file, S, <<>>)
  <2>1. Token.op = "data" /\ phase = "data" /\ Tail(l) = <<Zero>>
    BY <1>3 DEF Cmd, Takes, Content
  <2>2. TakeData
    BY <2>1, WhatIsRead
  <2>3. phase' = "tail" /\ UNCHANGED <<acks, file, place, arrived, refused>>
    BY <2>1, <2>2 DEF TakeData
  <2> QED  BY <1>3, <2>1, <2>3 DEF Owed, Takes, Srcs
<1>4. CASE l = <<Zero>> /\ Front(file) = x /\ Takes("tail", file, S, <<>>)
  <2>1. phase = "tail" /\ Tail(l) = <<>>
    BY <1>4 DEF Takes
  <2>2. TakeTail
    BY <2>1, WhatIsRead
  <2>3. phase' = "line" /\ UNCHANGED <<file, place>>
    BY <2>2 DEF TakeTail
  <2>4. CASE Ack("OK") /\ arrived' = arrived \cup {[src |-> file, dst |-> Append(place, Last(file))]} /\ UNCHANGED refused
    <3>1. Srcs' = Srcs \cup {file}
      BY <2>4, OneMoreFile DEF Srcs
    <3>2. acks' = <<"OK">>
      BY <1>4, <2>4 DEF Ack, Takes
    <3> QED  BY <1>4, <2>1, <2>3, <2>4, <3>1, <3>2 DEF Owed, Takes, Stands
  <2>5. CASE Ack("ERR") /\ refused' = TRUE
    BY <1>4, <2>1, <2>3, <2>5 DEF Ack, Takes
  <2> QED  BY <2>2, <2>4, <2>5 DEF TakeTail
<1> QED  BY <1>1, <1>2, <1>3, <1>4 DEF Owed

LEMMA AppendToEmpty == \A cmd : Append(<<>>, cmd) = <<cmd>>
OBVIOUS

LEMMA AppendToOne ==
  ASSUME NEW a, NEW b
  PROVE  Append(<<a>>, b) = <<a, b>> /\ <<a>> \o <<b>> = <<a, b>>
<1>1. PICK S, s, t : S = {a, b} /\ s = <<a>> /\ t = <<a, b>>
  OBVIOUS
<1>2. s \in Seq(S) /\ Len(s) = 1 /\ s[1] = a /\ a \in S /\ b \in S
  BY <1>1
<1>3. t \in Seq(S) /\ Len(t) = 2 /\ t[1] = a /\ t[2] = b
  BY <1>1
<1>4. /\ Append(s, b) \in Seq(S) /\ Len(Append(s, b)) = Len(s) + 1
      /\ \A i \in 1..Len(s) : Append(s, b)[i] = s[i]
      /\ Append(s, b)[Len(s) + 1] = b
  BY <1>2, AppendProperties
<1>5. Len(s) + 1 = 2 /\ 1 \in 1..Len(s) /\ \A i \in 1..2 : i = 1 \/ i = 2
  BY <1>2
<1>6. Append(s, b) = t
  BY <1>2, <1>3, <1>4, <1>5, SeqEqual
<1>7. Append(s, b) = s \o <<b>>
  BY <1>2, AppendIsConcat
<1> QED  BY <1>1, <1>6, <1>7

LEMMA ConcatToOne ==
  ASSUME NEW a, NEW b, NEW c
  PROVE  <<a>> \o <<>> \o <<b, c>> = <<a, b, c>>
<1>1. PICK S, s, t, u : S = {a, b, c} /\ s = <<a>> /\ t = <<b, c>> /\ u = <<a, b, c>>
  OBVIOUS
<1>2. s \in Seq(S) /\ Len(s) = 1 /\ s[1] = a /\ t \in Seq(S) /\ Len(t) = 2 /\ t[1] = b /\ t[2] = c
  BY <1>1
<1>3. u \in Seq(S) /\ Len(u) = 3 /\ u[1] = a /\ u[2] = b /\ u[3] = c
  BY <1>1
<1>4. s \o <<>> = s
  BY <1>2, ConcatEmptySeq
<1>5. /\ s \o t \in Seq(S) /\ Len(s \o t) = Len(s) + Len(t)
      /\ \A i \in 1..(Len(s) + Len(t)) : (s \o t)[i] = IF i <= Len(s) THEN s[i] ELSE t[i - Len(s)]
  BY <1>2, ConcatProperties
<1>6. Len(s \o t) = 3 /\ (s \o t)[1] = a /\ (s \o t)[2] = b /\ (s \o t)[3] = c
  <2>1. \A i \in 1..3 : (s \o t)[i] = IF i <= 1 THEN s[i] ELSE t[i - 1]
    BY <1>2, <1>5
  <2>2. 1 \in 1..3 /\ 2 \in 1..3 /\ 3 \in 1..3 /\ 2 - 1 = 1 /\ 3 - 1 = 2
    OBVIOUS
  <2> QED  BY <1>2, <1>5, <2>1, <2>2
<1>7. \A i \in 1..3 : i = 1 \/ i = 2 \/ i = 3
  OBVIOUS
<1>8. s \o t = u
  BY <1>3, <1>5, <1>6, <1>7, SeqEqual
<1> QED  BY <1>1, <1>4, <1>8

LEMMA TwoReplies ==
  ASSUME NEW r
  PROVE  acks = <<"OK">> /\ Ack(r) => acks' = <<"OK", r>>
BY AppendToOne DEF Ack

\* The same with a command behind.
LEMMA ReadBefore ==
  ASSUME SourceTypeOK, Receiver, NEW x \in Seq(Nat), NEW S, NEW l \in Seq(Tokens), NEW cmd \in Tokens,
         Owed(x, S, l), l # <<>>, line = Append(l, cmd)
  PROVE  \/ refused' = refused /\ OwedBefore(x, S, cmd)'
         \/ refused' = TRUE /\ phase' = "line" /\ acks' = <<"ERR">> /\ line' = <<cmd>>
<1>1. Token = Head(l) /\ line' = Append(Tail(l), cmd) /\ Tail(l) \in Seq(Tokens)
  BY HeadTailAppend, HeadTailProperties, WhatIsRead DEF Token
<1>2. CASE refused' = refused /\ Owed(x, S, Tail(l))'
  BY <1>1, <1>2 DEF OwedBefore
<1>3. CASE refused' = TRUE /\ phase' = "line" /\ acks' = <<"ERR">> /\ Tail(l) = <<>>
  <2>1. line' = Append(<<>>, cmd)
    BY <1>1, <1>3
  <2> QED  BY <1>3, <2>1, AppendToEmpty
<1> QED  BY <1>1, <1>2, <1>3, OwedRead

\* The same with nothing behind.
LEMMA ReadAll ==
  ASSUME SourceTypeOK, Receiver, NEW x \in Seq(Nat), NEW S, Owed(x, S, line)
  PROVE  \/ refused' = refused /\ Owed(x, S, line)'
         \/ refused' = TRUE /\ phase' = "line" /\ acks' = <<"ERR">> /\ line' = <<>>
<1>1. PICK l : l = line
  OBVIOUS
<1>2. Owed(x, S, l) /\ l # <<>> /\ Token = Head(l) /\ line' = Tail(l)
  BY <1>1, WhatIsRead DEF Token
<1>3. CASE refused' = refused /\ Owed(x, S, Tail(l))'
  BY <1>2, <1>3 DEF Owed
<1>4. CASE refused' = TRUE /\ phase' = "line" /\ acks' = <<"ERR">> /\ Tail(l) = <<>>
  BY <1>2, <1>4
<1> QED  BY <1>2, <1>3, <1>4, OwedRead

LEMMA QuietTokens ==
  /\ Quiet(<<>>) /\ Quiet(<<EndDir>>)
  /\ \A cmd : Quiet(Tail(<<cmd>>))
BY DEF Quiet, EndDir, Cmd

\* A refusal that is the next reply the server reads, or that it does not wait for.
LEMMA RefusedInTime ==
  ASSUME refused' = TRUE, phase' = "line", acks' = <<"ERR">>, Quiet(unsent'),
         line' = <<>> \/ \E cmd : line' = <<cmd>>,
         at' \in {"walk", "climb", "entry", "dir", "file", "up", "left", "done"}
  PROVE  Lost'
<1>1. line' # <<>> => Quiet(Tail(line'))
  BY QuietTokens
<1>2. Harmless'
  BY <1>1 DEF Harmless, Quiet
<1>3. (Stopping \/ Warned)'
  BY DEF Stopping, Warned
<1> QED  BY <1>2, <1>3 DEF Lost

\* And one that it reads after its next command.
LEMMA RefusedLate ==
  ASSUME refused' = TRUE, phase' = "line", line' = <<>>, unsent' = <<>>,
         \/ at' \in {"dir", "file", "sent"} /\ acks' = <<"OK", "ERR">>
         \/ at' = "copy" /\ acks' = <<"ERR">>
  PROVE  Lost'
BY DEF Lost, Late

\* The client keeps in step, or refuses.
LEMMA ClientInStep ==
  ASSUME SourceTypeOK, Course, InStep, Receiver
  PROVE  InStep' \/ Lost'
<1> DEFINE q == Head(todo)
<1>1. /\ WalkTypeOK /\ WireTypeOK /\ ClientTypeOK /\ Inside \in Seq(Nat)
  BY Parts, InsideType
<1>2. /\ UNCHANGED <<tree, deep, dot, at, todo, here, dirLevel, unsent, failed, code>>
      /\ line # <<>> /\ line' = Tail(line)
  BY WhatIsRead DEF walkVars
<1>3. Inside' = Inside /\ Due' = Due /\ Sent' = Sent
  BY <1>2, SameVisit
<1>4. ~refused /\ ~failed /\ code = 0 /\ (at \notin {"climb", "entry"} => unsent = <<>>)
  BY DEF InStep
<1>5. ASSUME at \in Visiting
      PROVE  /\ q \in Seq(Nat) /\ q # <<>> /\ Front(q) \in Seq(Nat) /\ Append(Front(q), Last(q)) = q
             /\ Cmd("D", q) \in Tokens /\ Cmd("C", q) \in Tokens
  <2>1. todo # <<>>
    BY <1>1, <1>5 DEF WalkTypeOK, Visiting
  <2> QED  BY <1>1, <2>1, HeadPath, FrontProperties, CmdType DEF Ops
<1>6. ASSUME NEW x \in Seq(Nat), NEW S, Owed(x, S, line), Quiet(unsent),
             at \in {"walk", "climb", "entry", "up", "done"}
      PROVE  (refused' = refused /\ Owed(x, S, line)') \/ Lost'
  BY <1>2, <1>6, ReadAll, RefusedInTime
<1>7. ASSUME NEW x \in Seq(Nat), NEW S, NEW cmd \in Tokens, NEW l \in Seq(Tokens), Owed(x, S, l), l # <<>>,
             line = Append(l, cmd), at \in {"dir", "file", "left"}
      PROVE  (refused' = refused /\ OwedBefore(x, S, cmd)') \/ Lost'
  <2>1. Quiet(unsent')
    BY <1>2, <1>4, <1>7, QuietTokens
  <2> QED  BY <1>2, <1>7, <2>1, ReadBefore, RefusedInTime
<1>8. CASE at = "walk"
  <2>1. Owed(Inside, Due, line) /\ unsent = <<>> /\ Quiet(unsent)
    BY <1>4, <1>8, QuietTokens DEF InStep, AtWalk
  <2>2. CASE refused' = refused /\ Owed(Inside, Due, line)'
    BY <1>2, <1>3, <1>4, <1>8, <2>1, <2>2 DEF InStep, AtWalk
  <2> QED  BY <1>1, <1>3, <1>6, <1>8, <2>1, <2>2
<1>9. CASE at = "climb"
  <2>1. Owed(Inside, Due, line) /\ unsent = <<EndDir>> /\ Quiet(unsent)
    BY <1>9, QuietTokens DEF InStep, AtClimb
  <2>2. CASE refused' = refused /\ Owed(Inside, Due, line)'
    BY <1>2, <1>3, <1>4, <1>9, <2>1, <2>2 DEF InStep, AtClimb, EndDir, Cmd
  <2> QED  BY <1>1, <1>3, <1>6, <1>9, <2>1, <2>2
<1>10. CASE at = "entry"
  <2>1. Owed(Front(q), Due, line) /\ unsent = <<>> /\ Quiet(unsent)
    BY <1>2, <1>10, QuietTokens DEF InStep, AtEntry
  <2>2. CASE refused' = refused /\ Owed(Front(q), Due, line)'
    BY <1>2, <1>3, <1>4, <1>10, <2>1, <2>2 DEF InStep, AtEntry
  <2> QED  BY <1>2, <1>3, <1>5, <1>6, <1>10, <2>1, <2>2 DEF Visiting
<1>11. CASE at = "dir"
  <2>1. /\ OwedBefore(Front(q), Due, Cmd("D", q)) \/ (line = <<>> /\ Stands(q, Due, Both))
        /\ at \in Visiting
    BY <1>11 DEF InStep, AtDir, Visiting
  <2>2. PICK l \in Seq(Tokens) : line = Append(l, Cmd("D", q)) /\ Owed(Front(q), Due, l)
    BY <1>2, <2>1 DEF OwedBefore
  <2>3. CASE l # <<>>
    <3>1. (refused' = refused /\ OwedBefore(Front(q), Due, Cmd("D", q))') \/ Lost'
      BY <1>2, <1>3, <1>5, <1>7, <1>11, <2>1, <2>2, <2>3
    <3> QED  BY <1>2, <1>3, <1>4, <1>11, <3>1 DEF InStep, AtDir
  <2>4. CASE l = <<>>
    <3>1. line = <<Cmd("D", q)>> /\ Stands(Front(q), Due, <<"OK">>)
      BY <2>2, <2>4, AppendToEmpty DEF Owed
    <3>2. line' = <<>> /\ Token.op = "D" /\ Token.path = q /\ phase = "line" /\ acks = <<"OK">>
      BY <1>2, <3>1 DEF Token, Cmd, Stands
    <3>3. CASE Refuse
      BY <1>2, <1>4, <1>11, <3>2, <3>3, RefusedLate, TwoReplies DEF Refuse
    <3>4. CASE EnterDir
      <4>1. phase' = "line" /\ refused' = refused /\ Srcs' = Due /\ acks' = Both
        BY <3>1, <3>2, <3>4, TwoReplies DEF EnterDir, Srcs, Stands, Both
      <4>2. place' = q
        BY <1>5, <2>1, <3>1, <3>2, <3>4 DEF EnterDir, Stands
      <4> QED  BY <1>2, <1>3, <1>4, <1>11, <3>2, <4>1, <4>2 DEF InStep, AtDir, Stands
    <3> QED  BY <3>2, <3>3, <3>4, WhatIsRead
  <2> QED  BY <2>3, <2>4
<1>12. CASE at = "file"
  <2>1. /\ OwedBefore(Front(q), Due, Cmd("C", q)) \/ (line = <<>> /\ Takes("data", q, Due \cup {q}, Both))
        /\ at \in Visiting
    BY <1>12 DEF InStep, AtFile, Visiting
  <2>2. PICK l \in Seq(Tokens) : line = Append(l, Cmd("C", q)) /\ Owed(Front(q), Due, l)
    BY <1>2, <2>1 DEF OwedBefore
  <2>3. CASE l # <<>>
    <3>1. (refused' = refused /\ OwedBefore(Front(q), Due, Cmd("C", q))') \/ Lost'
      BY <1>2, <1>3, <1>5, <1>7, <1>12, <2>1, <2>2, <2>3
    <3> QED  BY <1>2, <1>3, <1>4, <1>12, <3>1 DEF InStep, AtFile
  <2>4. CASE l = <<>>
    <3>1. line = <<Cmd("C", q)>> /\ Stands(Front(q), Due, <<"OK">>)
      BY <2>2, <2>4, AppendToEmpty DEF Owed
    <3>2. line' = <<>> /\ Token.op = "C" /\ Token.path = q /\ phase = "line" /\ acks = <<"OK">>
      BY <1>2, <3>1 DEF Token, Cmd, Stands
    <3>3. CASE Refuse
      BY <1>2, <1>4, <1>12, <3>2, <3>3, RefusedLate, TwoReplies DEF Refuse
    <3>4. CASE TakeFile
      <4>1. phase' = "data" /\ refused' = refused /\ Srcs' = Due /\ acks' = Both
        BY <3>1, <3>2, <3>4, TwoReplies DEF TakeFile, Srcs, Stands, Both
      <4>2. place' = Front(q) /\ file' = q
        BY <3>1, <3>2, <3>4 DEF TakeFile, Stands
      <4> QED  BY <1>2, <1>3, <1>4, <1>12, <3>2, <4>1, <4>2 DEF InStep, AtFile, Takes
    <3> QED  BY <3>2, <3>3, <3>4, WhatIsRead
  <2> QED  BY <2>3, <2>4
<1>13. CASE at = "copy"
  <2>1. line = <<Cmd("C", q)>> /\ Stands(Front(q), Due, <<>>)
    BY <1>2, <1>13 DEF InStep, AtCopy
  <2>2. line' = <<>> /\ Token.op = "C" /\ Token.path = q /\ phase = "line" /\ acks = <<>>
    BY <1>2, <2>1 DEF Token, Cmd, Stands
  <2>3. CASE Refuse
    BY <1>2, <1>4, <1>13, <2>2, <2>3, RefusedLate DEF Refuse, Ack
  <2>4. CASE TakeFile
    <3>1. phase' = "data" /\ refused' = refused /\ Srcs' = Due /\ acks' = <<"OK">>
      BY <2>1, <2>2, <2>4 DEF TakeFile, Ack, Srcs, Stands
    <3>2. place' = Front(q) /\ file' = q
      BY <2>1, <2>2, <2>4 DEF TakeFile, Stands
    <3> QED  BY <1>2, <1>3, <1>4, <1>13, <2>2, <3>1, <3>2 DEF InStep, AtCopy, Takes
  <2> QED  BY <2>2, <2>3, <2>4, WhatIsRead
<1>14. CASE at = "sent"
  <2>1. CASE line = <<Cmd("C", q), Content, Zero>> /\ Stands(Front(q), Due, <<>>)
    <3>1. /\ line' = <<Content, Zero>> /\ Token.op = "C" /\ Token.path = q /\ phase = "line"
          /\ acks = <<>>
      BY <1>2, <2>1 DEF Token, Cmd, Stands
    <3>2. CASE Refuse
      <4>1. phase' = "line" /\ refused' = TRUE
        BY <3>1, <3>2 DEF Refuse
      <4>2. line' # <<>> /\ Head(line').op = "data"
        BY <3>1 DEF Content, Cmd
      <4> QED  BY <4>1, <4>2 DEF Lost, Doomed
    <3>3. CASE TakeFile
      <4>1. phase' = "data" /\ refused' = refused /\ Srcs' = Due /\ acks' = <<"OK">>
        BY <2>1, <3>1, <3>3 DEF TakeFile, Ack, Srcs, Stands
      <4>2. place' = Front(q) /\ file' = q
        BY <2>1, <3>1, <3>3 DEF TakeFile, Stands
      <4> QED  BY <1>2, <1>3, <1>4, <1>14, <3>1, <4>1, <4>2 DEF InStep, AtSent, Takes
    <3> QED  BY <3>1, <3>2, <3>3, WhatIsRead
  <2>2. CASE line = <<Content, Zero>> /\ Takes("data", q, Due \cup {q}, <<"OK">>)
    <3>1. line' = <<Zero>> /\ Token.op = "data" /\ phase = "data"
      BY <1>2, <2>2 DEF Token, Content, Cmd, Takes
    <3>2. phase' = "tail" /\ UNCHANGED <<acks, file, place, arrived, refused>>
      BY <3>1, WhatIsRead DEF TakeData
    <3> QED  BY <1>2, <1>3, <1>4, <1>14, <2>2, <3>1, <3>2 DEF InStep, AtSent, Takes, Srcs
  <2>3. CASE line = <<Zero>> /\ Takes("tail", q, Due \cup {q}, <<"OK">>)
    <3>1. line' = <<>> /\ phase = "tail" /\ acks = <<"OK">> /\ place = Front(q) /\ file = q
      BY <1>2, <2>3 DEF Takes
    <3>2. TakeTail /\ phase' = "line" /\ UNCHANGED <<file, place>>
      BY <3>1, WhatIsRead DEF TakeTail
    <3>3. CASE Ack("OK") /\ arrived' = arrived \cup {[src |-> file, dst |-> Append(place, Last(file))]} /\ UNCHANGED refused
      <4>1. Srcs' = Due \cup {q}
        <5>1. Srcs' = Srcs \cup {file}
          BY <3>3, OneMoreFile DEF Srcs
        <5> QED  BY <2>3, <3>1, <5>1 DEF Takes
      <4>2. acks' = Both
        BY <3>1, <3>3, TwoReplies DEF Both
      <4> QED  BY <1>2, <1>3, <1>4, <1>14, <3>1, <3>2, <3>3, <4>1, <4>2 DEF InStep, AtSent, Stands
    <3>4. CASE Ack("ERR") /\ refused' = TRUE
      BY <1>2, <1>4, <1>14, <3>1, <3>2, <3>4, RefusedLate, TwoReplies
    <3> QED  BY <3>2, <3>3, <3>4 DEF TakeTail
  <2> QED  BY <1>2, <1>14, <2>1, <2>2, <2>3 DEF InStep, AtSent
<1>15. CASE at \in {"up", "done"}
  <2>1. unsent = <<>> /\ Quiet(unsent) /\ (at = "done" => dirLevel = 0)
    BY <1>4, <1>15, QuietTokens DEF InStep
  <2>2. PICK x \in Seq(Nat) : Len(x) = dirLevel /\ Owed(x, Sent, line)
    BY <1>15 DEF InStep, AtUp
  <2>3. CASE refused' = refused /\ Owed(x, Sent, line)'
    BY <1>2, <1>3, <1>4, <1>15, <2>1, <2>2, <2>3 DEF InStep, AtUp
  <2> QED  BY <1>3, <1>6, <1>15, <2>1, <2>2, <2>3
<1>16. CASE at = "left"
  <2>1. PICK x \in Seq(Nat), l \in Seq(Tokens) :
          Len(x) = dirLevel /\ line = Append(l, EndDir) /\ Owed(x, Sent, l)
    BY <1>2, <1>16 DEF InStep, AtLeft, OwedBefore
  <2>2. EndDir \in Tokens /\ dirLevel > 0
    BY <1>16, CmdType, EmptySeq DEF EndDir, Ops, InStep
  <2>3. CASE l # <<>>
    <3>1. (refused' = refused /\ OwedBefore(x, Sent, EndDir)') \/ Lost'
      BY <1>3, <1>7, <1>16, <2>1, <2>2, <2>3
    <3> QED  BY <1>2, <1>3, <1>4, <1>16, <2>1, <2>2, <3>1 DEF InStep, AtLeft
  <2>4. CASE l = <<>>
    <3>1. line = <<EndDir>> /\ Stands(x, Sent, <<"OK">>)
      BY <2>1, <2>4, AppendToEmpty DEF Owed
    <3>2. line' = <<>> /\ Token.op = "E" /\ phase = "line" /\ acks = <<"OK">> /\ place = x
      BY <1>2, <3>1 DEF Token, EndDir, Cmd, Stands
    <3>3. LeaveDir /\ place # <<>>
      BY <2>1, <2>2, <3>2, WhatIsRead, EmptySeq
    <3>4. phase' = "line" /\ refused' = refused /\ Srcs' = Sent /\ acks' = Both /\ place' = Front(x)
      BY <3>1, <3>2, <3>3, TwoReplies DEF LeaveDir, Srcs, Stands, Both
    <3>5. Len(place') = dirLevel - 1
      BY <2>1, <3>2, <3>3, <3>4, FrontProperties
    <3> QED  BY <1>2, <1>3, <1>4, <1>16, <2>2, <3>2, <3>4, <3>5 DEF InStep, AtLeft, Stands
  <2> QED  BY <2>3, <2>4
<1> QED
  BY <1>1, <1>8, <1>9, <1>10, <1>11, <1>12, <1>13, <1>14, <1>15, <1>16 DEF WalkTypeOK

-----------------------------------------------------------------------------
(* A step of the server.                                                   *)

LEMMA SendOne ==
  ASSUME WireTypeOK, unsent = <<>>, NEW cmd \in Tokens, Send(cmd)
  PROVE  line' = Append(line, cmd) /\ unsent' = <<>>
<1>1. line' = line \o <<cmd>> /\ unsent' = <<>>
  BY AppendToEmpty DEF Send
<1> QED  BY <1>1, AppendIsConcat DEF WireTypeOK

\* A reply is there only when the client has read everything, and it is OK.
LEMMA OwedReply ==
  ASSUME NEW x, NEW S, NEW l, Owed(x, S, l), Read
  PROVE  l = <<>> /\ Stands(x, S, <<"OK">>) /\ acks' = <<>> /\ Passed /\ ~Ended
<1>1. acks # <<>> \/ phase = "gone"
  BY DEF Read, CanRead
<1>2. l = <<>> /\ Stands(x, S, <<"OK">>)
  BY <1>1 DEF Owed, Stands, Takes
<1>3. acks = <<"OK">>
  BY <1>2 DEF Stands
<1>4. Passed /\ ~Ended /\ Tail(acks) = <<>>
  BY <1>3 DEF Passed, Ended
<1> QED  BY <1>2, <1>4 DEF Read

LEMMA BothRead ==
  ASSUME acks = Both, Read
  PROVE  acks' = <<"OK">> /\ Passed /\ ~Ended
<1>1. Passed /\ ~Ended /\ Tail(acks) = <<"OK">>
  BY DEF Passed, Ended, Both
<1> QED  BY <1>1 DEF Read

\* After a file could not be read the client waits for its data.
LEMMA CopyFailsLost ==
  ASSUME SourceTypeOK, InStep, CopyFails
  PROVE  Lost'
<1>1. /\ failed' = TRUE /\ UNCHANGED <<phase, place, file>> /\ GiveUp /\ unsent = <<>>
      /\ line = <<>> \/ line = <<Cmd("C", Head(todo))>>
      /\ phase \in {"line", "data"}
  BY DEF CopyFails, receiveVars, InStep, AtCopy, Stands, Takes
<1>2. Stopping'
  BY <1>1 DEF GiveUp, Stopping
<1>3. unsent' = <<>> /\ (line' = line \/ line' = line \o <<Cmd("err", <<>>)>>)
  BY <1>1, AppendToEmpty DEF GiveUp, Send
<1>4. line' # <<>> => Quiet(Tail(line')) /\ Head(line').op # "data"
  <2> DEFINE C == Cmd("C", Head(todo))
             e == Cmd("err", <<>>)
  <2>1. C.op = "C" /\ e.op = "err"
    BY DEF Cmd
  <2> HIDE DEF C, e
  <2>2. line' \in {<<>>, <<C>>, <<e>>, <<C, e>>}
    <3>1. <<>> \o <<e>> = <<e>> /\ <<C>> \o <<e>> = <<C, e>>
      BY AppendToOne
    <3>2. line = <<>> \/ line = <<C>>
      BY <1>1 DEF C
    <3>3. line' = line \/ line' = line \o <<e>>
      BY <1>3 DEF e
    <3> QED  BY <3>1, <3>2, <3>3
  <2>3. Tail(<<C, e>>) = <<e>> /\ Head(<<C, e>>) = C /\ Quiet(<<e>>)
    BY <2>1 DEF Quiet
  <2>4. \A c : Tail(<<c>>) = <<>> /\ Head(<<c>>) = c
    OBVIOUS
  <2> QED  BY <2>1, <2>2, <2>3, <2>4, QuietTokens
<1> QED  BY <1>1, <1>2, <1>3, <1>4, QuietTokens DEF Lost, Harmless, Quiet

LEMMA ServerInStep ==
  ASSUME SourceTypeOK, OneStepTree, Course, InStep, Source
  PROVE  InStep' \/ Lost'
<1> DEFINE q == Head(todo)
<1>1. /\ WalkTypeOK /\ WireTypeOK /\ ClientTypeOK /\ Inside \in Seq(Nat)
      /\ UNCHANGED <<tree, deep, dot, phase, file, place, arrived, refused>>
  BY Parts, InsideType DEF Source, Climb, ClimbReply, Entry, DirReply, FileReply, Copy, CopyFails,
     SentReply, Up, LeftReply, Read, receiveVars
<1>2. ~refused /\ ~failed /\ code = 0 /\ (at \notin {"climb", "entry"} => unsent = <<>>)
  BY DEF InStep
<1>3. ASSUME NEW x, NEW S, NEW l, UNCHANGED acks
      PROVE  Owed(x, S, l) => Owed(x, S, l)'
  BY <1>1, <1>3 DEF Owed, Stands, Takes, Srcs
<1>4. Srcs' = Srcs
  BY <1>1 DEF Srcs
<1>5. EndDir \in Tokens /\ Cmd("E", <<>>) = EndDir
  BY CmdType, EmptySeq DEF EndDir, Ops
<1>6. ASSUME at \in Visiting \cup {"climb"}
      PROVE  /\ todo # <<>> /\ q \in DOMAIN tree /\ q \in Seq(Nat) /\ q # <<>> /\ Front(q) \in Seq(Nat)
             /\ Cmd("D", q) \in Tokens /\ Cmd("C", q) \in Tokens
             /\ at # "climb" => \E k \in 0..Len(Visits) : Behind(k)
  <2>1. todo # <<>>
    BY <1>1, <1>6 DEF Visiting, WalkTypeOK
  <2> QED  BY <1>1, <1>6, <2>1, HeadPath, CmdType DEF Ops, Course, Walking
<1>7. CASE Climb
  <2>1. at = "walk" /\ todo # <<>> /\ UNCHANGED <<todo, here, dirLevel, failed, code, line, acks>>
    BY <1>7 DEF Climb
  <2>2. deep /\ \E k \in 0..Len(Visits) : Behind(k)
    BY <2>1 DEF Course, Walking
  <2>3. HasPrefix(q, here) => Inside = Front(q)
    BY <1>1, <2>1, <2>2, OneStep
  <2>4. unsent = <<>> /\ Owed(Inside, Due, line) /\ Inside' = Inside /\ Due' = Due
    BY <1>1, <1>2, <2>1, SameVisit DEF InStep, AtWalk
  <2>5. CASE HasPrefix(q, here)
    <3>1. at' = "entry" /\ unsent' = <<>>
      BY <1>7, <2>4, <2>5 DEF Climb
    <3>2. Owed(Front(q), Due, line)'
      BY <1>1, <2>1, <2>3, <2>4, <2>5 DEF Owed, Stands, Takes, Srcs
    <3> QED  BY <1>1, <1>2, <2>1, <3>1, <3>2 DEF InStep, AtEntry
  <2>6. CASE ~HasPrefix(q, here)
    <3>1. at' = "climb" /\ unsent' = <<EndDir>>
      BY <1>5, <1>7, <2>4, <2>6, AppendToEmpty DEF Climb
    <3>2. Owed(Inside, Due, line)'
      BY <1>1, <2>1, <2>4 DEF Owed, Stands, Takes, Srcs
    <3> QED  BY <1>1, <1>2, <2>1, <3>1, <3>2 DEF InStep, AtClimb
  <2> QED  BY <2>5, <2>6
<1>8. CASE ClimbReply
  <2>1. at = "climb" /\ Read /\ UNCHANGED <<todo, here, unsent, failed, code, line>>
    BY <1>8 DEF ClimbReply
  <2>2. unsent = <<EndDir>> /\ Owed(Inside, Due, line) /\ Inside' = Inside /\ Due' = Due
    BY <1>1, <2>1, SameVisit DEF InStep, AtClimb
  <2>3. line = <<>> /\ Stands(Inside, Due, <<"OK">>) /\ acks' = <<>> /\ Passed
    BY <2>1, <2>2, OwedReply
  <2>4. at' = "entry" /\ Inside # <<>> /\ Front(Inside) = Front(q)
    BY <1>8, <2>1, <2>3 DEF ClimbReply, Course
  <2>5. Owed(Front(q), Due, <<EndDir>>)'
    BY <1>1, <1>4, <2>1, <2>2, <2>3, <2>4 DEF Owed, Stands
  <2> QED  BY <1>1, <1>2, <2>1, <2>2, <2>3, <2>4, <2>5 DEF InStep, AtEntry
<1>9. CASE Entry
  <2> DEFINE cmd == IF deep /\ tree[q] = "dir" THEN Cmd("D", q) ELSE Cmd("C", q)
  <2>1. at = "entry" /\ UNCHANGED <<todo, here, dirLevel, failed, code, acks>> /\ Send(cmd)
        /\ at' = IF deep /\ tree[q] = "dir" THEN "dir" ELSE "file"
    BY <1>9 DEF Entry
  <2>2. cmd \in Tokens
    BY <1>6, <2>1 DEF Visiting
  <2>3. Due' = Due /\ q' = q
    BY <1>1, <2>1, SameVisit
  <2>4. PICK x, S, c : x = Front(q) /\ S = Due /\ c = cmd
    OBVIOUS
  <2>5. unsent' = <<>> /\ OwedBefore(x, S, c)'
    <3> HIDE DEF cmd
    <3>1. CASE unsent = <<>> /\ Owed(x, S, line)
      <4>1. line' = Append(line, c) /\ unsent' = <<>>
        BY <1>1, <2>1, <2>2, <2>4, <3>1, SendOne
      <4>2. PICK l \in Seq(Tokens) : l = line
        BY <1>1 DEF WireTypeOK
      <4>3. Owed(x, S, l)'
        BY <1>3, <2>1, <3>1, <4>2
      <4> QED  BY <4>1, <4>2, <4>3 DEF OwedBefore
    <3>2. CASE unsent = <<EndDir>> /\ line = <<>> /\ Owed(x, S, <<EndDir>>)
      <4>1. line' = Append(<<EndDir>>, c) /\ unsent' = <<>>
        <5>1. <<EndDir>> \in Seq(Tokens)
          BY <1>5
        <5>2. Append(<<EndDir>>, cmd) \in Seq(Tokens)
          BY <2>2, <5>1, AppendProperties
        <5> QED  BY <2>1, <2>4, <3>2, <5>2, ConcatEmptySeq DEF Send
      <4>2. Owed(x, S, <<EndDir>>)' /\ <<EndDir>> \in Seq(Tokens)
        BY <1>3, <1>5, <2>1, <3>2
      <4> QED  BY <4>1, <4>2 DEF OwedBefore
    <3> QED  BY <2>1, <2>4, <3>1, <3>2 DEF InStep, AtEntry
  <2>6. CASE deep /\ tree[q] = "dir"
    <3>1. c = Cmd("D", q)'
      BY <2>3, <2>4, <2>6
    <3>2. AtDir'
      BY <2>3, <2>4, <2>5, <3>1 DEF AtDir, OwedBefore, Owed, Stands, Takes
    <3> QED  BY <1>1, <1>2, <2>1, <2>5, <2>6, <3>2 DEF InStep
  <2>7. CASE ~(deep /\ tree[q] = "dir")
    <3>1. c = Cmd("C", q)'
      BY <2>3, <2>4, <2>7
    <3>2. AtFile'
      BY <2>3, <2>4, <2>5, <3>1 DEF AtFile, OwedBefore, Owed, Stands, Takes
    <3> QED  BY <1>1, <1>2, <2>1, <2>5, <2>7, <3>2 DEF InStep
  <2> QED  BY <2>6, <2>7
<1>10. CASE DirReply
  <2>1. at = "dir" /\ Read /\ UNCHANGED <<unsent, failed, code, line>> /\ unsent = <<>>
    BY <1>2, <1>10 DEF DirReply
  <2>2. /\ acks' \in {<<>>, <<"OK">>} /\ Passed
        /\ acks' = <<>> => line = <<Cmd("D", q)>> /\ Stands(Front(q), Due, <<"OK">>)
        /\ acks' = <<"OK">> => line = <<>> /\ Stands(q, Due, Both)
    <3>1. CASE OwedBefore(Front(q), Due, Cmd("D", q))
      <4>1. PICK l \in Seq(Tokens) : line = Append(l, Cmd("D", q)) /\ Owed(Front(q), Due, l)
        BY <3>1 DEF OwedBefore
      <4>2. l = <<>> /\ Stands(Front(q), Due, <<"OK">>) /\ acks' = <<>> /\ Passed
        BY <2>1, <4>1, OwedReply
      <4> QED  BY <4>1, <4>2, AppendToEmpty
    <3>2. CASE line = <<>> /\ Stands(q, Due, Both)
      <4>1. acks' = <<"OK">> /\ Passed
        BY <2>1, <3>2, BothRead DEF Stands
      <4> QED  BY <3>2, <4>1
    <3> QED  BY <2>1, <3>1, <3>2 DEF InStep, AtDir
  <2>3. at' = "walk" /\ here' = q /\ todo' = Tail(todo)
    BY <1>10, <2>2 DEF DirReply
  <2>4. Inside' = q /\ Due' = Due /\ q # <<>>
    <3>1. Around(q) = q /\ q \notin Sent
      BY <2>1 DEF Course, Around
    <3>2. Inside' = q /\ Due' = Due \cup ({q} \cap Sent)
      BY <1>1, <1>6, <2>1, <2>3, <3>1, EndOfVisit DEF Visiting
    <3> QED  BY <1>6, <2>1, <3>1, <3>2 DEF Visiting
  <2>5. Owed(Inside, Due, line)'
    BY <1>1, <1>4, <2>1, <2>2, <2>4 DEF Owed, Stands
  <2> QED  BY <1>1, <1>2, <2>1, <2>3, <2>5 DEF InStep, AtWalk
<1>11. CASE FileReply
  <2>1. at = "file" /\ Read /\ UNCHANGED <<todo, here, dirLevel, failed, code>> /\ unsent = <<>>
    BY <1>2, <1>11 DEF FileReply
  <2>2. /\ acks' \in {<<>>, <<"OK">>} /\ Passed
        /\ acks' = <<>> => line = <<Cmd("C", q)>> /\ Stands(Front(q), Due, <<"OK">>)
        /\ acks' = <<"OK">> => line = <<>> /\ Takes("data", q, Due \cup {q}, Both)
    <3>1. CASE OwedBefore(Front(q), Due, Cmd("C", q))
      <4>1. PICK l \in Seq(Tokens) : line = Append(l, Cmd("C", q)) /\ Owed(Front(q), Due, l)
        BY <3>1 DEF OwedBefore
      <4>2. l = <<>> /\ Stands(Front(q), Due, <<"OK">>) /\ acks' = <<>> /\ Passed
        BY <2>1, <4>1, OwedReply
      <4> QED  BY <4>1, <4>2, AppendToEmpty
    <3>2. CASE line = <<>> /\ Takes("data", q, Due \cup {q}, Both)
      <4>1. acks' = <<"OK">> /\ Passed
        BY <2>1, <3>2, BothRead DEF Takes
      <4> QED  BY <3>2, <4>1
    <3> QED  BY <2>1, <3>1, <3>2 DEF InStep, AtFile
  <2>3. at' = "copy" /\ UNCHANGED <<line, unsent>> /\ Due' = Due
    BY <1>1, <1>11, <2>1, <2>2, SameVisit DEF FileReply
  <2>4. AtCopy'
    BY <1>1, <1>4, <2>1, <2>2, <2>3 DEF AtCopy, Stands, Takes
  <2> QED  BY <1>1, <1>2, <2>1, <2>3, <2>4 DEF InStep
<1>12. CASE Copy
  <2>1. /\ at = "copy" /\ at' = "sent" /\ unsent = <<>> /\ unsent' = <<>>
        /\ line' = line \o <<>> \o <<Content, Zero>> /\ UNCHANGED <<todo, here, dirLevel, failed, code, acks>>
    BY <1>2, <1>12 DEF Copy, Content, Zero
  <2>2. Due' = Due
    BY <1>1, <2>1, SameVisit
  <2>3. CASE line = <<Cmd("C", q)>> /\ Stands(Front(q), Due, <<>>)
    <3>1. line' = <<Cmd("C", q), Content, Zero>>
      BY <2>1, <2>3, ConcatToOne
    <3>2. AtSent'
      BY <1>1, <1>4, <2>1, <2>2, <2>3, <3>1 DEF AtSent, Stands
    <3> QED  BY <1>1, <1>2, <2>1, <3>2 DEF InStep
  <2>4. CASE line = <<>> /\ Takes("data", q, Due \cup {q}, <<"OK">>)
    <3>1. line' = <<Content, Zero>>
      BY <2>1, <2>4
    <3>2. AtSent'
      BY <1>1, <1>4, <2>1, <2>2, <2>4, <3>1 DEF AtSent, Takes
    <3> QED  BY <1>1, <1>2, <2>1, <3>2 DEF InStep
  <2> QED  BY <2>1, <2>3, <2>4 DEF InStep, AtCopy
<1>13. CASE CopyFails
  BY <1>13, CopyFailsLost
<1>14. CASE SentReply
  <2>1. at = "sent" /\ Read /\ UNCHANGED <<dirLevel, failed, code>> /\ unsent = <<>>
    BY <1>2, <1>14 DEF SentReply
  <2>2. /\ acks \in {<<"OK">>, Both}
        /\ acks' = <<>> => \/ line = <<Content, Zero>> /\ Takes("data", q, Due \cup {q}, <<"OK">>)
                           \/ line = <<Zero>> /\ Takes("tail", q, Due \cup {q}, <<"OK">>)
        /\ acks' = <<"OK">> => line = <<>> /\ Stands(Front(q), Due \cup {q}, Both)
        /\ acks' \in {<<>>, <<"OK">>} /\ ~Ended
    <3>1. acks # <<>> \/ phase = "gone"
      BY <2>1 DEF Read, CanRead
    <3>2. \/ line = <<Content, Zero>> /\ Takes("data", q, Due \cup {q}, <<"OK">>)
          \/ line = <<Zero>> /\ Takes("tail", q, Due \cup {q}, <<"OK">>)
          \/ line = <<>> /\ Stands(Front(q), Due \cup {q}, Both)
      BY <2>1, <3>1 DEF InStep, AtSent, Stands
    <3>3. CASE acks = <<"OK">>
      <4>1. ~Ended /\ Passed /\ Tail(acks) = <<>>
        BY <3>3 DEF Ended, Passed
      <4>2. acks' = <<>>
        BY <2>1, <4>1 DEF Read
      <4>3. acks # Both /\ <<>> # <<"OK">>
        BY <3>3 DEF Both
      <4>4. \/ line = <<Content, Zero>> /\ Takes("data", q, Due \cup {q}, <<"OK">>)
            \/ line = <<Zero>> /\ Takes("tail", q, Due \cup {q}, <<"OK">>)
        BY <3>2, <4>3 DEF Stands
      <4>5. acks' # <<"OK">> /\ acks' \in {<<>>, <<"OK">>}
        BY <4>2, <4>3
      <4> QED  BY <3>3, <4>1, <4>4, <4>5
    <3>4. CASE acks = Both
      <4>1. acks' = <<"OK">> /\ ~Ended /\ acks # <<"OK">>
        BY <2>1, <3>4, BothRead DEF Both
      <4> QED  BY <3>2, <3>4, <4>1 DEF Takes
    <3> QED  BY <3>2, <3>3, <3>4 DEF Takes, Stands
  <2>3. at' = "walk" /\ here' = Front(q) /\ todo' = Tail(todo) /\ UNCHANGED <<line, unsent>>
    BY <1>14, <2>2 DEF SentReply
  <2>4. Inside' = Front(q) /\ Due' = Due \cup {q}
    <3>1. Around(q) = Front(q) /\ q \in Sent
      BY <2>1 DEF Course, Around
    <3>2. Inside' = Front(q) /\ Due' = Due \cup ({q} \cap Sent)
      BY <1>1, <1>6, <2>1, <2>3, <3>1, EndOfVisit DEF Visiting
    <3> QED  BY <3>1, <3>2
  <2>5. Owed(Inside, Due, line)'
    <3>1. CASE acks' = <<>>
      <4>1. CASE line = <<Content, Zero>> /\ Takes("data", q, Due \cup {q}, <<"OK">>)
        BY <1>1, <1>4, <2>3, <2>4, <3>1, <4>1 DEF Owed, Takes
      <4>2. CASE line = <<Zero>> /\ Takes("tail", q, Due \cup {q}, <<"OK">>)
        BY <1>1, <1>4, <2>3, <2>4, <3>1, <4>2 DEF Owed, Takes
      <4> QED  BY <2>2, <3>1, <4>1, <4>2
    <3>2. CASE acks' = <<"OK">>
      BY <1>1, <1>4, <2>2, <2>3, <2>4, <3>2 DEF Owed, Stands
    <3> QED  BY <2>2, <3>1, <3>2
  <2> QED  BY <1>1, <1>2, <2>1, <2>3, <2>5 DEF InStep, AtWalk
<1>15. CASE Up
  <2>1. at \in {"walk", "up"} /\ unsent = <<>> /\ UNCHANGED <<tree, deep, todo, here, dirLevel, failed, code, acks>>
    BY <1>2, <1>15 DEF Up
  <2>2. PICK x \in Seq(Nat), l \in Seq(Tokens) : Len(x) = dirLevel /\ l = line /\ Owed(x, Sent, l)
    <3>1. CASE at = "up"
      BY <1>1, <3>1 DEF InStep, AtUp, WireTypeOK
    <3>2. CASE at = "walk"
      <4>1. todo = <<>> /\ dirLevel = Len(Inside) /\ Owed(Inside, Due, line)
        BY <1>15, <3>2 DEF Up, InStep, AtWalk, Course
      <4>2. Due = Sent
        BY <4>1 DEF Due, ToSet
      <4> QED  BY <1>1, <4>1, <4>2 DEF WireTypeOK
    <3> QED  BY <2>1, <3>1, <3>2
  <2>3. Owed(x, Sent, l)' /\ Sent' = Sent
    <3>1. PICK S : S = Sent
      OBVIOUS
    <3>2. Owed(x, S, l)'
      BY <1>3, <2>1, <2>2, <3>1
    <3>3. Sent' = Sent
      BY <1>1 DEF Sent
    <3> QED  BY <3>1, <3>2, <3>3 DEF Owed, Stands, Takes
  <2>4. CASE dirLevel > 0
    <3>1. at' = "left" /\ Send(EndDir)
      BY <1>5, <1>15, <2>4 DEF Up
    <3>2. line' = Append(l, EndDir) /\ unsent' = <<>>
      BY <1>1, <1>5, <2>1, <2>2, <3>1, SendOne
    <3>3. AtLeft' /\ dirLevel' > 0
      BY <2>1, <2>2, <2>3, <2>4, <3>2 DEF AtLeft, OwedBefore
    <3> QED  BY <1>1, <1>2, <2>1, <3>1, <3>2, <3>3 DEF InStep
  <2>5. CASE ~(dirLevel > 0)
    <3>1. at' = "done" /\ UNCHANGED <<line, unsent>>
      BY <1>15, <2>5 DEF Up
    <3>2. dirLevel = 0
      BY <2>2, <2>5, LenProperties
    <3>3. AtUp'
      BY <2>1, <2>2, <2>3, <3>1 DEF AtUp, Owed, Stands, Takes
    <3> QED  BY <1>1, <1>2, <2>1, <3>1, <3>2, <3>3 DEF InStep
  <2> QED  BY <2>4, <2>5
<1>16. CASE LeftReply
  <2>1. at = "left" /\ Read /\ UNCHANGED <<todo, here, unsent, failed, line>> /\ unsent = <<>> /\ dirLevel > 0
    BY <1>2, <1>16 DEF LeftReply, InStep
  <2>2. Sent' = Sent
    BY <1>1 DEF Sent
  <2>3. CASE line = <<>> /\ Len(place) = dirLevel - 1 /\ Stands(place, Sent, Both)
    <3>1. acks' = <<"OK">> /\ Passed
      BY <2>1, <2>3, BothRead DEF Stands
    <3>2. at' = "up" /\ dirLevel' = dirLevel - 1 /\ code' = code
      BY <1>16, <3>1 DEF LeftReply
    <3>3. place \in Seq(Nat)
      BY <1>1 DEF ClientTypeOK
    <3>4. AtUp'
      BY <1>1, <1>4, <2>1, <2>2, <2>3, <3>1, <3>2, <3>3 DEF AtUp, Owed, Stands
    <3> QED  BY <1>1, <1>2, <2>1, <3>2, <3>4 DEF InStep
  <2>4. CASE \E x \in Seq(Nat) : Len(x) = dirLevel /\ OwedBefore(x, Sent, EndDir)
    <3>1. PICK x \in Seq(Nat), l \in Seq(Tokens) :
            Len(x) = dirLevel /\ line = Append(l, EndDir) /\ Owed(x, Sent, l)
      BY <2>4 DEF OwedBefore
    <3>2. l = <<>> /\ Stands(x, Sent, <<"OK">>) /\ acks' = <<>> /\ Passed
      BY <2>1, <3>1, OwedReply
    <3>3. line = <<EndDir>> /\ x # <<>> /\ place = x
      BY <2>1, <3>1, <3>2, AppendToEmpty, EmptySeq DEF Stands
    <3>4. Front(x) \in Seq(Nat) /\ Len(Front(x)) = dirLevel - 1
      BY <3>1, <3>3, FrontProperties
    <3>5. at' = "up" /\ dirLevel' = dirLevel - 1 /\ code' = code
      BY <1>16, <3>2 DEF LeftReply
    <3>6. Owed(Front(x), Sent, line)'
      BY <1>1, <1>4, <2>1, <2>2, <3>2, <3>3 DEF Owed, Stands
    <3>7. AtUp'
      BY <3>4, <3>5, <3>6 DEF AtUp
    <3> QED  BY <1>1, <1>2, <2>1, <3>5, <3>7 DEF InStep
  <2> QED  BY <2>1, <2>3, <2>4 DEF InStep, AtLeft
<1> QED
  BY <1>7, <1>8, <1>9, <1>10, <1>11, <1>12, <1>13, <1>14, <1>15, <1>16 DEF Source

-----------------------------------------------------------------------------
(* Once something was refused or could not be read.                        *)

LEMMA SendHarmless ==
  ASSUME WireTypeOK, Harmless, NEW cmd \in Tokens, cmd.op # "data", Send(cmd),
         UNCHANGED <<phase, place, file>>
  PROVE  Harmless'
<1> DEFINE t == Append(unsent, cmd)
<1>1. line' = line \o t /\ unsent' = <<>>
  BY DEF Send
<1>2. t \in Seq(Tokens) /\ Len(t) \in Nat /\ t # <<>> /\ Quiet(t)
  <2>1. /\ t \in Seq(Tokens) /\ t # <<>> /\ Len(t) = Len(unsent) + 1 /\ t[Len(unsent) + 1] = cmd
        /\ \A i \in 1..Len(unsent) : t[i] = unsent[i]
    BY AppendProperties DEF WireTypeOK
  <2>2. Len(unsent) \in Nat /\ Len(t) \in Nat
    BY <2>1, LenProperties DEF WireTypeOK
  <2> HIDE DEF t
  <2>3. ASSUME NEW i \in 1..Len(t) PROVE t[i].op # "data"
    <3>1. CASE i = Len(unsent) + 1
      BY <2>1, <3>1
    <3>2. CASE i # Len(unsent) + 1
      <4>1. i \in 1..Len(unsent)
        BY <2>1, <2>2, <3>2
      <4> QED  BY <2>1, <4>1 DEF Harmless, Quiet
    <3> QED  BY <3>1, <3>2
  <2> QED  BY <2>1, <2>2, <2>3 DEF Quiet
<1> HIDE DEF t
<1>3. /\ line \in Seq(Tokens) /\ line' \in Seq(Tokens) /\ Len(line) \in Nat /\ Len(line') = Len(line) + Len(t)
      /\ \A i \in 1..(Len(line) + Len(t)) : line'[i] = IF i <= Len(line) THEN line[i] ELSE t[i - Len(line)]
  BY <1>1, <1>2, ConcatProperties, LenProperties DEF WireTypeOK
<1>4. line' # <<>> /\ Head(line') = line'[1] /\ Len(t) \in Nat \ {0}
  <2>1. Len(t) \in Nat \ {0}
    BY <1>2, EmptySeq
  <2>2. Len(line') # 0
    BY <1>3, <2>1
  <2> QED  BY <1>3, <2>1, <2>2, EmptySeq
<1>5. ASSUME NEW i \in 2..Len(line') PROVE line'[i].op # "data"
  <2>1. i \in 1..(Len(line) + Len(t))
    BY <1>2, <1>3
  <2>2. CASE i <= Len(line)
    <3>1. line # <<>> /\ i - 1 \in 1..Len(Tail(line)) /\ Tail(line)[i - 1] = line[i - 1 + 1] /\ i - 1 + 1 = i
      <4>1. Len(line) # 0
        BY <1>3, <2>2
      <4>2. line # <<>>
        BY <4>1, EmptySeq
      <4>3. Len(Tail(line)) = Len(line) - 1 /\ \A j \in 1..Len(Tail(line)) : Tail(line)[j] = line[j + 1]
        BY <1>3, <4>2, HeadTailProperties
      <4>4. i - 1 \in 1..(Len(line) - 1) /\ i - 1 + 1 = i
        BY <1>3, <2>2
      <4> QED  BY <4>2, <4>3, <4>4
    <3>2. Quiet(Tail(line))
      BY <3>1 DEF Harmless
    <3>3. line'[i] = line[i]
      BY <1>3, <2>1, <2>2
    <3> QED  BY <3>1, <3>2, <3>3 DEF Quiet
  <2>3. CASE ~(i <= Len(line))
    <3>1. i - Len(line) \in 1..Len(t) /\ line'[i] = t[i - Len(line)]
      BY <1>2, <1>3, <2>1, <2>3
    <3> QED  BY <1>2, <3>1 DEF Quiet
  <2> QED  BY <2>2, <2>3
<1>6. Quiet(Tail(line'))
  <2>1. Len(Tail(line')) = Len(line') - 1 /\ \A i \in 1..Len(Tail(line')) : Tail(line')[i] = line'[i + 1]
    BY <1>3, <1>4, HeadTailProperties
  <2>2. Len(line') \in Nat
    BY <1>2, <1>3
  <2>3. \A i \in 1..(Len(line') - 1) : i + 1 \in 2..Len(line')
    BY <2>2
  <2> QED  BY <1>5, <2>1, <2>3 DEF Quiet
<1>7. phase = "data" /\ Head(line').op = "data" => place = Front(file)
  <2>1. CASE line = <<>>
    <3>1. Len(line) = 0 /\ 1 \in 1..Len(t) /\ ~(1 <= Len(line)) /\ 1 - Len(line) = 1 /\ 1 \in 1..(Len(line) + Len(t))
      BY <1>4, <2>1, EmptySeq
    <3>2. line'[1] = t[1]
      BY <1>3, <3>1
    <3> QED  BY <1>2, <1>4, <3>1, <3>2 DEF Quiet
  <2>2. CASE line # <<>>
    <3>1. Len(line) \in Nat \ {0} /\ Head(line) = line[1]
      BY <1>3, <2>2, EmptySeq
    <3>2. 1 <= Len(line) /\ 1 \in 1..(Len(line) + Len(t))
      BY <1>2, <3>1
    <3>3. line'[1] = line[1]
      BY <1>3, <3>2
    <3> QED  BY <1>4, <2>2, <3>1, <3>3 DEF Harmless
  <2> QED  BY <2>1, <2>2
<1> QED  BY <1>1, <1>6, <1>7, QuietTokens DEF Harmless, Quiet

LEMMA SameHarmless ==
  ASSUME Harmless, UNCHANGED <<line, unsent, phase, place, file>>
  PROVE  Harmless'
BY DEF Harmless, Quiet

\* The server only adds to the line.
LEMMA LineGrows ==
  ASSUME WireTypeOK, WalkTypeOK, Source, line # <<>>
  PROVE  line' # <<>> /\ Head(line') = Head(line)
<1>1. ASSUME NEW s \in Seq(Tokens), line' = line \o s
      PROVE  line' # <<>> /\ Head(line') = Head(line)
  <2>1. line \in Seq(Tokens) /\ Len(line) \in Nat \ {0} /\ Head(line) = line[1]
    BY EmptySeq DEF WireTypeOK
  <2>2. /\ line' \in Seq(Tokens) /\ Len(line') = Len(line) + Len(s) /\ Len(s) \in Nat
        /\ \A i \in 1..(Len(line) + Len(s)) : line'[i] = IF i <= Len(line) THEN line[i] ELSE s[i - Len(line)]
    BY <1>1, <2>1, ConcatProperties, LenProperties
  <2>3. 1 \in 1..(Len(line) + Len(s)) /\ 1 <= Len(line) /\ Len(line') # 0
    BY <2>1, <2>2
  <2>4. line'[1] = line[1] /\ line' # <<>>
    BY <2>2, <2>3, EmptySeq
  <2> QED  BY <2>1, <2>4
<1>2. ASSUME NEW cmd \in Tokens, Send(cmd)
      PROVE  line' # <<>> /\ Head(line') = Head(line)
  <2>1. Append(unsent, cmd) \in Seq(Tokens)
    BY AppendProperties DEF WireTypeOK
  <2> QED  BY <1>1, <1>2, <2>1 DEF Send
<1>3. EndDir \in Tokens /\ Cmd("err", <<>>) \in Tokens /\ Content \in Tokens /\ Zero \in Tokens
  BY CmdType, EmptySeq DEF EndDir, Content, Zero, Ops
<1>4. ASSUME GiveUp
      PROVE  line' # <<>> /\ Head(line') = Head(line)
  BY <1>2, <1>3, <1>4 DEF GiveUp
<1>5. CASE Entry
  <2>1. Cmd("D", Head(todo)) \in Tokens /\ Cmd("C", Head(todo)) \in Tokens
    <3>1. todo # <<>>
      BY <1>5 DEF Entry, WalkTypeOK
    <3> QED  BY <3>1, HeadPath, CmdType DEF Ops
  <2> QED  BY <1>2, <1>5, <2>1 DEF Entry
<1>6. CASE Copy
  <2>1. <<Content, Zero>> \in Seq(Tokens)
    BY <1>3
  <2>2. unsent \o <<Content, Zero>> \in Seq(Tokens)
    BY <2>1, ConcatProperties DEF WireTypeOK
  <2>3. line' = line \o (unsent \o <<Content, Zero>>)
    BY <1>6, <2>1, ConcatAssociative DEF Copy, Content, Zero, WireTypeOK
  <2> QED  BY <1>1, <2>2, <2>3
<1>7. CASE Up
  BY <1>2, <1>3, <1>7 DEF Up, EndDir
<1> QED
  BY <1>4, <1>5, <1>6, <1>7 DEF Source, Climb, ClimbReply, DirReply, FileReply, CopyFails, SentReply, LeftReply

LEMMA LostServer ==
  ASSUME SourceTypeOK, Lost, Source
  PROVE  Lost'
<1>1. /\ WalkTypeOK /\ WireTypeOK
      /\ UNCHANGED <<tree, deep, dot, phase, file, place, arrived, refused>>
  BY Parts DEF Source, Climb, ClimbReply, Entry, DirReply, FileReply, Copy, CopyFails,
     SentReply, Up, LeftReply, Read, receiveVars
<1>2. (refused \/ failed)' /\ (phase = "tail" => place = Front(file))'
  <2>1. failed' = failed \/ failed' = TRUE
    BY DEF Source, Climb, ClimbReply, Entry, DirReply, FileReply, Copy, CopyFails, SentReply, Up, LeftReply
  <2> QED  BY <1>1, <2>1 DEF Lost
<1>3. /\ EndDir \in Tokens /\ EndDir.op = "E" /\ Cmd("E", <<>>) = EndDir
      /\ Cmd("err", <<>>) \in Tokens /\ Cmd("err", <<>>).op = "err"
  <2>1. EndDir.op = "E" /\ Cmd("err", <<>>).op = "err"
    BY DEF EndDir, Cmd
  <2> QED  BY <2>1, CmdType, EmptySeq DEF EndDir, Ops
<1>4. ASSUME Harmless, GiveUp
      PROVE  Lost'
  <2>1. Stopping'
    BY <1>4 DEF GiveUp, Stopping
  <2>2. Harmless'
    BY <1>1, <1>3, <1>4, SendHarmless, SameHarmless DEF GiveUp
  <2> QED  BY <1>2, <2>1, <2>2 DEF Lost
<1>5. CASE phase = "gone"
  BY <1>1, <1>2, <1>5 DEF Lost
<1>6. CASE Doomed
  <2>1. phase = "line" /\ line # <<>> /\ Head(line).op = "data"
    BY <1>6 DEF Doomed
  <2>2. Doomed'
    BY <1>1, <2>1, LineGrows DEF Doomed
  <2> QED  BY <1>2, <2>2 DEF Lost
<1>7. CASE Late
  <2>1. phase = "line" /\ line = <<>> /\ unsent = <<>> /\ Harmless
    BY <1>7, QuietTokens DEF Late, Harmless
  <2>2. ASSUME acks = <<"OK", "ERR">>, Read
        PROVE  acks' = <<"ERR">> /\ Passed /\ ~Ended /\ acks' # <<>> /\ Head(acks') = "ERR"
    <3>1. Passed /\ ~Ended /\ Tail(acks) = <<"ERR">>
      BY <2>2 DEF Passed, Ended
    <3>2. acks' = <<"ERR">>
      BY <2>2, <3>1 DEF Read
    <3> QED  BY <3>1, <3>2
  <2>3. CASE at \in {"dir", "sent"} /\ acks = <<"OK", "ERR">>
    <3>1. DirReply \/ SentReply
      BY <2>3 DEF Source, Climb, ClimbReply, Entry, FileReply, Copy, CopyFails, Up, LeftReply
    <3>2. acks' # <<>> /\ Head(acks') = "ERR" /\ Passed /\ ~Ended
      BY <2>2, <2>3, <3>1 DEF DirReply, SentReply
    <3>3. at' = "walk" /\ UNCHANGED <<line, unsent>>
      BY <3>1, <3>2 DEF DirReply, SentReply
    <3>4. Harmless' /\ Warned'
      BY <1>1, <2>1, <3>2, <3>3, SameHarmless DEF Warned
    <3> QED  BY <1>2, <3>4 DEF Lost
  <2>4. CASE at = "file" /\ acks = <<"OK", "ERR">>
    <3>1. FileReply
      BY <2>4 DEF Source, Climb, ClimbReply, Entry, DirReply, SentReply, Copy, CopyFails, Up, LeftReply
    <3>2. acks' = <<"ERR">> /\ at' = "copy" /\ UNCHANGED <<line, unsent>>
      BY <2>2, <2>4, <3>1 DEF FileReply
    <3>3. Late'
      BY <1>1, <2>1, <3>2 DEF Late
    <3> QED  BY <1>2, <3>3 DEF Lost
  <2>5. CASE at = "copy" /\ acks = <<"ERR">>
    <3>1. Copy \/ CopyFails
      BY <2>5 DEF Source, Climb, ClimbReply, Entry, DirReply, SentReply, FileReply, Up, LeftReply
    <3>2. CASE Copy
      <4>1. line' = <<>> \o <<>> \o <<Content, Zero>>
        BY <2>1, <3>2 DEF Copy, Content, Zero
      <4>2. line' = <<Content, Zero>>
        BY <4>1
      <4>3. line' # <<>> /\ Head(line').op = "data"
        BY <4>2 DEF Content, Cmd
      <4>4. Doomed'
        BY <1>1, <2>1, <4>3 DEF Doomed
      <4> QED  BY <1>2, <4>4 DEF Lost
    <3>3. CASE CopyFails
      BY <1>4, <2>1, <3>3 DEF CopyFails
    <3> QED  BY <3>1, <3>2, <3>3
  <2> QED  BY <1>7, <2>3, <2>4, <2>5 DEF Late
<1>8. CASE Harmless /\ Stopping
  <2>1. Up \/ LeftReply
    BY <1>8 DEF Stopping, Source, Climb, ClimbReply, Entry, DirReply, SentReply, FileReply, Copy, CopyFails
  <2>2. Stopping'
    BY <2>1 DEF Up, LeftReply, Stopping
  <2>3. Harmless'
    BY <1>1, <1>3, <1>8, <2>1, SendHarmless, SameHarmless DEF Up, LeftReply
  <2> QED  BY <1>2, <2>2, <2>3 DEF Lost
<1>9. CASE Harmless /\ Warned
  <2>1. at \in {"walk", "climb", "entry", "dir", "file"} /\ acks # <<>> /\ Head(acks) = "ERR" /\ ~Passed /\ ~Ended
    BY <1>9 DEF Warned, Passed, Ended
  <2>2. CASE Climb
    <3>1. at' \in {"entry", "climb"} /\ UNCHANGED <<line, acks>>
          /\ (unsent' = unsent \/ unsent' = Append(unsent, EndDir))
      BY <1>3, <2>2 DEF Climb
    <3>2. Quiet(unsent')
      <4>1. CASE unsent' = unsent
        BY <1>9, <4>1 DEF Harmless
      <4>2. CASE unsent' = Append(unsent, EndDir)
        <5>1. /\ Len(unsent') = Len(unsent) + 1 /\ unsent'[Len(unsent) + 1] = EndDir
              /\ \A i \in 1..Len(unsent) : unsent'[i] = unsent[i]
          BY <1>1, <1>3, <4>2, AppendProperties DEF WireTypeOK
        <5>2. Len(unsent) \in Nat
          BY <1>1, LenProperties DEF WireTypeOK
        <5>3. \A i \in 1..Len(unsent') : i = Len(unsent) + 1 \/ i \in 1..Len(unsent)
          BY <5>1, <5>2
        <5> QED  BY <1>3, <1>9, <5>1, <5>3 DEF Harmless, Quiet
      <4> QED  BY <3>1, <4>1, <4>2
    <3>3. Harmless'
      BY <1>1, <1>9, <3>1, <3>2 DEF Harmless, Quiet
    <3>4. Warned'
      BY <2>1, <3>1 DEF Warned
    <3> QED  BY <1>2, <3>3, <3>4 DEF Lost
  <2>3. CASE ClimbReply \/ DirReply
    <3>1. at' = "up" /\ UNCHANGED <<line, unsent>>
      BY <2>1, <2>3 DEF ClimbReply, DirReply
    <3>2. Harmless' /\ Stopping'
      BY <1>1, <1>9, <3>1, SameHarmless DEF Stopping
    <3> QED  BY <1>2, <3>2 DEF Lost
  <2>4. CASE Entry
    <3>1. at' \in {"dir", "file"} /\ acks' = acks /\ (Send(Cmd("D", Head(todo))) \/ Send(Cmd("C", Head(todo))))
      BY <2>4 DEF Entry
    <3>2. /\ Cmd("D", Head(todo)) \in Tokens /\ Cmd("C", Head(todo)) \in Tokens
          /\ Cmd("D", Head(todo)).op = "D" /\ Cmd("C", Head(todo)).op = "C"
      <4>1. todo # <<>>
        BY <1>1, <2>4 DEF Entry, WalkTypeOK
      <4>2. Cmd("D", Head(todo)).op = "D" /\ Cmd("C", Head(todo)).op = "C"
        BY DEF Cmd
      <4> QED  BY <1>1, <4>1, <4>2, HeadPath, CmdType DEF Ops
    <3>3. Harmless'
      BY <1>1, <1>9, <3>1, <3>2, SendHarmless
    <3>4. Warned'
      BY <2>1, <3>1 DEF Warned
    <3> QED  BY <1>2, <3>3, <3>4 DEF Lost
  <2>5. CASE FileReply
    BY <1>4, <1>9, <2>1, <2>5 DEF FileReply
  <2>6. CASE Up
    <3>1. Stopping'
      BY <2>6 DEF Up, Stopping
    <3>2. Harmless'
      BY <1>1, <1>3, <1>9, <2>6, SendHarmless, SameHarmless DEF Up
    <3> QED  BY <1>2, <3>1, <3>2 DEF Lost
  <2> QED  BY <2>1, <2>2, <2>3, <2>4, <2>5, <2>6 DEF Source, Copy, CopyFails, SentReply, LeftReply
<1> QED  BY <1>5, <1>6, <1>7, <1>8, <1>9 DEF Lost

LEMMA LostClient ==
  ASSUME SourceTypeOK, Lost, Receiver
  PROVE  Lost'
<1>1. /\ WireTypeOK /\ line # <<>> /\ line' = Tail(line) /\ phase # "gone"
      /\ UNCHANGED <<tree, deep, dot, at, todo, here, dirLevel, unsent, failed, code>>
  BY Parts, WhatIsRead DEF walkVars
<1>2. (refused \/ failed)'
  <2>1. refused' = refused \/ refused' = TRUE
    BY DEF Receiver, Refuse, EnterDir, TakeFile, LeaveDir, Protocol, TakeData, TakeTail
  <2> QED  BY <1>1, <2>1 DEF Lost
<1>3. CASE Doomed
  <2>1. phase = "line" /\ Token.op = "data"
    BY <1>3 DEF Doomed, Token
  <2>2. phase' = "gone"
    BY <2>1, WhatIsRead DEF Protocol
  <2> QED  BY <1>2, <2>2 DEF Lost
<1>4. CASE Harmless /\ (Stopping \/ Warned)
  <2>1. Quiet(line') /\ Quiet(unsent')
    BY <1>1, <1>4 DEF Harmless
  <2>2. line' # <<>> => Quiet(Tail(line')) /\ Head(line').op # "data"
    <3> SUFFICES ASSUME line' # <<>> PROVE Quiet(Tail(line')) /\ Head(line').op # "data"
      OBVIOUS
    <3>1. line' \in Seq(Tokens)
      BY <1>1, HeadTailProperties DEF WireTypeOK
    <3>2. /\ Len(line') \in Nat \ {0} /\ Head(line') = line'[1] /\ Len(Tail(line')) = Len(line') - 1
          /\ \A i \in 1..Len(Tail(line')) : Tail(line')[i] = line'[i + 1]
      BY <3>1, EmptySeq, HeadTailProperties
    <3>3. 1 \in 1..Len(line') /\ \A i \in 1..(Len(line') - 1) : i + 1 \in 1..Len(line')
      BY <3>2
    <3> QED  BY <2>1, <3>2, <3>3 DEF Quiet
  <2>3. Harmless'
    BY <2>1, <2>2 DEF Harmless, Quiet
  <2>4. (Stopping \/ Warned)'
    <3>1. CASE Stopping
      BY <1>1, <3>1 DEF Stopping
    <3>2. CASE Warned
      <4>1. acks' = acks \/ \E r \in {"OK", "ERR"} : acks' = Append(acks, r)
        BY DEF Receiver, Refuse, EnterDir, TakeFile, LeaveDir, Protocol, TakeData, TakeTail, Ack
      <4>2. acks' # <<>> /\ Head(acks') = Head(acks)
        <5>1. acks \in Seq({"OK", "ERR"}) /\ acks # <<>>
          BY <1>1, <3>2 DEF Warned, WireTypeOK
        <5>2. CASE acks' = acks
          BY <5>1, <5>2
        <5>3. ASSUME NEW r \in {"OK", "ERR"}, acks' = Append(acks, r)
              PROVE  acks' # <<>> /\ Head(acks') = Head(acks)
          <6>1. /\ Len(acks') = Len(acks) + 1 /\ acks' \in Seq({"OK", "ERR"})
                /\ \A i \in 1..Len(acks) : acks'[i] = acks[i]
            BY <5>1, <5>3, AppendProperties
          <6>2. Len(acks) \in Nat \ {0} /\ Head(acks) = acks[1]
            BY <5>1, EmptySeq, HeadTailProperties
          <6>3. acks' # <<>> /\ acks'[1] = acks[1]
            BY <6>1, <6>2, EmptySeq
          <6> QED  BY <6>1, <6>2, <6>3, HeadTailProperties
        <5> QED  BY <4>1, <5>2, <5>3
      <4> QED  BY <1>1, <3>2, <4>2 DEF Warned
    <3> QED  BY <1>4, <3>1, <3>2
  <2>5. (phase = "tail" => place = Front(file))'
    <3> SUFFICES ASSUME phase' = "tail" PROVE place' = Front(file')
      OBVIOUS
    <3>1. CASE phase = "data"
      <4>1. TakeData
        BY <3>1, WhatIsRead
      <4>2. Token.op = "data" /\ UNCHANGED <<file, place>>
        BY <4>1 DEF TakeData
      <4> QED  BY <1>1, <1>4, <3>1, <4>2 DEF Harmless, Token
    <3>2. CASE phase # "data"
      BY <3>2 DEF Receiver, Refuse, EnterDir, TakeFile, LeaveDir, Protocol, TakeData, TakeTail
    <3> QED  BY <3>1, <3>2
  <2> QED  BY <1>2, <2>3, <2>4, <2>5 DEF Lost
<1> QED  BY <1>1, <1>3, <1>4 DEF Lost, Late


\* A client that goes.
LEMMA GoneLost ==
  ASSUME SourceTypeOK, InStep \/ Lost, ClientGoes
  PROVE  Lost'
BY DEF ClientGoes, Lost

\* The zero byte behind the data of a file comes where the file belongs.
LEMMA TailInPlace ==
  ASSUME SourceTypeOK, InStep \/ Lost, phase = "tail"
  PROVE  place = Front(file)
<1>1. ASSUME NEW x, NEW S, NEW l, Owed(x, S, l)
      PROVE  place = Front(file)
  BY <1>1 DEF Owed, Stands, Takes
<1>2. ASSUME NEW x, NEW S, NEW cmd, OwedBefore(x, S, cmd)
      PROVE  place = Front(file)
  BY <1>1, <1>2 DEF OwedBefore
<1>3. CASE Lost
  BY <1>3 DEF Lost
<1>4. CASE InStep
  <2>1. CASE at \in {"walk", "climb", "entry"}
    BY <1>1, <1>4, <2>1 DEF InStep, AtWalk, AtClimb, AtEntry
  <2>2. CASE at \in {"dir", "file"}
    BY <1>2, <1>4, <2>2 DEF InStep, AtDir, AtFile, Stands, Takes
  <2>3. CASE at \in {"copy", "sent"}
    BY <1>4, <2>3 DEF InStep, AtCopy, AtSent, Stands, Takes
  <2>4. CASE at \in {"up", "done"}
    BY <1>1, <1>4, <2>4 DEF InStep, AtUp
  <2>5. CASE at = "left"
    BY <1>2, <1>4, <2>5 DEF InStep, AtLeft, Stands
  <2> QED  BY <2>1, <2>2, <2>3, <2>4, <2>5 DEF SourceTypeOK
<1> QED  BY <1>3, <1>4

-----------------------------------------------------------------------------
(* The invariant of the conversation.                                      *)

InPlace == \A f \in arrived : f.src = f.dst

IInv ==
  /\ SourceTypeOK
  /\ OneStepTree => Course /\ (InStep \/ Lost) /\ InPlace

LEMMA InitInStep == SourceInit => InStep
<1> SUFFICES ASSUME SourceInit PROVE InStep
  OBVIOUS
<1>1. WalkTypeOK
  BY InitTypes, Parts
<1>2. /\ at \in {"walk", "entry"} /\ (at = "entry" => todo = <<Root(tree)>>) /\ todo = Visits
      /\ unsent = <<>> /\ line = <<>> /\ acks = <<"OK">> /\ phase = "line" /\ place = <<>>
      /\ arrived = {} /\ ~failed /\ ~refused /\ code = 0
  BY DEF SourceInit, Untouched, Visits
<1>3. Srcs = {} /\ Due = {} /\ Inside = <<>>
  <2>1. Sent \subseteq ToSet(todo)
    BY <1>1, <1>2, VisitsProperties
  <2> QED  BY <1>2, <2>1 DEF Srcs, Due, Inside
<1>4. Owed(<<>>, Due, line)
  BY <1>2, <1>3 DEF Owed, Stands
<1>5. at = "entry" => Front(Head(todo)) = <<>>
  <2> SUFFICES ASSUME at = "entry" PROVE Front(Head(todo)) = <<>>
    OBVIOUS
  <2>1. Head(todo) = Root(tree)
    BY <1>2
  <2>2. Root(tree) \in Seq(Nat) /\ Root(tree) # <<>> /\ Len(Root(tree)) = 1
    BY <1>1, RootProperties DEF WalkTypeOK
  <2>3. Front(Root(tree)) \in Seq(Nat) /\ Len(Front(Root(tree))) = 0
    BY <2>2, FrontProperties
  <2> QED  BY <2>1, <2>3, EmptyIfLengthNought
<1> QED  BY <1>2, <1>3, <1>4, <1>5 DEF InStep, AtWalk, AtEntry

LEMMA InPlaceStep ==
  ASSUME SourceTypeOK, InStep \/ Lost, InPlace, SourceNext
  PROVE  InPlace'
<1>1. CASE TakeTail
  <2>1. phase = "tail" /\ file # <<>> /\ file \in Seq(Nat) /\ place = Front(file)
    BY <1>1, TailInPlace DEF TakeTail, SourceTypeOK
  <2>2. Append(place, Last(file)) = file
    BY <2>1, FrontProperties
  <2>3. arrived' = arrived \/ arrived' = arrived \cup {[src |-> file, dst |-> file]}
    BY <1>1, <2>2 DEF TakeTail
  <2> QED  BY <2>3 DEF InPlace
<1>2. CASE SourceNext /\ ~TakeTail
  <2>1. arrived' = arrived
    BY <1>2 DEF SourceNext, Source, Climb, ClimbReply, Entry, DirReply, FileReply, Copy, CopyFails, SentReply,
                Up, LeftReply, Read, receiveVars, Receiver, Refuse, EnterDir, TakeFile, LeaveDir, Protocol,
                TakeData, ClientGoes
  <2> QED  BY <2>1 DEF InPlace
<1> QED  BY <1>1, <1>2

LEMMA SameTree ==
  ASSUME UNCHANGED <<tree, deep, dot>>
  PROVE  OneStepTree' = OneStepTree
BY DEF OneStepTree, HasPrefix

LEMMA SameCourse ==
  ASSUME Course, UNCHANGED <<tree, deep, dot, walkVars>>
  PROVE  Course'
BY DEF Course, Behind, Around, Visits, Inside, Sent, walkVars

LEMMA SameStep ==
  ASSUME IInv, UNCHANGED sourceVars
  PROVE  IInv'
<1>1. UNCHANGED <<tree, deep, dot, walkVars, line, acks, receiveVars>>
  BY DEF sourceVars
<1>2. UNCHANGED <<at, todo, here, dirLevel, unsent, failed, code, phase, file, place, arrived, refused>>
  BY <1>1 DEF walkVars, receiveVars
<1>3. SourceTypeOK'
  BY <1>1, <1>2 DEF IInv, SourceTypeOK
<1>4. OneStepTree' = OneStepTree /\ (Course => Course') /\ (InPlace => InPlace')
  BY <1>1, <1>2, SameTree, SameCourse DEF InPlace
<1>5. Inside' = Inside /\ Due' = Due /\ Sent' = Sent /\ Srcs' = Srcs
  BY <1>1, <1>2, SameVisit DEF Srcs
<1>6. InStep => InStep'
  BY <1>1, <1>2, <1>5 DEF InStep, AtWalk, AtClimb, AtEntry, AtDir, AtFile, AtCopy, AtSent, AtUp, AtLeft,
       OwedBefore, Owed, Stands, Takes
<1>7. Lost => Lost'
  BY <1>1, <1>2 DEF Lost, Doomed, Late, Harmless, Stopping, Warned
<1> QED  BY <1>3, <1>4, <1>6, <1>7 DEF IInv

LEMMA IInvInit == SourceInit => IInv
BY InitTypes, CourseInit, InitInStep DEF IInv, InPlace, SourceInit, Untouched

LEMMA IInvStep ==
  ASSUME IInv, SourceNext
  PROVE  IInv'
<1>1. SourceTypeOK /\ SourceTypeOK'
  BY SourceStep, ReceiveStep DEF SourceNext, IInv
<1>2. UNCHANGED <<tree, deep, dot>>
  BY DEF SourceNext, Source, Climb, ClimbReply, Entry, DirReply, FileReply, Copy, CopyFails, SentReply,
         Up, LeftReply, Read, Receiver, Refuse, EnterDir, TakeFile, LeaveDir, Protocol, TakeData, TakeTail,
         Receive, ClientGoes
<1>3. SUFFICES ASSUME OneStepTree, Course, InStep \/ Lost, InPlace
               PROVE  Course' /\ (InStep \/ Lost)' /\ InPlace'
  BY <1>1, <1>2, SameTree DEF IInv
<1>4. InPlace'
  BY <1>1, <1>3, InPlaceStep
<1>5. CASE Source
  BY <1>1, <1>3, <1>4, <1>5, CourseStep, ServerInStep, LostServer
<1>6. CASE Receiver
  <2>1. UNCHANGED <<tree, deep, dot, walkVars>>
    BY <1>6, WhatIsRead
  <2> QED  BY <1>1, <1>3, <1>4, <1>6, <2>1, SameCourse, ClientInStep, LostClient
<1>7. CASE ClientGoes
  <2>1. UNCHANGED <<tree, deep, dot, walkVars>>
    BY <1>7 DEF ClientGoes
  <2> QED  BY <1>1, <1>3, <1>4, <1>7, <2>1, SameCourse, GoneLost
<1> QED  BY <1>5, <1>6, <1>7 DEF SourceNext

LEMMA Conversation == SourceSpec => []IInv
<1>1. IInv /\ [SourceNext]_sourceVars => IInv'
  BY IInvStep, SameStep
<1> QED  BY IInvInit, <1>1, PTL DEF SourceSpec

\* In a tree that is left one directory at a time every file that arrives is
\* where it belongs, for any such tree, whatever the client refuses, whatever
\* cannot be read, and however the replies lag behind the commands.
THEOREM FilesArriveInPlace == SourceSpec => []FilesInPlace
<1>1. IInv => FilesInPlace
  BY DEF IInv, InPlace, FilesInPlace
<1> QED  BY Conversation, <1>1, PTL

\* When sourceMode has returned, the client has read all and neither side has
\* failed, each file of the tree has arrived, and every directory has been left.
THEOREM AllFilesArrive == SourceSpec => []AllArrived
<1>1. ASSUME IInv, at = "done", line = <<>>, ~refused, ~failed, OneStepTree
      PROVE  Srcs = Sent /\ place = <<>> /\ code = 0
  <2>1. InStep /\ code = 0 /\ AtUp /\ dirLevel = 0
    BY <1>1 DEF IInv, Lost, InStep
  <2>2. PICK x \in Seq(Nat) : Len(x) = 0 /\ Owed(x, Sent, line)
    BY <2>1 DEF AtUp
  <2>3. Stands(x, Sent, <<"OK">>)
    BY <1>1, <2>2 DEF Owed
  <2> QED  BY <2>1, <2>2, <2>3, EmptyIfLengthNought DEF Stands
<1>2. IInv => AllArrived
  BY <1>1 DEF AllArrived, Srcs
<1> QED  BY Conversation, <1>2, PTL
=============================================================================
