--------------------------- MODULE ConnPoolProofs ---------------------------
(***************************************************************************)
(* Theorems about ConnPool, for every number of workers and connections:   *)
(* an open connection has exactly one owner, and there are never more of   *)
(* them than workers plus the one in the accept loop's hands.              *)
(***************************************************************************)
EXTENDS ConnPool, FiniteSetTheorems, TLAPS

(* The kernel's queue holds each waiting connection once.                  *)
BacklogInv ==
  /\ \A i \in 1..Len(backlog) : conn[backlog[i]] = "backlog"
  /\ \A i, j \in 1..Len(backlog) : backlog[i] = backlog[j] => i = j

(* The accept loop holds an open connection, except while it accepts.      *)
HeldInv ==
  /\ held = None <=> listener = "accept"
  /\ held # None => conn[held] = "open"

(* What a worker serves is open until the session is over.                 *)
WorkerInv ==
  \A w \in Workers :
    /\ worker[w] = "idle" <=> serving[w] = None
    /\ worker[w] \in {"login", "ok", "session"} => conn[serving[w]] = "open"
    /\ worker[w] \in {"failed", "release", "report"} => conn[serving[w]] = "closed"

(* No connection is in two pairs of hands, and an open one is in one.      *)
OwnerInv ==
  /\ \A w, x \in Workers : serving[w] = serving[x] /\ serving[w] # None => w = x
  /\ \A w \in Workers : held # None => serving[w] # held
  /\ \A c \in Conns : conn[c] = "open" => held = c \/ \E w \in Workers : serving[w] = c

IInv == TypeOK /\ BacklogInv /\ HeldInv /\ WorkerInv /\ OwnerInv

LEMMA InvInit == Init => IInv
BY PoolAssumption
DEF PoolAssumption, Init, IInv, TypeOK, BacklogInv, HeldInv, WorkerInv, OwnerInv, WorkerPCs

-----------------------------------------------------------------------------
LEMMA TypeStep ==
  ASSUME TypeOK, HeldInv, WorkerInv, [Next]_vars
  PROVE  TypeOK'
<1> USE PoolAssumption DEF PoolAssumption, TypeOK, clients
<1>1. CASE UNCHANGED vars
  BY <1>1 DEF vars, clients
<1>2. ASSUME NEW c \in Conns, Client(c)
      PROVE  TypeOK'
  <2>1. CASE Connect(c)
    <3>1. backlog' \in Seq(Conns) /\ conn' \in [Conns -> {"new", "backlog", "open", "closed"}]
      BY <2>1 DEF Connect
    <3> QED  BY <2>1, <3>1 DEF Connect
  <2>2. CASE Speak(c) \/ FallSilent(c) \/ Leave(c) \/ Jam(c)
    BY <2>2 DEF Speak, FallSilent, Leave, Jam, clients
  <2> QED  BY <1>2, <2>1, <2>2 DEF Client
<1>3. CASE Listener
  <2>1. CASE Accept
    <3>1. Head(backlog) \in Conns /\ Tail(backlog) \in Seq(Conns)
      BY <2>1 DEF Accept
    <3> QED  BY <2>1, <3>1 DEF Accept
  <2>2. CASE AcceptError
    BY <2>2 DEF AcceptError
  <2>3. CASE Check
    BY <2>3 DEF Check, IncCount
  <2> QED  BY <1>3, <2>1, <2>2, <2>3 DEF Listener
<1>4. ASSUME NEW w \in Workers, Worker(w)
      PROVE  TypeOK'
  <2> USE DEF WorkerPCs
  <2>1. CASE Receive(w) \/ Profile(w) \/ Report(w)
    BY <2>1 DEF Receive, Profile, Report
  <2>2. CASE Login(w) \/ SessionEnd(w)
    BY <2>2 DEF Login, SessionEnd
  <2>3. CASE TunnelPanic(w) \/ \E x \in Workers : MapRace(w, x)
    BY <2>3 DEF TunnelPanic, MapRace
  <2>4. CASE Release(w)
    <3>1. HostOf[serving[w]] \in Hosts
      BY <2>4 DEF Release, WorkerInv
    <3>2. count' \in [Hosts -> Nat]
      BY <2>4, <3>1 DEF Release, DecCount
    <3> QED  BY <2>4, <3>2 DEF Release
  <2> QED  BY <1>4, <2>1, <2>2, <2>3, <2>4 DEF Worker
<1> QED  BY <1>1, <1>2, <1>3, <1>4 DEF Next

-----------------------------------------------------------------------------
(* The queue: what Accept takes was in it once.                            *)
LEMMA QueueHead ==
  ASSUME NEW q \in Seq(Conns), q # <<>>,
         \A i, j \in 1..Len(q) : q[i] = q[j] => i = j
  PROVE  /\ Head(q) = q[1] /\ 1 \in 1..Len(q)
         /\ \A i \in 1..Len(Tail(q)) :
              i + 1 \in 1..Len(q) /\ Tail(q)[i] = q[i + 1] /\ q[i + 1] # Head(q)
         /\ \A i, j \in 1..Len(Tail(q)) : Tail(q)[i] = Tail(q)[j] => i = j
<1>1. Head(q) = q[1] /\ 1 \in 1..Len(q) /\ Len(q) \in Nat /\ Len(Tail(q)) = Len(q) - 1
  OBVIOUS
<1>2. \A i \in 1..Len(Tail(q)) : i + 1 \in 1..Len(q) /\ Tail(q)[i] = q[i + 1]
  BY <1>1
<1>3. \A i \in 1..Len(Tail(q)) : i + 1 # 1
  OBVIOUS
<1>4. \A i, j \in 1..Len(Tail(q)) : i + 1 = j + 1 => i = j
  OBVIOUS
<1> QED  BY <1>1, <1>2, <1>3, <1>4

LEMMA BacklogStep ==
  ASSUME IInv, [Next]_vars
  PROVE  BacklogInv'
<1> USE PoolAssumption DEF PoolAssumption, IInv, TypeOK
<1>1. ASSUME UNCHANGED backlog,
             \A c \in Conns : conn[c] = "backlog" => conn'[c] = "backlog"
      PROVE  BacklogInv'
  BY <1>1 DEF BacklogInv
<1>2. CASE UNCHANGED vars
  BY <1>1, <1>2 DEF vars, clients
<1>3. ASSUME NEW c \in Conns, Connect(c)
      PROVE  BacklogInv'
  <2>1. /\ backlog' = Append(backlog, c) /\ Len(backlog') = Len(backlog) + 1
        /\ Len(backlog) \in Nat
        /\ \A i \in 1..Len(backlog') :
             backlog'[i] = IF i = Len(backlog) + 1 THEN c ELSE backlog[i]
    BY <1>3 DEF Connect
  <2>2. \A i \in 1..Len(backlog) : backlog[i] # c
    BY <1>3 DEF Connect, BacklogInv
  <2>3. \A i \in 1..Len(backlog') : conn'[backlog'[i]] = "backlog"
    BY <1>3, <2>1 DEF Connect, BacklogInv
  <2> QED  BY <2>1, <2>2, <2>3 DEF BacklogInv
<1>4. CASE Accept
  <2>1. backlog # <<>> /\ backlog' = Tail(backlog)
    BY <1>4 DEF Accept
  <2>2. \A i \in 1..Len(backlog') : backlog'[i] # Head(backlog) /\ conn[backlog'[i]] = "backlog"
    BY <2>1, QueueHead DEF BacklogInv
  <2>3. \A i \in 1..Len(backlog') : backlog'[i] \in Conns
    BY <2>1, QueueHead
  <2>4. \A i, j \in 1..Len(backlog') : backlog'[i] = backlog'[j] => i = j
    BY <2>1, QueueHead DEF BacklogInv
  <2>5. \A i \in 1..Len(backlog') : conn'[backlog'[i]] = conn[backlog'[i]]
    BY <1>4, <2>2, <2>3 DEF Accept
  <2> QED  BY <2>2, <2>4, <2>5 DEF BacklogInv
<1>5. ASSUME NEW c \in Conns, Speak(c) \/ FallSilent(c) \/ Leave(c) \/ Jam(c)
      PROVE  BacklogInv'
  BY <1>1, <1>5 DEF Speak, FallSilent, Leave, Jam, clients
<1>6. CASE AcceptError \/ Check
  BY <1>1, <1>6 DEF AcceptError, Check, HeldInv
<1>7. ASSUME NEW w \in Workers, Worker(w)
      PROVE  BacklogInv'
  <2>1. UNCHANGED backlog
    BY <1>7 DEF Worker, Receive, Login, Profile, SessionEnd, TunnelPanic, Release, Report, MapRace
  <2>2. \/ UNCHANGED conn
        \/ /\ worker[w] \in {"login", "session"}
           /\ conn' = [conn EXCEPT ![serving[w]] = "closed"]
    BY <1>7 DEF Worker, Receive, Login, Profile, SessionEnd, TunnelPanic, Release, Report, MapRace
  <2> QED  BY <1>1, <2>1, <2>2 DEF WorkerInv
<1> QED  BY <1>2, <1>3, <1>4, <1>5, <1>6, <1>7 DEF Next, Listener, Client

-----------------------------------------------------------------------------
(* Who holds which connection.                                             *)

LEMMA OwnStep ==
  ASSUME IInv, [Next]_vars
  PROVE  HeldInv' /\ WorkerInv' /\ OwnerInv'
<1> USE PoolAssumption DEF PoolAssumption, IInv, TypeOK
<1>1. ASSUME UNCHANGED <<held, listener, worker, serving>>,
             \A c \in Conns : \/ conn'[c] = conn[c]
                              \/ conn[c] = "new" /\ conn'[c] = "backlog"
      PROVE  HeldInv' /\ WorkerInv' /\ OwnerInv'
  <2>1. HeldInv' /\ WorkerInv'
    BY <1>1 DEF HeldInv, WorkerInv, WorkerPCs
  <2>2. OwnerInv'
    BY <1>1 DEF OwnerInv
  <2> QED  BY <2>1, <2>2
<1>2. CASE UNCHANGED vars
  BY <1>1, <1>2 DEF vars, clients
<1>3. ASSUME NEW c \in Conns, Client(c)
      PROVE  HeldInv' /\ WorkerInv' /\ OwnerInv'
  BY <1>1, <1>3 DEF Client, Connect, Speak, FallSilent, Leave, Jam, clients
<1>4. CASE Accept
  <2>1. /\ Head(backlog) \in Conns /\ conn[Head(backlog)] = "backlog"
        /\ held = None /\ held' = Head(backlog) /\ listener' = "check"
        /\ conn' = [conn EXCEPT ![Head(backlog)] = "open"]
        /\ UNCHANGED <<worker, serving>>
    BY <1>4, QueueHead DEF Accept, BacklogInv, HeldInv
  <2>2. ASSUME NEW w \in Workers
        PROVE  serving[w] # Head(backlog)
    <3>1. worker[w] = "idle" => serving[w] = None
      BY DEF WorkerInv
    <3>2. worker[w] # "idle" => conn[serving[w]] \in {"open", "closed"}
      BY DEF WorkerInv, WorkerPCs
    <3> QED  BY <2>1, <3>1, <3>2
  <2>3. HeldInv'
    BY <2>1 DEF HeldInv
  <2>4. WorkerInv'
    <3> SUFFICES ASSUME NEW w \in Workers
                 PROVE  /\ worker[w] = "idle" <=> serving[w] = None
                        /\ worker[w] \in {"login", "ok", "session"} => conn'[serving[w]] = "open"
                        /\ worker[w] \in {"failed", "release", "report"} =>
                             conn'[serving[w]] = "closed"
      BY <2>1 DEF WorkerInv
    <3>1. worker[w] # "idle" => serving[w] \in Conns
      BY DEF WorkerInv
    <3>2. worker[w] # "idle" => conn'[serving[w]] = conn[serving[w]]
      BY <2>1, <2>2, <3>1
    <3> QED  BY <3>2 DEF WorkerInv
  <2>5. OwnerInv'
    BY <2>1, <2>2 DEF OwnerInv
  <2> QED  BY <2>3, <2>4, <2>5
<1>5. CASE AcceptError
  BY <1>1, <1>5 DEF AcceptError
<1>6. CASE Check
  <2>1. CASE UNCHANGED <<conn, held>> /\ listener' = "send"
    BY <1>6, <2>1 DEF Check, HeldInv, WorkerInv, OwnerInv
  <2>2. CASE held' = None /\ listener' = "accept" /\ conn' = [conn EXCEPT ![held] = "closed"]
    <3>1. held \in Conns /\ held # None
      BY <1>6 DEF Check, HeldInv
    <3> QED  BY <1>6, <2>2, <3>1 DEF Check, HeldInv, WorkerInv, OwnerInv, WorkerPCs
  <2> QED  BY <1>6, <2>1, <2>2 DEF Check
<1>7. ASSUME NEW w \in Workers, Receive(w)
      PROVE  HeldInv' /\ WorkerInv' /\ OwnerInv'
  <2>1. held \in Conns /\ held # None /\ serving[w] = None
    BY <1>7 DEF Receive, HeldInv, WorkerInv
  <2>2. HeldInv'
    BY <1>7 DEF Receive, HeldInv
  <2>3. WorkerInv'
    BY <1>7, <2>1 DEF Receive, HeldInv, WorkerInv
  <2>4. OwnerInv'
    BY <1>7, <2>1 DEF Receive, OwnerInv
  <2> QED  BY <2>2, <2>3, <2>4
<1>8. ASSUME NEW w \in Workers, \/ Profile(w) \/ Release(w) \/ TunnelPanic(w)
                                \/ \E x \in Workers : MapRace(w, x)
      PROVE  HeldInv' /\ WorkerInv' /\ OwnerInv'
  BY <1>8 DEF Profile, Release, TunnelPanic, MapRace, HeldInv, WorkerInv, OwnerInv
<1>9. ASSUME NEW w \in Workers, Login(w) \/ SessionEnd(w)
      PROVE  HeldInv' /\ WorkerInv' /\ OwnerInv'
  <2>1. serving[w] \in Conns /\ serving[w] # None /\ UNCHANGED <<held, listener, serving>>
    BY <1>9 DEF Login, SessionEnd, WorkerInv
  <2>2. CASE conn' = conn /\ worker' = [worker EXCEPT ![w] = "ok"]
    BY <1>9, <2>1, <2>2 DEF Login, SessionEnd, HeldInv, WorkerInv, OwnerInv
  <2>3. CASE /\ conn' = [conn EXCEPT ![serving[w]] = "closed"]
             /\ \E pc \in {"failed", "release"} : worker' = [worker EXCEPT ![w] = pc]
    BY <2>1, <2>3 DEF HeldInv, WorkerInv, OwnerInv
  <2> QED  BY <1>9, <2>2, <2>3 DEF Login, SessionEnd
<1>10. ASSUME NEW w \in Workers, Report(w)
       PROVE  HeldInv' /\ WorkerInv' /\ OwnerInv'
  <2>1. \A c \in Conns : conn[c] = "open" => serving[w] # c
    BY <1>10 DEF Report, WorkerInv
  <2> QED  BY <1>10, <2>1 DEF Report, HeldInv, WorkerInv, OwnerInv
<1> QED  BY <1>2, <1>3, <1>4, <1>5, <1>6, <1>7, <1>8, <1>9, <1>10 DEF Next, Listener, Worker

LEMMA InvHolds == Spec => []IInv
<1>1. IInv /\ [Next]_vars => IInv'
  BY TypeStep, BacklogStep, OwnStep DEF IInv
<1> QED  BY <1>1, InvInit, PTL DEF Spec

(* The types hold; in particular no count of a host drops below zero.       *)
THEOREM PoolTypeCorrect == Spec => []TypeOK
<1>1. IInv => TypeOK
  BY DEF IInv
<1> QED  BY <1>1, InvHolds, PTL

(* Every open connection is with the accept loop or with one worker.       *)
THEOREM OpenConnHasOneOwner == Spec => []OneOwner
<1>1. IInv => OneOwner
  <2> SUFFICES ASSUME IInv PROVE OneOwner
    OBVIOUS
  <2> USE PoolAssumption DEF PoolAssumption, IInv, TypeOK
  <2>1. ASSUME NEW c \in OpenConns
        PROVE  \/ held = c /\ \A w \in Workers : serving[w] # c
               \/ held # c /\ \E w \in Workers :
                    serving[w] = c /\ \A x \in Workers \ {w} : serving[x] # c
    BY <2>1 DEF OpenConns, OwnerInv
  <2>2. held # None => held \in OpenConns
    BY DEF HeldInv, OpenConns
  <2>3. \A w \in Workers : worker[w] \in {"login", "ok", "session"} => serving[w] \in OpenConns
    BY DEF WorkerInv, OpenConns
  <2> QED  BY <2>1, <2>2, <2>3 DEF OneOwner
<1> QED  BY <1>1, InvHolds, PTL

-----------------------------------------------------------------------------
(* ConnPool implements BoundedServer.                                      *)

(* With empty hands the accept loop leaves the open connections to the     *)
(* workers, who have at most one each.                                     *)
LEMMA OpenBound ==
  ASSUME IInv, held = None
  PROVE  /\ Cardinality(OpenConns) < Cardinality(Workers) + 1
         /\ Cardinality(Workers) \in Nat
<1> DEFINE Busy == {w \in Workers : serving[w] \in OpenConns}
           f == [w \in Busy |-> serving[w]]
<1>1. IsFiniteSet(Workers) /\ Cardinality(Workers) \in Nat
  BY PoolAssumption, FS_CardinalityType DEF PoolAssumption
<1>2. IsFiniteSet(Busy) /\ Cardinality(Busy) <= Cardinality(Workers)
  BY <1>1, FS_Subset
<1>3. \A c \in OpenConns : \E w \in Busy : f[w] = c
  BY PoolAssumption DEF PoolAssumption, IInv, OwnerInv, OpenConns
<1>4. f \in Surjection(Busy, OpenConns)
  BY <1>3 DEF Surjection
<1> HIDE DEF f, Busy
<1>5. IsFiniteSet(OpenConns) /\ Cardinality(OpenConns) <= Cardinality(Busy)
  BY <1>2, <1>4, FS_Surjection
<1>6. Cardinality(OpenConns) \in Nat /\ Cardinality(Busy) \in Nat
  BY <1>2, <1>5, FS_CardinalityType
<1> QED  BY <1>1, <1>2, <1>5, <1>6

LEMMA ServerStep ==
  ASSUME IInv, [Next]_vars
  PROVE  [Server!Next]_(Server!vars)
<1> USE PoolAssumption DEF PoolAssumption, IInv, TypeOK
<1> DEFINE Shuts == {c \in Conns : conn[c] = "closed"}
<1>1. ASSUME UNCHANGED up, OpenConns' = OpenConns, Shuts' = Shuts
      PROVE  [Server!Next]_(Server!vars)
  BY <1>1 DEF Server!vars
<1>2. ASSUME up, up' = FALSE, UNCHANGED conn
      PROVE  [Server!Next]_(Server!vars)
  BY <1>2 DEF Server!Next, Server!Crash, OpenConns
<1>3. ASSUME up, NEW c \in Conns, conn[c] = "open",
             conn' = [conn EXCEPT ![c] = "closed"], UNCHANGED up
      PROVE  [Server!Next]_(Server!vars)
  <2>1. Server!Shut(c)
    BY <1>3 DEF Server!Shut, OpenConns
  <2> QED  BY <2>1 DEF Server!Next
<1>4. CASE UNCHANGED vars
  BY <1>1, <1>4 DEF vars, clients, OpenConns
<1>5. ASSUME NEW c \in Conns, Client(c)
      PROVE  [Server!Next]_(Server!vars)
  BY <1>1, <1>5 DEF Client, Connect, Speak, FallSilent, Leave, Jam, clients, OpenConns
<1>6. CASE Accept
  <2> DEFINE c == Head(backlog)
  <2>1. c \in Conns /\ conn[c] = "backlog" /\ held = None /\ up /\ UNCHANGED up
    BY <1>6, QueueHead DEF Accept, BacklogInv, HeldInv
  <2>2. Cardinality(OpenConns) < Cardinality(Workers) + 1
    BY <2>1, OpenBound
  <2>3. conn' = [conn EXCEPT ![c] = "open"]
    BY <1>6 DEF Accept
  <2> HIDE DEF c
  <2>4. /\ c \notin OpenConns \cup Shuts
        /\ OpenConns' = OpenConns \cup {c} /\ Shuts' = Shuts
    BY <2>1, <2>3 DEF OpenConns
  <2>5. Server!Open(c)
    BY <2>1, <2>2, <2>4 DEF Server!Open, Server!Cardinality, Cardinality
  <2> QED  BY <2>1, <2>5 DEF Server!Next
<1>7. CASE AcceptError
  BY <1>2, <1>7 DEF AcceptError
<1>8. CASE Check
  BY <1>1, <1>3, <1>8 DEF Check, HeldInv, OpenConns
<1>9. ASSUME NEW w \in Workers, Worker(w)
      PROVE  [Server!Next]_(Server!vars)
  <2>1. CASE Receive(w) \/ Profile(w) \/ Release(w) \/ Report(w)
    BY <1>1, <2>1 DEF Receive, Profile, Release, Report, OpenConns
  <2>2. CASE TunnelPanic(w) \/ \E x \in Workers : MapRace(w, x)
    BY <1>2, <2>2 DEF TunnelPanic, MapRace
  <2>3. CASE Login(w) \/ SessionEnd(w)
    <3>1. up /\ UNCHANGED up /\ serving[w] \in Conns /\ conn[serving[w]] = "open"
      BY <2>3 DEF Login, SessionEnd, WorkerInv
    <3>2. UNCHANGED conn \/ conn' = [conn EXCEPT ![serving[w]] = "closed"]
      BY <2>3 DEF Login, SessionEnd
    <3> QED  BY <1>1, <1>3, <3>1, <3>2 DEF OpenConns
  <2> QED  BY <1>9, <2>1, <2>2, <2>3 DEF Worker
<1> QED  BY <1>4, <1>5, <1>6, <1>7, <1>8, <1>9 DEF Next, Listener

(* At most one connection more than there are workers is open, and each is *)
(* opened and closed once.                                                 *)
THEOREM PoolIsBounded == Spec => StaysBounded
<1>1. Init => Server!Init
  BY DEF Init, Server!Init, OpenConns
<1>2. IInv /\ [Next]_vars => [Server!Next]_(Server!vars)
  BY ServerStep
<1> QED  BY <1>1, <1>2, InvHolds, PTL DEF Spec, StaysBounded, Server!Spec
=============================================================================
