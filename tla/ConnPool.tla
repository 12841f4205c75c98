------------------------------ MODULE ConnPool ------------------------------
(***************************************************************************)
(* The accept loop (ssh.go, ListenAndServe), the pool of workers it hands  *)
(* connections to over the unbuffered connChan (CreateSessionHandler), the *)
(* count of connections per host (net/conn.go, IPConnCount) and the shared *)
(* map of abuse reports (util/abuseipdb/report.go, reportMap).             *)
(***************************************************************************)
EXTENDS Integers, Sequences, FiniteSets

CONSTANTS
  Conns,       \* connections that clients make
  Workers,     \* server.maxConnections goroutines
  Hosts,       \* client addresses
  HostOf,      \* the address each connection comes from
  MaxPerHost,  \* server.maxConnPerHost
  Timeout,     \* TRUE: server.timeout is set
  Faults,      \* "accept": accept(2) fails, e.g. no file descriptor is left
               \* "race"  : the Go runtime notices a race on reportMap
               \* "tunnel": a forwarding request for a port not in the map
  None         \* no connection

ASSUME PoolAssumption ==
  /\ Workers # {} /\ IsFiniteSet(Workers)
  /\ None \notin Conns
  /\ HostOf \in [Conns -> Hosts]
  /\ MaxPerHost \in Int
  /\ Timeout \in BOOLEAN
  /\ Faults \subseteq {"accept", "race", "tunnel"}

VARIABLES
  up,       \* the process has not crashed
  backlog,  \* connections the kernel holds for accept(2)
  held,     \* connection the accept loop works on
  listener, \* "accept", "check", "send"
  worker,   \* where each worker is
  serving,  \* the connection each worker has received
  conn,     \* "new", "backlog", "open" (accepted) or "closed" by the server
  spoken,   \* connections whose client has sent something
  quiet,    \* connections whose client sends no more and reads what it is sent
  gone,     \* connections whose client has left
  jammed,   \* connections whose requests pile up and are read no further
  count     \* ipConnCnt.m, 0 for a host that is not in it

clients == <<spoken, quiet, gone, jammed>>
vars == <<up, backlog, held, listener, worker, serving, conn, clients, count>>

WorkerPCs == {"idle", "login", "failed", "ok", "session", "release", "report"}

Init ==
  /\ up       = TRUE
  /\ backlog  = <<>>
  /\ held     = None
  /\ listener = "accept"
  /\ worker   = [w \in Workers |-> "idle"]
  /\ serving  = [w \in Workers |-> None]
  /\ conn     = [c \in Conns |-> "new"]
  /\ spoken   = {}
  /\ quiet    = {}
  /\ gone     = {}
  /\ jammed   = {}
  /\ count    = [h \in Hosts |-> 0]

-----------------------------------------------------------------------------
(* The clients.                                                            *)

Connect(c) ==
  /\ up /\ conn[c] = "new"
  /\ conn' = [conn EXCEPT ![c] = "backlog"]
  /\ backlog' = Append(backlog, c)
  /\ UNCHANGED <<up, held, listener, worker, serving, clients, count>>

Present(c) == up /\ conn[c] \in {"backlog", "open"} /\ c \notin gone

\* The first bytes.  A client that is not quiet may send more at any time.
Speak(c) ==
  /\ Present(c) /\ c \notin spoken \cup quiet
  /\ spoken' = spoken \cup {c}
  /\ UNCHANGED <<up, backlog, held, listener, worker, serving, conn, quiet, gone, jammed, count>>

FallSilent(c) ==
  /\ Present(c) /\ c \notin quiet
  /\ quiet' = quiet \cup {c}
  /\ UNCHANGED <<up, backlog, held, listener, worker, serving, conn, spoken, gone, jammed, count>>

Leave(c) ==
  /\ Present(c)
  /\ gone' = gone \cup {c}
  /\ UNCHANGED <<up, backlog, held, listener, worker, serving, conn, spoken, quiet, jammed, count>>

\* More than sixteen requests on a channel whose handler has returned, or is
\* stuck, and takes none: x/crypto/ssh waits for room and reads no further.
Jam(c) ==
  /\ Present(c) /\ c \notin quiet \cup jammed
  /\ \E w \in Workers : worker[w] = "session" /\ serving[w] = c
  /\ jammed' = jammed \cup {c}
  /\ UNCHANGED <<up, backlog, held, listener, worker, serving, conn, spoken, quiet, gone, count>>

Client(c) == Connect(c) \/ Speak(c) \/ FallSilent(c) \/ Leave(c) \/ Jam(c)

-----------------------------------------------------------------------------
(* net/conn.go, IPConnCount: Read and IncCount return one less than the    *)
(* entry, and IncCount leaves the entry as it is.                          *)

ReadCount(h) == count[h] - 1

IncCount(h) == UNCHANGED count

DecCount(h) ==
  count' = IF count[h] > 0 THEN [count EXCEPT ![h] = @ - 1] ELSE [count EXCEPT ![h] = 0]

-----------------------------------------------------------------------------
(* The accept loop.                                                        *)

\* Mutated Accept: a connection is accepted while the last one is being sent.
AcceptAhead ==
  /\ up /\ listener \in {"accept", "send"} /\ backlog # <<>>
  /\ held' = Head(backlog)
  /\ backlog' = Tail(backlog)
  /\ conn' = [conn EXCEPT ![Head(backlog)] = "open"]
  /\ listener' = "check"
  /\ UNCHANGED <<up, worker, serving, clients, count>>

Accept ==
  /\ up /\ listener = "accept" /\ backlog # <<>>
  /\ held' = Head(backlog)
  /\ backlog' = Tail(backlog)
  /\ conn' = [conn EXCEPT ![Head(backlog)] = "open"]
  /\ listener' = "check"
  /\ UNCHANGED <<up, worker, serving, clients, count>>

\* nConn is nil on an error and its address is asked for before err is seen.
AcceptError ==
  /\ up /\ listener = "accept" /\ "accept" \in Faults
  /\ up' = FALSE
  /\ UNCHANGED <<backlog, held, listener, worker, serving, conn, clients, count>>

\* The count of the host decides whether the connection is closed or counted.
Check ==
  /\ up /\ listener = "check"
  /\ IF ReadCount(HostOf[held]) >= MaxPerHost
     THEN /\ conn' = [conn EXCEPT ![held] = "closed"]
          /\ held' = None
          /\ listener' = "accept"
          /\ UNCHANGED count
     ELSE /\ IncCount(HostOf[held])
          /\ listener' = "send"
          /\ UNCHANGED <<conn, held>>
  /\ UNCHANGED <<up, backlog, worker, serving, clients>>

-----------------------------------------------------------------------------
(* The workers.                                                            *)

\* Mutated Receive: connChan is buffered, the connection may be sent again.
ReceiveTwice(w) ==
  /\ up /\ listener = "send" /\ worker[w] = "idle"
  /\ worker' = [worker EXCEPT ![w] = "login"]
  /\ serving' = [serving EXCEPT ![w] = held]
  /\ listener' \in {"accept", "send"}
  /\ held' = IF listener' = "send" THEN held ELSE None
  /\ UNCHANGED <<up, backlog, conn, clients, count>>

\* The send on the unbuffered connChan meets the worker's receive.
Receive(w) ==
  /\ up /\ listener = "send" /\ worker[w] = "idle"
  /\ worker' = [worker EXCEPT ![w] = "login"]
  /\ serving' = [serving EXCEPT ![w] = held]
  /\ held' = None
  /\ listener' = "accept"
  /\ UNCHANGED <<up, backlog, conn, clients, count>>

\* NewSSHSession: the handshake succeeds or fails on what the client sends, or on
\* a deadline, and a failed one closes the connection.  The deadline is set after
\* each read for the next one: the first read has none.
Login(w) ==
  /\ up /\ worker[w] = "login"
  /\ \/ /\ serving[w] \in spoken \ gone
        /\ worker' = [worker EXCEPT ![w] = "ok"]
        /\ UNCHANGED conn
     \/ /\ serving[w] \in spoken \cup gone
        /\ worker' = [worker EXCEPT ![w] = "failed"]
        /\ conn' = [conn EXCEPT ![serving[w]] = "closed"]
  /\ UNCHANGED <<up, backlog, held, listener, serving, clients, count>>

\* CreateProfile and AddCategory write reportMap and the host's profile.
Profile(w) ==
  /\ up /\ worker[w] \in {"ok", "failed"}
  /\ worker' = [worker EXCEPT ![w] = IF @ = "ok" THEN "session" ELSE "release"]
  /\ UNCHANGED <<up, backlog, held, listener, serving, conn, clients, count>>

\* Mutated SessionEnd: no deadline is set after a read.
SessionEndOnLeave(w) ==
  /\ up /\ worker[w] = "session" /\ serving[w] \in gone
  /\ serving[w] \notin jammed
  /\ worker' = [worker EXCEPT ![w] = "release"]
  /\ conn' = [conn EXCEPT ![serving[w]] = "closed"]
  /\ UNCHANGED <<up, backlog, held, listener, serving, clients, count>>

\* handleNewConn returns when the connection is over: the client left, or paused
\* for too long between two reads.  A connection that is jammed is not read.
SessionEnd(w) ==
  /\ up /\ worker[w] = "session" /\ (serving[w] \in gone \/ Timeout)
  /\ serving[w] \notin jammed
  /\ worker' = [worker EXCEPT ![w] = "release"]
  /\ conn' = [conn EXCEPT ![serving[w]] = "closed"]
  /\ UNCHANGED <<up, backlog, held, listener, serving, clients, count>>

\* The worker itself looks up the port; a missing one fails a type assertion.
TunnelPanic(w) ==
  /\ up /\ worker[w] = "session" /\ serving[w] \notin gone /\ "tunnel" \in Faults
  /\ up' = FALSE
  /\ UNCHANGED <<backlog, held, listener, worker, serving, conn, clients, count>>

Release(w) ==
  /\ up /\ worker[w] = "release"
  /\ DecCount(HostOf[serving[w]])
  /\ worker' = [worker EXCEPT ![w] = "report"]
  /\ UNCHANGED <<up, backlog, held, listener, serving, conn, clients>>

\* UploadReport reads reportMap and the host's profile and calls AbuseIPDB.
Report(w) ==
  /\ up /\ worker[w] = "report"
  /\ worker' = [worker EXCEPT ![w] = "idle"]
  /\ serving' = [serving EXCEPT ![w] = None]
  /\ UNCHANGED <<up, backlog, held, listener, conn, clients, count>>

\* reportMap has no lock: the runtime stops a process in which one goroutine
\* writes a map while another one uses it.
MapRace(w, x) ==
  /\ up /\ "race" \in Faults /\ w # x
  /\ worker[w] \in {"ok", "failed"} /\ worker[x] \in {"ok", "failed", "report"}
  /\ up' = FALSE
  /\ UNCHANGED <<backlog, held, listener, worker, serving, conn, clients, count>>

Listener == Accept \/ AcceptError \/ Check

Worker(w) ==
  \/ Receive(w) \/ Login(w) \/ Profile(w) \/ SessionEnd(w) \/ TunnelPanic(w)
  \/ Release(w) \/ Report(w) \/ \E x \in Workers : MapRace(w, x)

Next ==
  \/ Listener
  \/ \E c \in Conns : Client(c)
  \/ \E w \in Workers : Worker(w)

Spec == Init /\ [][Next]_vars

\* A client may keep the worker that serves it for as long as it likes if it
\* keeps sending, sends nothing at all, or has jammed its connection; without a
\* timeout it need only stay.
Keeps(c) ==
  \/ c \in jammed
  \/ c \notin gone /\ ~(Timeout /\ c \in spoken \cap quiet)

\* Goroutines that can run do run, and a deadline passes for a client that has
\* said something and falls silent.  Nothing obliges a client to speak, to fall
\* silent or to leave, nor AbuseIPDB to answer (http.Get has no timeout).  No crash
\* is sure to come.
Fairness ==
  /\ WF_vars(Accept) /\ WF_vars(Check)
  /\ \A w \in Workers : WF_vars(
       \/ Receive(w) \/ Profile(w) \/ Release(w)
       \/ ~Keeps(serving[w]) /\ (Login(w) \/ SessionEnd(w)))

FairSpec == Spec /\ Fairness

-----------------------------------------------------------------------------
(* Properties.                                                             *)

TypeOK ==
  /\ up \in BOOLEAN
  /\ backlog \in Seq(Conns)
  /\ held \in Conns \cup {None}
  /\ listener \in {"accept", "check", "send"}
  /\ worker \in [Workers -> WorkerPCs]
  /\ serving \in [Workers -> Conns \cup {None}]
  /\ conn \in [Conns -> {"new", "backlog", "open", "closed"}]
  /\ spoken \subseteq Conns /\ quiet \subseteq Conns
  /\ gone \subseteq Conns /\ jammed \subseteq Conns
  /\ count \in [Hosts -> Nat]

OpenConns == {c \in Conns : conn[c] = "open"}

\* An accepted connection that is still open is in exactly one pair of hands:
\* the accept loop's or one worker's.  None leaks, none is served twice.
OneOwner ==
  /\ \A c \in OpenConns :
       \/ held = c /\ \A w \in Workers : serving[w] # c
       \/ held # c /\ \E w \in Workers :
            serving[w] = c /\ \A x \in Workers \ {w} : serving[x] # c
  /\ held # None => held \in OpenConns
  /\ \A w \in Workers : worker[w] \in {"login", "ok", "session"} => serving[w] \in OpenConns

\* However many clients connect, the workers and the accept loop's one held
\* connection bound the connections that are open: config.yaml, "Max
\* connections the server can allowed simultaneously", plus one.
Server == INSTANCE BoundedServer WITH
  Limit  <- Cardinality(Workers) + 1,
  alive  <- up,
  opened <- OpenConns,
  shut   <- {c \in Conns : conn[c] = "closed"}

StaysBounded == Server!Spec

\* A worker that need not come free: a client keeps it, or its report is not
\* answered.
Held(w) ==
  \/ worker[w] \in {"login", "session"} /\ Keeps(serving[w])
  \/ worker[w] = "report"

\* A client that connects is served, or turned away, in the end, unless the
\* process crashes or there comes a time from which every single worker is held
\* for ever: as long as one of them is not, the accept loop is never blocked for
\* good, and nobody in the backlog is passed over.
EveryoneServed == \A c \in Conns :
  conn[c] = "backlog" ~>
    \/ ~up \/ conn[c] = "closed" \/ \E w \in Workers : serving[w] = c
    \/ [](\A w \in Workers : Held(w))

=============================================================================
