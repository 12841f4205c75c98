-------------------------------- MODULE Login --------------------------------
(***************************************************************************)
(* Authentication (ssh.go, PasswordChallenge and the callbacks that        *)
(* NewServer and CreateSessionHandler put into the ssh.ServerConfig).      *)
(*                                                                         *)
(* Every worker stores a fresh password callback, with its own count of    *)
(* tries, in the one ServerConfig that all workers share, and               *)
(* ssh.NewServerConn then copies the configuration: between the two steps  *)
(* another worker may have stored its own.                                 *)
(*                                                                         *)
(* Accounts (os/account.go, and NewSystem of os/sys.go): who is logged in  *)
(* and opens a shell or runs a command gets an account if it has none, in  *)
(* two maps that all logins and sessions use without a lock.               *)
(***************************************************************************)
EXTENDS Integers, FiniteSets

CONSTANTS
  Conns,       \* connections
  Names,       \* user names clients log in with
  IdOf,        \* the passwd file: the user id of each listed name
  FreshIds,    \* ids that CreateUser draws from, 1000 to 1014
  Chans,       \* session channels of a connection
  MaxTries,    \* server.maxTries
  Configs,     \* settings of server.allowRetryLogin, allowRandomUser and
               \* maxConnections, which is the number of workers
  None         \* no callback, no name, no id

Listed   == DOMAIN IdOf
Ids      == {IdOf[n] : n \in Listed} \cup FreshIds
Sessions == Conns \X Chans

ASSUME LoginAssumption ==
  /\ IsFiniteSet(Conns)
  /\ Listed \subseteq Names /\ IdOf \in [Listed -> Ids]
  /\ \A m, n \in Listed : IdOf[m] = IdOf[n] => m = n
  /\ MaxTries \in Nat
  /\ Configs \subseteq [retry : BOOLEAN, random : BOOLEAN, workers : Nat \ {0}]
  /\ None \notin Conns \cup Names \cup Ids

VARIABLES
  config,    \* the setting this server runs with
  pc,        \* where the worker of each connection is
  shared,    \* sshConfig.PasswordCallback, named by the connection it was made for
  callback,  \* the callback in the connection's copy of the configuration
  tries,     \* triesLeft of each callback
  saw,       \* the value of triesLeft that an attempt has read
  counted,   \* wrong passwords each callback has turned down (history)
  failures,  \* failed attempts x/crypto/ssh has counted on each connection
  name,      \* the name the connection is logged in with
  right,     \* the password it was accepted with was the name's own
  plain,     \* the client has tried nothing but passwords of names it may use
  mapping,   \* usernameMapping: the id of each name that has an account
  users,     \* users: the name of each id
  sys,       \* how far NewSystem of each session is
  uid,       \* the id a session is creating an account with, then System.userId
  given      \* the ids CreateUser has given, a history variable

login    == <<config, shared, callback, tries, saw, counted, failures, name, right, plain>>
accounts == <<mapping, users, sys, uid, given>>
vars     == <<login, pc, accounts>>

Retry    == config.retry
Known(n) == mapping[n] # None
MayUse(n) == Known(n) \/ config.random

PCs == {"new", "made", "auth", "count", "in", "refused", "left"}
SysPCs == {"none", "create", "store", "read", "ready"}

\* The library reads 0 as its own default.
MaxAuthTries == IF MaxTries = 0 THEN 6 ELSE MaxTries

Init ==
  /\ config \in Configs
  /\ pc       = [c \in Conns |-> "new"]
  /\ shared   = None
  /\ callback = [c \in Conns |-> None]
  /\ tries    = [c \in Conns |-> MaxTries]
  /\ saw      = [c \in Conns |-> 0]
  /\ counted  = [c \in Conns |-> 0]
  /\ failures = [c \in Conns |-> 0]
  /\ name     = [c \in Conns |-> None]
  /\ right    = [c \in Conns |-> FALSE]
  /\ plain    = [c \in Conns |-> TRUE]
  /\ mapping  = [n \in Names |-> IF n \in Listed THEN IdOf[n] ELSE None]
  /\ users    = [i \in Ids |-> IF \E n \in Listed : IdOf[n] = i
                              THEN CHOOSE n \in Listed : IdOf[n] = i ELSE None]
  /\ sys      = [s \in Sessions |-> "none"]
  /\ uid      = [s \in Sessions |-> None]
  /\ given    = {}

Served == {c \in Conns : pc[c] \in {"made", "auth", "count", "in"}}

\* Mutated MakeCallback: one callback is made for the whole server.
MakeCallbackOnce(c) ==
  /\ pc[c] = "new" /\ Cardinality(Served) < config.workers
  /\ pc' = [pc EXCEPT ![c] = "made"]
  /\ shared' = IF shared = None THEN c ELSE shared
  /\ UNCHANGED <<config, callback, tries, saw, counted, failures, name, right, plain, accounts>>

\* CreateSessionHandler receives the connection and stores its callback.
MakeCallback(c) ==
  /\ pc[c] = "new" /\ Cardinality(Served) < config.workers
  /\ pc' = [pc EXCEPT ![c] = "made"]
  /\ shared' = c
  /\ UNCHANGED <<config, callback, tries, saw, counted, failures, name, right, plain, accounts>>

\* ssh.NewServerConn copies the configuration, whatever it holds by now.
CopyConfig(c) ==
  /\ pc[c] = "made"
  /\ pc' = [pc EXCEPT ![c] = "auth"]
  /\ callback' = [callback EXCEPT ![c] = shared]
  /\ UNCHANGED <<config, shared, tries, saw, counted, failures, name, right, plain, accounts>>

\* The library goes on while the failures have not reached the limit.
Asked(c) == pc[c] = "auth" /\ failures[c] < MaxAuthTries

\* "none" as the first attempt is free.
TryNone(c) ==
  /\ Asked(c)
  /\ failures' = [failures EXCEPT ![c] = IF @ = 0 THEN 0 ELSE @ + 1]
  /\ plain' = [plain EXCEPT ![c] = failures[c] = 0 /\ @]
  /\ UNCHANGED <<config, pc, shared, callback, tries, saw, counted, name, right, accounts>>

\* PublicKeyCallback rejects every key.
TryKey(c) ==
  /\ Asked(c)
  /\ failures' = [failures EXCEPT ![c] = @ + 1]
  /\ plain' = [plain EXCEPT ![c] = FALSE]
  /\ UNCHANGED <<config, pc, shared, callback, tries, saw, counted, name, right, accounts>>

Accept(c, n, ok) ==
  /\ pc' = [pc EXCEPT ![c] = "in"]
  /\ name' = [name EXCEPT ![c] = n]
  /\ right' = [right EXCEPT ![c] = ok]

\* The try counts, and the tries that are left have been read by now.
CountIt(c) ==
  /\ pc' = [pc EXCEPT ![c] = "count"]
  /\ saw' = [saw EXCEPT ![c] = tries[callback[c]]]
  /\ UNCHANGED <<name, right>>

\* PasswordChallenge on the password of n.
RightPassword(c, n) ==
  /\ Asked(c) /\ Known(n)
  /\ Accept(c, n, TRUE)
  /\ UNCHANGED <<config, shared, callback, tries, saw, counted, failures, plain, accounts>>

\* Mutated WrongPassword: the test of the name is gone.
WrongPasswordOfAnyone(c, n) ==
  /\ Asked(c) /\ n \in Names
  /\ IF Retry /\ tries[callback[c]] # 1
     THEN CountIt(c)
     ELSE Accept(c, n, FALSE) /\ UNCHANGED saw
  /\ UNCHANGED <<config, shared, callback, tries, counted, failures, plain, accounts>>

\* Mutated WrongPassword: the last try is the one that finds no try left.
WrongPasswordAtZero(c, n) ==
  /\ Asked(c) /\ MayUse(n)
  /\ IF Retry /\ tries[callback[c]] # 0
     THEN CountIt(c)
     ELSE Accept(c, n, FALSE) /\ UNCHANGED saw
  /\ UNCHANGED <<config, shared, callback, tries, counted, failures, plain, accounts>>

\* Mutated WrongPassword: the last two tries are let in.
WrongPasswordAtTwo(c, n) ==
  /\ Asked(c) /\ MayUse(n)
  /\ IF Retry /\ tries[callback[c]] > 2
     THEN CountIt(c)
     ELSE Accept(c, n, FALSE) /\ UNCHANGED saw
  /\ UNCHANGED <<config, shared, callback, tries, counted, failures, plain, accounts>>

WrongPassword(c, n) ==
  /\ Asked(c) /\ MayUse(n)
  /\ IF Retry /\ tries[callback[c]] # 1
     THEN CountIt(c)
     ELSE Accept(c, n, FALSE) /\ UNCHANGED saw
  /\ UNCHANGED <<config, shared, callback, tries, counted, failures, plain, accounts>>

\* triesLeft-- is not synchronised: it may use the value read before.
CountTry(c) ==
  /\ pc[c] = "count"
  /\ \E v \in {saw[c], tries[callback[c]]} :
       tries' = [tries EXCEPT ![callback[c]] = v - 1]
  /\ counted' = [counted EXCEPT ![callback[c]] = @ + 1]
  /\ failures' = [failures EXCEPT ![c] = @ + 1]
  /\ pc' = [pc EXCEPT ![c] = "auth"]
  /\ UNCHANGED <<config, shared, callback, saw, name, right, plain, accounts>>

\* A name that is neither listed nor let in as a random user.
UnknownName(c, n) ==
  /\ Asked(c) /\ ~MayUse(n)
  /\ failures' = [failures EXCEPT ![c] = @ + 1]
  /\ plain' = [plain EXCEPT ![c] = FALSE]
  /\ UNCHANGED <<config, pc, shared, callback, tries, saw, counted, name, right, accounts>>

\* The library ends a handshake with too many failures.
Disconnect(c) ==
  /\ pc[c] = "auth" /\ failures[c] >= MaxAuthTries
  /\ pc' = [pc EXCEPT ![c] = "refused"]
  /\ UNCHANGED <<config, shared, callback, tries, saw, counted, failures, name, right, plain, accounts>>

\* The client leaves, before or after it has logged in.
Leave(c) ==
  /\ pc[c] \in {"auth", "in"}
  /\ pc' = [pc EXCEPT ![c] = "left"]
  /\ UNCHANGED <<config, shared, callback, tries, saw, counted, failures, name, right, plain, accounts>>

-----------------------------------------------------------------------------
(* NewSystem, called for each session channel at a pty-req, a shell or an  *)
(* exec request.  A session is a pair of a connection and a channel.       *)

Name(s) == name[s[1]]

\* Mutated LookUp: neither NewSystem nor CreateUser looks before it writes.
LookUpNobody(s) ==
  /\ pc[s[1]] = "in" /\ sys[s] \in {"none", "ready"}
  /\ sys' = [sys EXCEPT ![s] = "create"]
  /\ UNCHANGED <<login, pc, mapping, users, uid, given>>

\* IsUserExist
LookUp(s) ==
  /\ pc[s[1]] = "in" /\ sys[s] \in {"none", "ready"}
  /\ sys' = [sys EXCEPT ![s] = IF Known(Name(s)) THEN "read" ELSE "create"]
  /\ UNCHANGED <<login, pc, mapping, users, uid, given>>

\* CreateUser looks again: another session may have made the account.
FoundAfterAll(s) ==
  /\ sys[s] = "create" /\ Known(Name(s))
  /\ sys' = [sys EXCEPT ![s] = "read"]
  /\ UNCHANGED <<login, pc, mapping, users, uid, given>>

\* ... or make it between the second look and this write.  The id is drawn
\* without a look at users.
NameUser(s, i) ==
  /\ sys[s] = "create"
  /\ mapping' = [mapping EXCEPT ![Name(s)] = i]
  /\ uid' = [uid EXCEPT ![s] = i]
  /\ given' = given \cup {<<Name(s), i>>}
  /\ sys' = [sys EXCEPT ![s] = "store"]
  /\ UNCHANGED <<login, pc, users>>

\* Mutated StoreUser: an id that is taken is left to its owner.
StoreUserOnce(s) ==
  /\ sys[s] = "store"
  /\ users' = [users EXCEPT ![uid[s]] = IF @ = None THEN Name(s) ELSE @]
  /\ sys' = [sys EXCEPT ![s] = "read"]
  /\ UNCHANGED <<login, pc, mapping, uid, given>>

StoreUser(s) ==
  /\ sys[s] = "store"
  /\ users' = [users EXCEPT ![uid[s]] = Name(s)]
  /\ sys' = [sys EXCEPT ![s] = "read"]
  /\ UNCHANGED <<login, pc, mapping, uid, given>>

\* The System keeps the id that the name has by now.
ReadId(s) ==
  /\ sys[s] = "read"
  /\ uid' = [uid EXCEPT ![s] = mapping[Name(s)]]
  /\ sys' = [sys EXCEPT ![s] = "ready"]
  /\ UNCHANGED <<login, pc, mapping, users, given>>

NewSystem(s) ==
  LookUp(s) \/ FoundAfterAll(s) \/ StoreUser(s) \/ ReadId(s) \/ \E i \in FreshIds : NameUser(s, i)

\* The maps have no lock: the runtime may stop a process that writes one while
\* another goroutine, of a session or of a login, uses it.
MapRace(s) ==
  /\ \/ sys[s] = "create" /\ \/ \E c \in Conns : pc[c] = "auth"
                             \/ \E t \in Sessions \ {s} : sys[t] \in {"create", "read"}
     \/ sys[s] = "store" /\ \E t \in Sessions \ {s} : sys[t] \in {"store", "ready"}
  /\ pc' = [c \in Conns |-> "left"]
  /\ sys' = [t \in Sessions |-> "none"]
  /\ UNCHANGED <<login, mapping, users, uid, given>>

Next == \E c \in Conns :
  \/ MakeCallback(c) \/ CopyConfig(c)
  \/ TryNone(c) \/ TryKey(c) \/ CountTry(c) \/ Disconnect(c) \/ Leave(c)
  \/ \E n \in Names : RightPassword(c, n) \/ WrongPassword(c, n) \/ UnknownName(c, n)
  \/ \E k \in Chans : NewSystem(<<c, k>>) \/ MapRace(<<c, k>>)

Spec == Init /\ [][Next]_vars

-----------------------------------------------------------------------------
(* Properties.                                                             *)

TypeOK ==
  /\ config \in Configs
  /\ pc \in [Conns -> PCs]
  /\ shared \in Conns \cup {None}
  /\ callback \in [Conns -> Conns \cup {None}]
  /\ tries \in [Conns -> Int] /\ saw \in [Conns -> Int] /\ counted \in [Conns -> Nat]
  /\ failures \in [Conns -> 0..MaxAuthTries]
  /\ name \in [Conns -> Names \cup {None}]
  /\ right \in [Conns -> BOOLEAN] /\ plain \in [Conns -> BOOLEAN]
  /\ mapping \in [Names -> Ids \cup {None}] /\ users \in [Ids -> Names \cup {None}]
  /\ sys \in [Sessions -> SysPCs] /\ uid \in [Sessions -> Ids \cup {None}]
  /\ given \subseteq Names \X FreshIds

\* Whoever is logged in uses a listed name, or random names are let in, even
\* when the callback and its count of tries belong to another connection, and
\* although an account that a session makes lets its name in from then on.
OnlyAdmitted == \A c \in Conns :
  pc[c] = "in" => name[c] \in Listed \/ config.random

Users(b) == {c \in Conns : callback[c] = b}

\* The connection's callback has never been another one's as well.
Alone(c) == callback[c] \in Conns /\ Users(callback[c]) = {c}

\* config.yaml, "Allow client login after they pass max retry count isntead of
\* disconnecting them": a client that sends only passwords of names it may use
\* is never disconnected for its failures, as long as its callback is shared
\* with nobody.  Two that share one may both see two tries left and count past
\* the last.
RetryKeepsPromise == \A c \in Conns :
  Retry /\ plain[c] /\ Alone(c) => pc[c] # "refused"

\* The same sentence: a wrong password is let in only once the client has
\* failed as often as it may, not earlier.
NoEarlyLogin == \A c \in Conns :
  Retry /\ pc[c] = "in" /\ ~right[c] => failures[c] >= MaxTries - 1

\* What is left of it when callbacks are shared and decrements are lost: a wrong
\* password is let in only once its callback has turned down all tries but one,
\* and the client's own if its callback is nobody else's.
TriesUsedUp == \A c \in Conns :
  Retry /\ pc[c] = "in" /\ ~right[c] =>
    /\ counted[callback[c]] >= MaxTries - 1
    /\ Alone(c) => failures[c] >= MaxTries - 1

\* However connections come and go, no more of them ever use one callback than
\* there are workers; with a single worker each has its own.
SharedByWorkers == \A b \in Conns : Cardinality(Users(b)) <= config.workers

\* The accounts of the passwd file outlive the creation of others: a listed
\* name keeps its id, and the id its name unless CreateUser may draw it.
PasswdStays == \A n \in Listed :
  /\ mapping[n] = IdOf[n]
  /\ IdOf[n] \notin FreshIds => users[IdOf[n]] = n

\* whoami, id and ls resolve System.userId to the session's own name, but for
\* the two ways the code has of getting it wrong: another name was given the
\* same id, or the account is in usernameMapping and not yet in users.
WhoAmI == \A s \in Sessions : sys[s] = "ready" =>
  \/ users[uid[s]] = Name(s)
  \/ \E n \in Names \ {Name(s)} : <<n, uid[s]>> \in given
  \/ \E t \in Sessions : sys[t] = "store" /\ uid[t] = uid[s] /\ Name(t) = Name(s)
=============================================================================
