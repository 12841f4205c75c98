# TLA+ models of sshsyrup

sshsyrup is an SSH honeypot: it accepts anybody it is told to accept, offers a
fake shell, SFTP and scp on a virtual filesystem, and records what visitors do.
This directory holds TLA+ models of its concurrent and stateful parts, the TLC
configurations that check small instances of them, and TLAPS proofs of the
properties that matter most.

- `tlc -config Session.cfg MCSessionChannels` checks a run (see *Runs*);
- `tlapm SessionChannelsProofs.tla` checks the proofs of a component;
- `PROJECT.json` maps every definition to the lines it models and lists the
  runs, mutants, hazards, findings and theorems.

## 1. Inventory

| Component | Source | State | Operations | Hard behaviour |
|---|---|---|---|---|
| session channels | `ssh.go` handleNewSession, `os/shell.go` | per channel: request queue, `quitSignal` (capacity 1), shell/sftp/scp goroutines; per connection: `s.sys` | pty-req, shell, subsystem, exec, window-change; end of a program | several goroutines signal one handler that receives once; `s.sys` shared without a lock; panics outside a recover |
| connection pool | `ssh.go` ListenAndServe, CreateSessionHandler, `net/conn.go` IPConnCount | `connChan` (unbuffered), workers, counts per host | accept, check, hand over, serve, release | blocking hand-over, back-pressure, counters, crashes of the main goroutine |
| login | `ssh.go` NewServer, PasswordChallenge | one `ServerConfig` for all workers, `triesLeft` of each callback | none, public key and password attempts | the callback is stored in shared configuration and copied later; unsynchronised counter |
| SFTP server | `sftp/sftp.go` | handle map, end-of-file cache, directory cache, next handle | OPEN, OPENDIR, CLOSE, READ, WRITE, READDIR, MKDIR, … | caches keyed by handle, paging, wrap-around of offsets, panics with files open |
| virtual filesystem | `virtualfs/*.go` | tree of nodes, one buffer and offset per node | make the tree; Open, Stat, Readdir, Read, ReadAt, Close | errors of an entry ignored at start-up; links followed by recursion; nodes shared by all sessions, archive closed early |
| image builder | `cmd/createfs/createFSZip.go` | the archive, the paths to skip | walk a disk, write an entry per path | `SkipDir` on files, paths that cannot be read, names below other starts than the root |
| scp | `os/command/scp.go` | protocol position, current directory, open file | sink (`-t`) and source (`-f`) | error replies, limits, directories, EOF at any point |
| shell commands | `os/sys.go`, `os/command/*.go` | working directory, environment | exec of a command line | panics of a command end the shell |
| throttled connection | `net/conn.go` throttledConntection | token bucket, deadline | Read, Write, Close | the deadline for the next read is set after the last |
| accounts | `os/account.go`, NewSystem of `os/sys.go` | `usernameMapping` and `users`, for all workers | load, look up, create an account for a random name | creation in steps without a lock, ids drawn without a look |
| port forwarding | `ssh.go` handleNewConn | the loop over channel requests; per tunnel a goroutine that dials, then two that copy | session, direct-tcpip and other requests | corrupt requests, dial after the answer, half-closed copies |
| session log | `util/termlogger/*.go` | log file, hooks, start time | Input, Output, Close, upload | closed only if the shell returns |
| abuse reports | `util/abuseipdb/report.go` | `reportMap` | create, add category, upload | map used by all workers without a lock |
| ElasticSearch hook, start-up, generated names | `util/elastichook.go`, `cmd/*`, `sftp/*_string.go` | – | – | input/output or sequential only |

How they interact: the accept loop sends a connection to a worker; the worker
installs a password callback, runs the handshake (`ssh.NewServerConn`), and then
serves the connection's channels until the client leaves. Every session channel
gets a handler goroutine; shell, SFTP and scp run in goroutines of their own and
tell the handler through `quitSignal` that they are over, exec runs in the
handler itself. A session's first pty, shell or command makes an account if its
name has none, and from then on the login knows that name. SFTP and scp of all
sessions share one filesystem: the disk directory of saved files over the
read-only image, which `createfs` has written and the start-up has loaded.

What makes each part correct:

- *channels*: the client is told the result of a program it ran, once; a
  program that ended gets its channel closed; nobody blocks the handler but a
  client that runs several programs at once; a program uses its own channel;
  goroutines and files go away with the client; the process goes down only for
  the reasons that are known.
- *pool*: no accepted connection is lost or served twice, the number of open
  ones is bounded, everybody in the backlog is taken as long as a worker comes
  free.
- *login*: who is let in may be; tries are counted, and those of a callback that
  is not shared as config.yaml says.
- *SFTP*: a handle keeps its meaning until it is closed; caches die with it;
  files do not outlive the session; listings and downloads are complete;
  uploads stay within the limit.
- *scp*: what a side was told is stored is there, in its place; both keep the
  same place in the conversation; neither waits for ever.
- *accounts*: the accounts of the passwd file stay; a session finds its own name.
- *forwarding*: only what the setting allows is dialled; data gets through; a
  request, a slow dial or a host that closes harms no other channel.
- *image*: it is the disk it was made of; a lookup ends at the right node.

## 2. Modules

| Module | Models | Uses |
|---|---|---|
| `SessionChannels` | the handler, shell, SFTP and scp goroutines of the channels of one connection | `ChannelContract` |
| `ChannelContract` | what a client may rely on: idle, open, gone, or stuck if it runs programs together; one report, of a result | |
| `ConnPool` | accept loop, workers, per-host counts, the report map | `BoundedServer` |
| `BoundedServer` | a server with at most `Limit` connections open, each opened and shut once | |
| `Login` | handshakes of several workers over one shared configuration, and the accounts that sessions make | |
| `ScpSink` | the receiving side of scp (`scp -t`) and a client that uploads | |
| `ScpSource` | the sending side (`scp -f`) and a client that downloads | `Paths` |
| `VirtualFS` | `createfs`, the loading of the image, and the lookups in it | `Paths` |
| `Paths` | paths, the order of a walk, and `strings.HasPrefix` on paths | |
| `PortForward` | the loop over the channel requests of a connection, and its tunnels | |
| `SftpServer` | the request loops of several SFTP sessions over shared files | |
| `MC…` | the sets and model values of the runs | the module of that name |
| `…Proofs` | the theorems of that component | the module of that name, TLAPS |

### SessionChannels

`reqs`, `stdin` and `link` are what x/crypto/ssh delivers of the client;
`handler`, `shell`, `sftp`, `scp` are program counters of the goroutines,
`quit` is the buffer of `quitSignal`, and `sys` is the field `s.sys` (named by
the channel whose System it is). `io[c]` is the channel that the shell or
command of channel `c` really uses. Three variables are histories: `asked`, how often the
client has requested each program, `eager`, that it resized a shell it had asked
for before the prompt, and `outcome`, the first result of each program. A shell
that ends without telling anybody has the result `Lost`.

Each case of the `switch req.Type` is a `Take…` action. "shell" takes two steps
(`TakeShell`, `StartShell`) because `s.sys` is tested at line 155 and read again
at line 159. The deferred functions of the SFTP loop are the `SftpSignal` steps
in the order Go runs them: the loop's signal, then `cleanUp`, which always
signals 1. `Signal` blocks on a full buffer as the Go channel does. Panics that
no `recover` covers set `up` to FALSE.

A client may ask for a shell, SFTP and scp once each on a channel, which bounds
the model, and for exec as often as it likes, in any order and together with
them; it may resize at any time. Its input is of four sorts: `work`, `exit` (also
Ctrl-D on an empty line, which `terminal.ReadLine` returns as EOF), `crash` (a
line or packet whose handling panics) and `paste` (a line pasted in brackets,
with which `ReadLine` returns an error that is not EOF). `ShellReadError` is
taken for such a line, or when the connection breaks; it leaves the loop at
shell.go:66 with no signal. `Faults` switches on a session log that cannot be
created, scp of a missing path, and payloads under four bytes.

The places where the process goes down are places of the program counters
(`short`, `noterm`, `nolog`, `nofile`), so that `CrashHasCause` can tell them
apart; `up` alone, and `Crash` of `ChannelContract`, allow any of them at any
time. Likewise `Stuck` is a handler in its own send with a full buffer.

### ConnPool

`Check` is the per-host test between Accept and the send on `connChan`, `Receive`
the rendezvous. `IncCount` is `UNCHANGED` because that is what the code does (it
returns `m[ip] - 1` without storing). `Login` succeeds or fails only once the
client has sent something or left: the first read of a connection has no
deadline. After it every read sets the deadline for the next, so a client that
goes on sending is never cut off; `quiet` are the clients that have stopped for
good. `SessionEnd` may come at any pause, but is sure to come only for a client
that has gone or is quiet after it has spoken (`Keeps`). `jammed` are connections
with more than sixteen unread requests on a channel whose handler takes none (it
has returned, or is stuck in `SessionChannels`): x/crypto/ssh then waits for room
and reads the connection no further, so neither a deadline nor the client's
leaving ends it. `MapRace` is the Go runtime's reaction to concurrent use of
`reportMap`; it is possible whenever one worker writes while another one reads
or writes. x/crypto's mux closes its queue of channels just before it closes the
connection; `SessionEnd` does both in one step.

### Login

A worker stores its callback (`MakeCallback`), and `NewServerConn` copies the
configuration (`CopyConfig`): in between another worker may store its own. An
attempt with a wrong password tests `triesLeft` (`WrongPassword`) and decrements
it (`CountTry`) in two steps, with a value that may be stale, as it is in a data
race. The library's own limit on failures is external code, modelled from its
use: it asks again while `failures < MaxAuthTries`. The settings
`allowRetryLogin`, `allowRandomUser` and `maxConnections` (`config.workers`) are a
variable that never changes, so that one run covers them all. `counted` is a
history variable: the passwords each callback has turned down. `Users(b)` are
the connections that have copied callback `b`, and a connection is `Alone` while
no other one has copied its callback.

The accounts are two functions, `mapping` (`usernameMapping`) and `users`. A
session is a connection and one of its channels. `NewSystem` is five steps:
`LookUp`, then for an unknown name the second look of `CreateUser`
(`FoundAfterAll`, or on to `NameUser`), the two map writes `NameUser` and
`StoreUser` with an id drawn from `FreshIds` whoever has it, and `ReadId`, after
which `uid` is the id the session goes on with. `RightPassword` and
`WrongPassword` read `mapping` as it is by then, so a name that was random once
has an account at the next login. `given` is a history variable, the ids
`CreateUser` gave to each name. `MapRace` is the runtime's reaction to two
goroutines in one map: it ends all connections.

### SftpServer

One action per request type, with the answer in `reply`. Offsets and lengths are
in blocks, `Width` stands for 2^64 and `Half` for 2^63. Files are either on the
disk (`Files`), in the image (`Image`), or directories that clients make
(`NewDirs`); the three are disjoint sets of names under one directory. `got` and
`listed` are history variables: how far a client that reads a file in order has
come, and the entries it has received. `ReadNode` is a READ of an image file: the archive is closed as soon as
the tree is built (`virtualfs/filesystem.go:35`), so the buffer stays empty, the
read fails at offset 0 and panics beyond it; `cleanUp` recovers.

### ScpSink

`sinkMode` and one client over a channel of tokens: a command line, a block of a
file's data, or the zero byte behind a file. The client does what the protocol
asks: it sends one command, waits for the reply byte, and sends the data after
the OK to its C. It enters a directory when its D was answered with OK, leaves
only directories it has entered, and may go at any point, which cuts the stream
anywhere.

The branches of the `switch cmd[0]` are actions; C is split where the code waits
for data: `FileCommand` up to the reply, `CopyBlock` for each block of
`io.CopyN`, `FileEnd` for the byte that is discarded. Every call of the disk may
fail: the file cannot be opened, the directory cannot be made, a write fails.
`Garbage` is a line that starts with data, which the server meets after a failed
write or when the stream was cut.

`stored` is a history variable, what the client has been told is stored.
`spoilt` is another: it turns TRUE when a directory was refused, because the
server has then already moved into it (line 137 before 138), or when a write has
failed, because the rest of the data is then read as commands. After either the
two sides are out of step, and the properties of the conversation are stated up
to there; `FilesWithinLimit`, `SinkReturns` and `TypeOK` go on holding.

Left out: negative sizes, names with spaces or `..`, data that happens to look
like a command line, and an empty line.

### ScpSource

`sourceMode` with `sendFile`, and a client that receives as scp does. `at` is
where the server is in the callback of `afero.Walk`; `todo` is the rest of the
walk, `here` its `cwd`, `unsent` the write buffer. `Climb` compares the next path
with `cwd` as text (`TextPrefix`: "lib64" begins with "lib") and puts one E into
the buffer, which goes out with whatever is flushed next. A reply is read one
command late, because the greeting of the client is never read; so
`ClimbReply` finds one at hand although E has not left. After the walk, or after
it was given up, `Up` sends an E for each level.

The client greets, answers D and E once and C twice, may refuse anything, may
fail to store a file and may go at any point. While it waits for data it takes
whatever comes for data. `deep` is the option `-r`, and `dot` says that the path
is ".", which begins no path below it.

### VirtualFS

Three parts with one `phase` after the other. In `build`, `createfs` walks a
disk and appends entries to `archive`: `SkipEntry` is `SkipDir`, which for a file
ends its directory; at the paths in `failing` Lstat, Readdirnames or Readlink
fails, and `LeaveOut` writes nothing and enters nothing, while a link that cannot
be read is written with an empty target (`EmptyLink`). The empty start stands for
`-p /` and for `-p .`, whose names are those of the image. In `load`, `Put`, `Drop` and
`PanicBelowFile` are the three ways `createNode` ends for an entry: stored,
an error nobody looks at, a nil map. In `serve`, a lookup is asked for and
`fetchNode` runs: `stack` is its recursion, one record per call with the node it
is at (`cwd`), the names that are left and whether it has followed the link `cwd`
was. `Follow` calls it again with the link's target, `Return` continues the
caller at what was found, which is what the assignments to `cwd` in the loop do.
`Overflow` is the end of the Go stack. Archives of other programs start at
`load`, with entries in any order.

### PortForward

`asked` are the client's channel requests and `handled` how many the loop has
taken; each taken request is one step, `PassOn`, `Refuse`, `Panic`, `Grant` or
`Stumble`, by the branches of the loop. A request that is not `whole` has been
rejected as corrupt and goes on through the same branches, since there is no
`continue`. `Nowhere` is the target of a payload that ends before the port: port
0. A granted request starts a goroutine, `Dial`, whose failure comes after the
answer and changes nothing; without a channel its success is a nil dereference.
A joined tunnel has two copies, `outgoing` to the host and `incoming` from it,
that end on their own. Either end may stop reading (`HostStalls`,
`ClientStalls`): the copy to it then waits in `Write`, which has no deadline,
until that end closes. A client that reads nothing of its whole TCP connection,
so that replies block as well, is left out.

## 3. Runs

| Run | What it asks | Bounds, and why they are enough |
|---|---|---|
| `Session` | all properties of one channel, safety and liveness | one channel, 4 messages: pty, shell, an input and a resize; a program, its input and two later execs; all programs together. Two signals meet a buffer of one, and a third finds it full again |
| `SessionFaults` | what takes the process down, and is every step one of `ChannelContract`? | two channels with two messages each: one crash ends both; every fault is switched on |
| `SessionCross` | do two channels keep apart? (violated) | two channels, two messages each |
| `SessionRecording` | is the session log closed? (violated) | one channel, 3 messages |
| `Pool` | ownership and bound with crashes, and is everybody taken? | 4 connections, 2 workers, 2 hosts: two more connections than workers, one of them held by the accept loop and one in the backlog; all faults on. The connections come in the order of their numbers: a client has no identity before. Only the first may jam its connection and only the second fall silent for good, which is enough to hold both workers in different ways; any may go on sending or never begin |
| `Login` | login and accounts, all settings | 2 connections, one after the other or at once with one or two workers, so that callbacks are shared and accounts are made by two sessions of one name and of two; 3 names: root (id 0), testuser (1000, which `CreateUser` may draw), and one that is not listed; 2 ids to draw; 3 tries |
| `LoginShared` | is nobody let in before the own tries are used up? (violated) | as above with two workers and `allowRetryLogin` |
| `Sftp` | all SFTP properties | 2 sessions, 4 requests in all: open, close, open again, and a request through the new handle, or a listing to its end, with the other session in between; pages of two in a directory of one to three entries (a partial page, one full page, a full and a partial one); lengths of 1 and 2, every offset below `Width` = 4, so that sums wrap and `int64` turns negative |
| `Scp` | all properties of an upload, and of a download | upload: 5 commands: enter a directory, a file in it, leave, the file again; one file name in nested directories of two names; sizes 0, 2 and 3 with a limit of 2: empty, exactly the limit, one more; every refusal and failing write, and the client may leave at each step. Download: with and without `-r`, by name and as ".", of six trees: steps up from a full and an empty directory, two steps up at once, a sibling whose name begins with the directory's, an empty tree and a single file |
| `Forward` | all properties of tunnels | 2 requests, so that one may be dialled while the other is taken, each of any kind, whole or not, to a mapped port, another one or none; one block in each direction; the four values of the setting; one tunnel at a time carries data or has an end that stops reading, since tunnels share nothing |
| `Image` | the image from disk to lookup | 5 disks with links to directories and through links, circles, relative links, links to links, and a link that leads through another to a link; two starts, five sets of skipped paths and four of unreadable ones; 5 archives with entries in a wrong order, below a file, below a link and twice; every path of up to 3 of 3 names. Five calls and eight rewritings are more than any lookup of these disks needs that ends |
| `SftpAppend` | the upload limit with appending handles (violated) | 1 session, 3 requests |

`Sftp` uses the symmetry of the sessions and checks safety only. The type
invariants are proved for all constants (section 5), so the runs do not repeat
them.
Deadlock checking is off in all runs: clients need not do anything and the
numbers of messages, connections and requests are bounded, so every model stops.

What the passing runs show:

- **`ExitStatusIsOutcome`**: although SFTP signals twice and the second signal
  is always 1, and a shell signals at each `exit` and again at EOF, the status
  sent is the first result of a program of the channel, and with one program
  that program's. It depends on the order of deferred calls and on the capacity
  of one.
- **`StuckHasCause`**: exec sends on the channel that its own goroutine receives
  from. With one program per channel, as RFC 4254 demands, there is always room;
  nothing in the server enforces that, and with two the handler does get stuck
  in the run: the property says that nothing else makes it.
- **`CrashHasCause`**: the process goes down over a short payload, a session log
  that fails, scp of a missing path, and a window-change that the client sent
  after it asked for the shell and before the terminal was there. A client that
  waits for the prompt is safe, and so is one that resizes before it asks.
- **`KeepsContract`, `KeepsContractFairly`**: refinement of `ChannelContract`;
  the fair one says that a program that ended with a result gets its channel
  reported and closed, unless the client closes first or two programs have made
  the channel stuck. A shell that a read error ended is `Lost`: its channel
  stays open. `Crash` is always allowed in the contract; `CrashHasCause` says
  when it comes.
- **`FilesReleased`, `ScpReturns`**: after the client has gone the SFTP files
  are closed and scp returns, even though the handler has returned and nobody
  receives from `quitSignal` any more. Each must be alone on its channel: behind
  another program's signal its first send blocks.
- **`OneOwner`, `StaysBounded`**: an open connection is in one pair of hands; at
  most one more than there are workers is open. A crash is always allowed in
  `BoundedServer`.
- **`EveryoneServed`**: no client waits in the backlog for ever while the process
  lives, unless there comes a time from which every worker is held: by a client
  that keeps sending, that has never sent anything, that has jammed its
  connection, or by AbuseIPDB, whose answer has no timeout. One worker that is
  not held is enough. Without the deadline of `net/conn.go` it fails (the mutant).
- **`OnlyAdmitted`**: while sessions make accounts that the login then finds, and
  however callbacks are shared.
- **`RetryKeepsPromise`, `TriesUsedUp`, `SharedByWorkers`**: what is left of
  `config.yaml:30` when workers share callbacks. A client that sends only
  passwords is not disconnected while its callback is its own. Nobody is let in
  with a wrong password before the callback has turned down all tries but one,
  and they are the client's own if nobody shares it. And a callback has at most
  as many users as there are workers, so with one worker each has its own and
  both halves of the promise hold. When one is shared, both fail: `LoginShared`
  shows the sharing and the early login; `RetryKeepsPromise` without `Alone` is
  violated by the same sharing, two connections that see two tries left and
  together step past one.
- **`PasswdStays`**: no account that is made, by however many sessions at once,
  takes the name of one of the passwd file, nor its id unless `CreateUser` may
  draw it. testuser's 1000 is such an id.
- **`WhoAmI`**: the id of a session leads back to its name, except in two ways
  the property names: the id was given to another name too, or the name's entry
  in `users` is still to be written.
- **`CachesOfOpenHandles`, `HandlesKeep`, `NoFileLeft`, `ListingIsDirectory`,
  `DownloadIsComplete`, `UploadsWithinLimit`**: the SFTP properties of section
  1. `ListingIsDirectory` holds although the end is tested with `>` instead of
  `>=`: an exact multiple of the page costs an empty page, no entry.
- **`StoredFilesAreThere`, `RepliesInTurn`, `CommandsAnswered`**: client and
  server keep the same directory and the same place in the conversation through
  nested directories, refused files, bad lines and files sent again, although C
  is answered twice and `FileEnd` can send two replies at once (only when the
  client has gone).
- **`FilesWithinLimit`**: also after a failed write, when data and commands are
  mixed up.
- **`SinkReturns`**: `sinkMode` returns once the client has gone, wherever it
  was; the sessions' model assumes this (`ScpFinish`).
- **`FilesInPlace`, `AllArrived`**: in a tree that is left one directory at a
  time, and in which no name begins the next sibling's, every file that arrives
  is where it belongs, whatever is refused or unreadable; and if nothing is, all
  arrive and every directory is left. That replies are one command old does no
  harm here: what was announced after a refusal never gets its data.
- **`SourceReturns`**: for every tree and client `sourceMode` returns, with the
  one exception that after a file could not be read both sides wait until the
  client goes.
- **`TunnelsAsConfigured`, `CrashesHaveCause`**: no tunnel without a setting
  that allows it, and nothing but a granted tunnel carries data. The process goes
  down for two reasons only: an unmapped port, and a dial that succeeds for a
  request that has no channel because it was corrupt or its client had gone.
- **`RequestsAnswered`, `TunnelsCarry`, `CopiesEnd`**: a dial holds up no other
  request; what is sent before one end closes still arrives if the other end
  reads; each copy ends with its own sender, and neither with the other, unless
  it holds data for an end that neither reads nor closes, for ever.
- **`EntriesKept`**: although the errors of entries are ignored, the image has
  all entries that follow their directories, and for each name the last node the
  archive gives it.
- **`ImageIsDisk`**: written by `createfs` from / or . the image has nothing that
  `-k` names. Nothing else is missing but what cannot be read and what the test of
  line 126 takes along: paths with a name that begins with a skipped one, and what
  follows a skipped file in its directory. Of other starts it says nothing
  (section 4).
- **`LookupsResolve`, `LookupsEnd`, `DownHasCause`**: the recursion finds what
  replacing the links one by one finds, in an image whose links are absolute and
  lead to no link, be it through others; a lookup ends, or ends the process,
  which takes a path with as many rewritings as the stack has room for.

### Fairness

- goroutines that can run do run (`WF` per goroutine; the Go scheduler is fair
  to runnable goroutines);
- a client reads what it is sent, so that a program is not stuck in a write; it
  need not send anything, nor leave. scp is only sure to end once its channel is
  closed, and the fairness of `ScpFinish` says just that;
- in `ScpSink`, `sinkMode` runs (`WF` of `Server`) and a client that waits reads
  its replies (`WF` of `ClientReply`); it need not send a command nor leave;
- in `ScpSource`, `sourceMode` runs and the client reads what it is sent; it need
  not stay;
- in the pool, accept loop and workers run, and a session ends whose client has
  gone, or has spoken and is quiet while there is a timeout. Nothing obliges a
  client to speak, to pause or to leave, nor AbuseIPDB to answer. No crash is
  fair: the panics and the map race may happen and need not;
- in `PortForward`, the loop and the dials run, and a dial ends (`net.Dial` has
  the timeout of the operating system); a copy goes on while the end it writes to
  reads or has closed. Neither the client nor the host need read, send or close;
- in `VirtualFS`, a lookup that has begun runs; it waits for nothing.

No strong fairness is used: the `select` of the handler may prefer either case,
and `KeepsContractFairly` holds because requests run out.

## 4. Findings

Each has a run that TLC finds violated:

- **`SessionCross`** – `s.sys` belongs to the connection, not the channel. A
  shell or command of one channel reads and writes another one.
- **`SessionRecording`** – `exit` signals and the loop goes on; at EOF the shell
  signals again. If nobody receives any more it blocks for ever in the send,
  before the deferred `tLog.Close`, and the recording is never completed.
- **`LoginShared`** – two connections may share one callback and its tries, and
  one is let in before it has used up its own.
- **`SftpAppend`** – the size limit looks at the offset of the request, which an
  appending handle ignores.

Others are visible in the models without a run of their own.

Channels:

- two programs on one channel may stop its handler: an exec after a program that
  has signalled waits for room in a buffer only the handler empties
  (`StuckHasCause`, `ExecSignal`);
- a line that is pasted in brackets ends the shell, but not the channel: the
  client gets no exit status and no prompt (`ShellReadError`);
- a window-change before the terminal is there, a payload under four bytes, a
  session log that cannot be created and scp of a missing path end the process
  (`CrashHasCause`);
- more than sixteen requests on a channel that nobody serves any more stop the
  connection and keep its worker for ever (`Jam`).

Connections and login:

- `IncCount` returns the count without storing it, so the limit of connections
  per host (`maxConnPerHost`) never refuses anybody (`IncCount`, `Check`);
- the read deadline is set when `Read` returns (`net/conn.go:39`), so the first
  read has none, and a client that never sends a byte keeps its worker
  (`config.yaml:20` promises a timeout); nor is there one for a client that never
  stops (`Keeps`). It is counted from the start of the read before, since the
  arguments of a `defer` are evaluated first, so a pause may be cut off before
  the timeout has passed;
- with a shared callback `triesLeft` can step past one unseen, and a client that
  should be let in is disconnected (the other half of `LoginShared`);
- without `allowRetryLogin` a wrong password is accepted for every listed name
  (`WrongPassword`, `ssh.go:421`); the test for the asterisk in that line changes
  nothing;
- with `maxTries` 0 the retry promise has no meaning the configuration explains;
  the proofs assume at least one try;
- two sessions of one random name may give it two ids, and two names may get one
  id, testuser's included: `users` then leads elsewhere (`NameUser`, `WhoAmI`);
- the groups are loaded from the file of user ids (`cmd/syrup/main.go:98`).

SFTP and scp:

- the SFTP goroutine sends two signals into a buffer of one, so after the client
  closed the channel it blocks for ever; its files are closed before
  (`FilesReleased`), only the goroutine leaks;
- the end-of-file entry of a handle is sticky: once met, every later READ at any
  offset answers EOF, also after the file has grown (`Read`, first case);
- the sink enters a directory before it is made: after a D that was refused,
  files go one level deeper for the rest of the upload (`DirCommand`);
- a write that fails leaves the rest of the file in the stream, where it is
  taken for commands, and the file is not closed (`CopyBlock`, `Garbage`);
- an upload that is cut inside a file ends with status 0 (`CopyCut`, `ReadEOF`);
- the source answers any number of steps up with one E, and takes a sibling
  whose name begins with the directory's for its contents: the files behind it
  arrive in the wrong directory (`Climb`). `scp -r .` leaves its root at once;
- a file that cannot be read, as no file of the image can, leaves both sides
  waiting until the client goes (`CopyFails`); a client's error after the data of
  a file is taken for success (`SentReply`).

Port forwarding:

- a corrupt request is rejected and then goes on, for want of a `continue`; if
  the dial succeeds the process ends (`Stumble`). The same happens to a client
  that asks and leaves;
- `Reject` after `Accept` does nothing: the channel to a host that cannot be
  reached stays open and unread (`DialFails`), and so does one goroutine in
  `DiscardRequests(nil)`;
- neither copy closes its other end: a silent host keeps its connection after
  the client went;
- `config.yaml:58` names the value `disabled`, the code tests for `disable`. The
  request is refused all the same, as malformed (`Refuse`).

The image:

- `createfs -p` of another directory than / or . makes an image that loads as
  empty, because line 142 of `createFSZip.go` overwrites the name that line 141
  has trimmed; `createFSZip.go:43` documents `-p` as the starting position
  (`WriteEntry`);
- skipping a file leaves out the rest of its directory, and skipping a name takes
  along every path that begins with its text (`SkipEntry`, `LostWith`);
- a link that cannot be read comes into the image with an empty target, which
  leads to the root (`EmptyLink`);
- an entry of a name that was there replaces it with all it contains (`Put`), and
  one below a file or a link stops the program (`PanicBelowFile`);
- a relative link loses the first name of its target and is taken from the root
  (`NamesOf`); a link to a link is not followed to the end, nor one that leads
  through another to a link; links in a circle
  overflow the stack and end the process; `Open` follows no links, `OpenFile` and
  `Stat` do. The targets of the links in the `filesystem.zip` of the repository
  are empty, so they lead to the root;
- no file of the image can be read, because the archive is closed when
  `NewVirtualFS` returns (`ReadNode` of `SftpServer`).

## 5. Proofs

All theorems are for arbitrary values of the constants, under the `ASSUME`s of
the modules, which TLC evaluates in every run (finite sets of workers and
connections, a bound on messages that fits the library's buffer, a limit below
half the width, …).

**SessionChannelsProofs.** The inductive invariant `IInv` is `TypeOK`, a cause if
the process is down (`CrashedAt`), and, for each channel, six facts. `QueueInv`:
what was not asked for is neither waiting nor begun, and what was asked for once
is not both. `PlaceInv`: a program that has not started has no result, and an
exec that is alone finds the buffer empty. `SignalInv`: while the handler runs,
the signal in the buffer carries a result, or nothing has been signalled and each
program's next signal is its result. `StatusInv` is `ExitStatusIsOutcome`.
`StartInv`: nothing runs on a channel that was not opened, and a shell has a
System. `ResizeInv`: unless the client was eager, no resize waits while the shell
is being started, and none waits behind a request for one. From it `TypeCorrect`,
`StatusIsOutcome`, `StuckForACause`, `CrashesForACause` and `ImplementsContract`
(each step maps to a step of `ChannelContract` or a stutter), for any channels,
programs, inputs and faults.

**ConnPoolProofs.** `IInv` adds to the types what the backlog, the held
connection, and each worker's connection say about `conn`, and that two owners
differ. From it: `PoolTypeCorrect`, `OpenConnHasOneOwner`, and `PoolIsBounded`
(the refinement of `BoundedServer`; the bound is a cardinality argument, an
injection of the open connections into the workers and the accept loop).

**LoginProofs.** `SafeInv` holds for any number of workers: the types, the count
of failures (`CountInv`), and `AccountInv`: every name with an account is one the
configuration admits, a session that makes an account is of no listed name, and
what it is about to store in `users` was drawn from `FreshIds`. It gives
`LoginTypeCorrect`, `LoginAdmits` and `PasswdFileStays`. `IdsLead` adds how an id
leads from `mapping` back to its name, or to one that was given it, and gives
`SessionsKnowTheirName`. `IInv` adds what is true of callbacks, for any number of
workers. `UserInv`: a callback that was not made is used by nobody. `SharerInv`:
the connections that use one, or may copy it yet, are as many as were served at
once, a cardinality argument. `LowInv`: a count, and one that was read before, is
never lower than the passwords it has turned down allow, although decrements are
lost. `FreshInv` and `OwnInv`: the count of a callback that only one connection has
used is that connection's. From it `CallbacksSharedByWorkers`,
`NobodyBeforeTheLastTry` and `RetryPromiseKept`.

**SftpServerProofs.** `IInv` is `TypeOK`, "handles not yet given out are
unused", `CachesOfOpenHandles` and `NoFileLeft`; the freshness of the next handle
is what makes a new one replace none. It gives `SftpTypeCorrect`,
`CachesAreOfOpenHandles`, `SftpLeavesNoFile` and `SftpHandlesKeep`. With no
appending client `LInv` gives `SftpWithinLimit`, for every `Width`: a sum that
wraps comes from an offset the disk refuses. `SftpListings` adds what a client
has received of a directory to the place of its next page: what is listed is the
part before it (`Delivered`, `Paged`), and nothing is listed of a handle that is
not yet given out (`UnlistedInv`). `SftpDownloads` needs no more than
`IInv`: an end-of-file entry is made only by a read that reached the end.

**ScpSinkProofs.** `IInv` has four parts. `Types` adds what the client may be
waiting for. `LimitInv`: a file that is being received was announced within the
limit. `StoredInv`: the file being written does not count as stored, and a
command in the stream is alone in it, so it is executed where it was sent.
`StepInv`: while the client is there, both sides are in one of six phases
(opening, a command sent, a command answered, data under way, data delivered, at
rest), each of which says where the server is and in which directory. From them:
`SinkTypes`, `SinkKeepsLimit` (these need only the first two), `SinkStores` and
`SinkRepliesInTurn`, for any names, sizes and limit.

**ScpSourceProofs.** `SourceTypes`: besides the types, that the server reads an
entry of the walk, and the client takes the last name of a path, only where there
is one. `FilesInPlace` and `AllArrived` need an invariant of the whole
conversation, because the reply that lets `sourceMode` go on is the one to the
command before. `IInv` is `SourceTypeOK` and, in a tree that is left one directory
at a time:

- `Course`: what `sourceMode` has visited is the first part of the walk, and its
  `cwd` and `dirLevel` are those of the entry it is at, whatever the client does.
  That one E is then the right number of them (`OneStep`) needs the order of the
  walk: between a directory and an entry in it there is nothing but what that
  directory contains (`BetweenIsBelow`, `NextEntry`).
- `InStep`: when the client has read the line it is in the directory of the walk
  and has all files that were sent, and one reply is outstanding (`Owed`), at
  first the greeting. For each place of `sourceMode` it lists what can be on the
  line.
- or `Lost`: something was refused or could not be read, and no more data will be
  taken for a file out of its place. Either the client has gone, or data come
  where it expects a command and it goes (`Doomed`), or the error stands behind
  one more reply (`Late`), or the server has stopped or will stop at the next
  reply before it sends data.

From it `FilesArriveInPlace` and `AllFilesArrive`, for any trees, options and
clients. They are silent on other trees, where the code does leave files in the
wrong directory: it sends one E where two directories are to be left, or where none
is, as with ".". They rest on `SourceAssumption`: a tree has one root, each
entry's directory is in it, and the walk visits every path once, a directory
before what it contains and names in order, as `afero.Walk` does. TLC evaluates it
for the trees of the run.

**PortForwardProofs.** `IInv` is `TypeOK`, `TunnelsAsConfigured`,
`CrashesHaveCause` and `BlindInv`: a request that is dialled without a channel was
corrupt, or its client has gone. From it `ForwardTypes`,
`TunnelsFollowTheConfiguration` and `TunnelsCrashForTwoReasons`, for any targets,
map, settings and numbers of requests.

**VirtualFSProofs.** `IInv` says: `Load`, the types of what is written, loaded and
looked up, and that the tree is closed; `Calling`, every call of `fetchNode` is
at a node of the tree; until the process is down, `Kept`, which is `EntriesKept`
for the entries loaded so far, and `FromDisk`, the same for `ImageIsDisk` and the
part of the walk that is done; and once it is down at start-up, the cause. `Kept`
needs that an entry in order has each of its directories before it and once, so
that no later entry removes it. In `FromDisk` each path of the disk is in the
archive, still to come, or gone for one of the causes `ImageIsDisk` names. `FromDisk` needs that the archive is in the order
of the walk, each directory before its contents, so that nothing written replaces
anything. From it `ImageTypes`, `ImageKeepsEntries` and `ImageIsTheDisk`, for any
disks, archives, starts, skipped and unreadable paths (`ImageIsTheDisk` for the
starts / and .).

`Lookup` adds what the calls of a lookup have to do with the path that was asked
for: the first call has come to a rewriting of that path, each further call to
one of the target of the link at which the call before it waits, and what the
rewriting of that target does, that of the whole path does, with the links on the
way counted (`Chain`). So in an image with `Plain` links
every call returns where the rewriting of its path ends, and a stack with no
room left belongs to a path with that many rewritings: `LookupsFindTheNode` and
`DownForTwoReasons`, for any image and any `MaxStack` up to `MaxRewrites`. The
reference `Rewritings` is a recursive function; that it exists and what it does
is proved by induction over sets of numbers (`LeastOfSet`, `InductionOnSet`, from
the library's facts on the well-founded order of finite sets), since an induction
theorem with an operator for a parameter cannot be used. The first form of
`Plain`, links that lead to no link themselves, was too weak for the proof and
wrong: a link that leads through a second one to a third is not followed to the
end. The fifth disk of the run has such a link.

**Only model-checked:** liveness (`KeepsContractFairly`, `FilesReleased`,
`ScpReturns`, `EveryoneServed`, `CommandsAnswered`, `SinkReturns`,
`SourceReturns`, `RequestsAnswered`, `TunnelsCarry`, `CopiesEnd`, `LookupsEnd`),
which the prover cannot do under fairness. Every invariant and every action
property of the runs is the statement of a theorem.

## 6. Not modelled, and why

- Packet layout, request ids, replies to channel requests: data whose wrong form
  no property here distinguishes.
- Relative paths in SFTP and permissions; the fields of `FileInfo`.
- Read and Seek of a node of the image with its buffer and offset: the archive is
  closed before the first read, so no read gets as far as the shared state.
- In the archive: contents, times, the extra fields with owners, and writing that
  fails. Groups and the other fields of an account.
- The formats of the session log and its upload; that its `Close` is reached is
  `RecordingClosed`. The token bucket of a connection, which only delays.
- Exit codes other than zero and non-zero: a command's code is copied.
- What commands print, log messages, ElasticSearch, start-up.
- x/crypto/ssh, afero and the Go runtime are external: modelled from how the
  code uses them (the channel of requests is closed after the queued ones are
  delivered; a second `Close` is harmless; union and disk are libraries).
- In scp: `SourceReturns`, `FilesInPlace` and `AllArrived` are about walks without
  errors (the `err` argument at `scp.go:164` is not modelled), the last two about
  trees that are left one directory at a time; the others are in the model and the
  run, where files do go astray.
- `LookupsResolve` is about images with plain links; relative links and links to
  links are in the run, and lead elsewhere (section 4).
- More than 16 unread requests inside `SessionChannels`; what they do to the
  connection is `Jam` of `ConnPool`.

## 7. Plan

Done in order of importance: channels, pool, login, SFTP, the scp sink, the scp
source, accounts, port forwarding, the image. What is left:

1. both modes of scp as implementations of one abstract transfer;
2. `VirtualFile`: the shared node under concurrent Read, ReadAt, Seek and Close,
   as it would be with an archive that stays open;
3. `ThrottledConn`: the token bucket and the deadlines over several reads;
4. `SessionLog`: hooks between terminal and log, one file per session, Close;
5. replies: one answer per channel request that wants one, as part of the
   channel contract.
