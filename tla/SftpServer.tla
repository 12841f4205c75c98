----------------------------- MODULE SftpServer -----------------------------
(***************************************************************************)
(* The request loop of the SFTP server (sftp/sftp.go): the handles, the    *)
(* end-of-file cache and the directory cache of every session, and the     *)
(* files that all sessions share.  A file is either on the disk, under the *)
(* directory of saved files, or in the image: a node of the zip tree       *)
(* (virtualfs/file.go) that everybody who opens it shares.                 *)
(*                                                                         *)
(* The union of the two (afero.CopyOnWriteFs) and the disk are libraries.  *)
(* Paths are absolute, as clients send them after REALPATH.                *)
(***************************************************************************)
EXTENDS Integers, Sequences, FiniteSets

CONSTANTS
  Sessions,   \* SFTP sessions, each one goroutine
  Files,      \* names on the disk, present or not
  Image,      \* names of regular files in the image
  NewDirs,    \* names of directories that clients make
  Root,       \* the directory that holds all of them
  None,       \* no entry in a map
  Flags,      \* the ways clients open a file, see Open
  Lens,       \* lengths of a READ or a WRITE, in blocks
  Width,      \* 2^64: offsets are below it and sums wrap at it
  Limit,      \* server.receiveFileSizeLimit, 0 for none
  PageSize,   \* entriesPerFetch
  MaxReqs     \* bound on the requests of all sessions

Half == Width \div 2   \* int64(offset) is negative from here on

Absent == -1

\* The flags of an OPEN, reduced to what they do.
Modes == {"read", "write", "append", "trunc", "create"}

Names == Files \cup Image \cup NewDirs \cup {Root}

ASSUME SftpAssumption ==
  /\ IsFiniteSet(Names)
  /\ Files \cap (Image \cup NewDirs) = {} /\ NewDirs \cap Image = {}
  /\ Root \notin Files \cup Image \cup NewDirs
  /\ Flags \subseteq Modes
  /\ Width \in Nat /\ Half \in Nat /\ Width = 2 * Half
  /\ Lens \subseteq 0..Half   \* a uint32
  /\ Limit \in Nat /\ Limit < Half /\ PageSize \in Nat \ {0}
  /\ MaxReqs \in Nat
  /\ None \notin Int /\ None \notin [name : Names, mode : Modes]
  /\ None \notin [off : Nat, names : Seq(Names)]

\* Handles are numbered from 0, so the requests bound them.
Handles == 0..(MaxReqs - 1)

VARIABLES
  pc,       \* "run", or "done" once cleanUp is over
  next,     \* nextHandle
  handles,  \* fileHandleMap: the name and the mode a handle is open in
  eof,      \* fileEOFCache: the file's size when the entry was made
  dirs,     \* dirCache: the entries and the offset of the next page
  size,     \* sizes of the files on the disk
  made,     \* directories that clients have made
  shut,     \* nodes of the image that somebody has closed
  live,     \* number of files the session has open (history)
  got,      \* how much of its file a handle has read, from the start and in
            \* order; Absent once it has read elsewhere (history)
  listed,   \* entries delivered on a handle (history)
  reply,    \* the last request, of any session, and its answer (history)
  reqs      \* number of requests

fileVars == <<size, made, shut>>
mapVars  == <<next, handles, eof, dirs>>
histVars == <<live, got, listed>>
vars == <<pc, mapVars, fileVars, histVars, reply, reqs>>

InMap(s, h) == handles[s][h] # None

Init ==
  /\ pc      = [s \in Sessions |-> "run"]
  /\ next    = [s \in Sessions |-> 0]
  /\ handles = [s \in Sessions |-> [h \in Handles |-> None]]
  /\ eof     = [s \in Sessions |-> [h \in Handles |-> None]]
  /\ dirs    = [s \in Sessions |-> [h \in Handles |-> None]]
  /\ size    \in [Files -> Absent..Limit]
  /\ made    = {}
  /\ shut    = {}
  /\ live    = [s \in Sessions |-> 0]
  /\ got     = [s \in Sessions |-> [h \in Handles |-> 0]]
  /\ listed  = [s \in Sessions |-> [h \in Handles |-> <<>>]]
  /\ reply   = [ses |-> None, op |-> "none", hnd |-> 0, code |-> "none"]
  /\ reqs    = 0

-----------------------------------------------------------------------------
(* The file system under the server.                                       *)

Exists(n) == n \notin Files \cup NewDirs \/ n \in made \/ (n \in Files /\ size[n] # Absent)

\* Opening for writing, or creating, a file of the image copies it to the disk
\* first, which fails because the archive is closed once the tree is built.
MayOpen(n, flag) ==
  CASE flag = "read"   -> Exists(n)
    [] flag = "create" -> n \in Files
    [] OTHER           -> n \in Files /\ Exists(n)

\* Create truncates, and creates for reading and writing, whatever the flags.
Resize(n, flag) ==
  size' = IF flag \in {"create", "trunc"} THEN [size EXCEPT ![n] = 0] ELSE size

\* A WRITE of len blocks at off through a handle opened in a mode.  The offset
\* of a file opened for appending is ignored or refused.
CanWrite(n, mode, off) ==
  n \in Files /\ mode \in {"write", "trunc", "create", "append"} /\ off < Half

Extend(n, mode, off, len) ==
  LET end == IF mode = "append" THEN size[n] + len ELSE off + len
  IN  size' = IF len > 0 /\ end > size[n] THEN [size EXCEPT ![n] = end] ELSE size

\* The entries of the directory, in the order Readdir happens to return.
Entries ==
  LET E == {n \in Names \ {Root} : Exists(n)}
  IN  CHOOSE q \in [1..Cardinality(E) -> E] : \A i, j \in DOMAIN q : q[i] = q[j] => i = j

-----------------------------------------------------------------------------
(* Requests.                                                               *)

\* Session s takes a request and sends the answer.
Answer(s, op, h, code) ==
  /\ pc[s] = "run" /\ reqs < MaxReqs
  /\ reqs' = reqs + 1
  /\ reply' = [ses |-> s, op |-> op, hnd |-> h, code |-> code]
  /\ UNCHANGED pc

\* Mutated NewHandle: the number of open handles names the new one.
NewHandleByCount(s, n, mode) ==
  LET new == Cardinality({h \in Handles : InMap(s, h)})
  IN  /\ handles' = [handles EXCEPT ![s][new] = [name |-> n, mode |-> mode]]
      /\ next' = [next EXCEPT ![s] = @ + 1]
      /\ live' = [live EXCEPT ![s] = @ + 1]
      /\ UNCHANGED <<eof, dirs, got, listed>>

\* The new handle of session s is on n.
NewHandle(s, n, mode) ==
  /\ handles' = [handles EXCEPT ![s][next[s]] = [name |-> n, mode |-> mode]]
  /\ next' = [next EXCEPT ![s] = @ + 1]
  /\ live' = [live EXCEPT ![s] = @ + 1]
  /\ UNCHANGED <<eof, dirs, got, listed>>

\* OPEN.  The error for a missing file is a PathError, never os.ErrNotExist.
Open(s, n, flag) ==
  \/ /\ MayOpen(n, flag)
     /\ Answer(s, "open", next[s], "handle")
     /\ NewHandle(s, n, flag)
     /\ Resize(n, flag)
     /\ UNCHANGED <<made, shut>>
  \/ /\ ~MayOpen(n, flag)
     /\ Answer(s, "open", 0, "failure")
     /\ UNCHANGED <<mapVars, fileVars, histVars>>

\* OPENDIR does not look whether the name is a directory.
OpenDir(s, n) ==
  \/ /\ Exists(n)
     /\ Answer(s, "opendir", next[s], "handle")
     /\ NewHandle(s, n, "read")
     /\ UNCHANGED fileVars
  \/ /\ ~Exists(n)
     /\ Answer(s, "opendir", 0, "nosuchfile")
     /\ UNCHANGED <<mapVars, fileVars, histVars>>

\* The file or node of a handle is closed.
CloseFiles(ns) == shut' = shut \cup (ns \cap Image)

\* Mutated Close: what closeFile does, which forgets the caches.
CloseKeepsCaches(s, h) ==
  \/ /\ InMap(s, h)
     /\ Answer(s, "close", h, "ok")
     /\ CloseFiles({handles[s][h].name})
     /\ handles' = [handles EXCEPT ![s][h] = None]
     /\ live' = [live EXCEPT ![s] = @ - 1]
     /\ UNCHANGED <<next, eof, dirs, size, made, got, listed>>
  \/ /\ ~InMap(s, h)
     /\ Answer(s, "close", h, "failure")
     /\ UNCHANGED <<mapVars, fileVars, histVars>>

\* Mutated Close: the entry is deleted and the file left open.
CloseKeepsFile(s, h) ==
  \/ /\ InMap(s, h)
     /\ Answer(s, "close", h, "ok")
     /\ handles' = [handles EXCEPT ![s][h] = None]
     /\ eof' = [eof EXCEPT ![s][h] = None]
     /\ dirs' = [dirs EXCEPT ![s][h] = None]
     /\ UNCHANGED <<next, fileVars, histVars>>
  \/ /\ ~InMap(s, h)
     /\ Answer(s, "close", h, "failure")
     /\ UNCHANGED <<mapVars, fileVars, histVars>>

Close(s, h) ==
  \/ /\ InMap(s, h)
     /\ Answer(s, "close", h, "ok")
     /\ CloseFiles({handles[s][h].name})
     /\ handles' = [handles EXCEPT ![s][h] = None]
     /\ eof' = [eof EXCEPT ![s][h] = None]
     /\ dirs' = [dirs EXCEPT ![s][h] = None]
     /\ live' = [live EXCEPT ![s] = @ - 1]
     /\ UNCHANGED <<next, size, made, got, listed>>
  \/ /\ ~InMap(s, h)
     /\ Answer(s, "close", h, "failure")
     /\ UNCHANGED <<mapVars, fileVars, histVars>>

\* Mutated ReadPage: the page after the last full one is not delivered.
ReadPageFullOnly(s, h, dir) ==
  IF dir.off + PageSize > Len(dir.names)
  THEN /\ Answer(s, "readdir", h, "eof")
       /\ dirs' = [dirs EXCEPT ![s][h] = dir]
       /\ UNCHANGED listed
  ELSE LET end == dir.off + PageSize
       IN  /\ Answer(s, "readdir", h, "name")
           /\ dirs' = [dirs EXCEPT ![s][h] = [dir EXCEPT !.off = end]]
           /\ listed' = [listed EXCEPT ![s][h] = @ \o SubSeq(dir.names, dir.off + 1, end)]

\* READDIR: the first one on a handle reads all entries, each one delivers a
\* page and moves the offset by a full page.
ReadPage(s, h, dir) ==
  IF dir.off > Len(dir.names)
  THEN /\ Answer(s, "readdir", h, "eof")
       /\ dirs' = [dirs EXCEPT ![s][h] = dir]
       /\ UNCHANGED listed
  ELSE LET end  == dir.off + PageSize
           last == IF end > Len(dir.names) THEN Len(dir.names) ELSE end
       IN  /\ Answer(s, "readdir", h, "name")
           /\ dirs' = [dirs EXCEPT ![s][h] = [dir EXCEPT !.off = end]]
           /\ listed' = [listed EXCEPT ![s][h] = @ \o SubSeq(dir.names, dir.off + 1, last)]

\* A node of the image that is no directory has no children, a file on the disk
\* is an error.
ReadDir(s, h) ==
  \/ /\ InMap(s, h) /\ handles[s][h].name \notin Files
     /\ ReadPage(s, h,
          IF dirs[s][h] # None THEN dirs[s][h]
          ELSE [off |-> 0, names |-> IF handles[s][h].name = Root THEN Entries ELSE <<>>])
     /\ UNCHANGED <<next, handles, eof, fileVars, live, got>>
  \/ /\ InMap(s, h) => handles[s][h].name \in Files
     /\ Answer(s, "readdir", h, "failure")
     /\ UNCHANGED <<mapVars, fileVars, histVars>>

\* The session is over: cleanUp closes what is still in the map.
CleanUp(s) ==
  /\ pc' = [pc EXCEPT ![s] = "done"]
  /\ CloseFiles({handles[s][h].name : h \in {x \in Handles : InMap(s, x)}})
  /\ live' = [live EXCEPT ![s] = @ - Cardinality({h \in Handles : InMap(s, h)})]
  /\ UNCHANGED <<mapVars, size, made, got, listed, reply, reqs>>

\* Mutated ReadFile: the data of a short read is dropped and its end announced.
ReadFileDropsLast(s, h, off, len) ==
  LET n    == handles[s][h].name
      data == IF off >= size[n] THEN 0 ELSE IF off + len > size[n] THEN size[n] - off ELSE len
  IN  /\ Answer(s, "read", h, IF data < len THEN "eof" ELSE "data")
      /\ eof' = IF data < len THEN [eof EXCEPT ![s][h] = size[n]] ELSE eof
      /\ got' = [got EXCEPT ![s][h] = CASE off # @     -> Absent
                                         [] data = len -> @ + data
                                         [] OTHER      -> @]
      /\ UNCHANGED <<next, handles, dirs, fileVars, live, listed>>

\* READ from a file on the disk.  A short read makes an entry in the cache.
ReadFile(s, h, off, len) ==
  LET n    == handles[s][h].name
      data == IF off >= size[n] THEN 0 ELSE IF off + len > size[n] THEN size[n] - off ELSE len
  IN  /\ Answer(s, "read", h, "data")
      /\ eof' = IF data < len THEN [eof EXCEPT ![s][h] = size[n]] ELSE eof
      /\ got' = [got EXCEPT ![s][h] = IF off = @ THEN @ + data ELSE Absent]
      /\ UNCHANGED <<next, handles, dirs, fileVars, live, listed>>

\* READ from the image: the archive is closed, so the buffer of the node stays
\* empty.  Beyond its start the slice panics, unless the node is closed too.
ReadNode(s, h, off) ==
  IF off = 0 \/ handles[s][h].name \in shut
  THEN /\ Answer(s, "read", h, "failure")
       /\ UNCHANGED <<mapVars, fileVars, histVars>>
  ELSE /\ pc[s] = "run" /\ reqs < MaxReqs
       /\ CleanUp(s)

Readable(s, h, off) ==
  handles[s][h].name \in Files /\ handles[s][h].mode \in {"read", "create"} /\ off < Half

Read(s, h, off, len) ==
  \/ /\ eof[s][h] # None
     /\ Answer(s, "read", h, "eof")
     /\ UNCHANGED <<mapVars, fileVars, histVars>>
  \/ /\ eof[s][h] = None /\ InMap(s, h) /\ Readable(s, h, off)
     /\ ReadFile(s, h, off, len)
  \/ /\ eof[s][h] = None /\ InMap(s, h) /\ handles[s][h].name \in Image
     /\ ReadNode(s, h, off)
  \/ /\ eof[s][h] = None
     /\ InMap(s, h) => handles[s][h].name \notin Image /\ ~Readable(s, h, off)
     /\ Answer(s, "read", h, "failure")
     /\ UNCHANGED <<mapVars, fileVars, histVars>>

\* offset + uint64(dataLen), which wraps.
Sum(off, len) == IF off + len >= Width THEN off + len - Width ELSE off + len

\* Mutated TooLarge: only the offset is compared.
TooLargeByOffset(off, len) == Limit > 0 /\ off > Limit

TooLarge(off, len) == Limit > 0 /\ Sum(off, len) > Limit

Write(s, h, off, len) ==
  \/ /\ ~TooLarge(off, len) /\ InMap(s, h)
     /\ CanWrite(handles[s][h].name, handles[s][h].mode, off)
     /\ Answer(s, "write", h, "ok")
     /\ Extend(handles[s][h].name, handles[s][h].mode, off, len)
     /\ UNCHANGED <<mapVars, made, shut, histVars>>
  \/ /\ ~(/\ ~TooLarge(off, len) /\ InMap(s, h)
          /\ CanWrite(handles[s][h].name, handles[s][h].mode, off)
          /\ handles[s][h].mode # "append")
     /\ Answer(s, "write", h, "failure")
     /\ UNCHANGED <<mapVars, fileVars, histVars>>

MkDir(s, n) ==
  \/ /\ n \in NewDirs
     /\ Answer(s, "mkdir", 0, "ok")
     /\ made' = made \cup {n}
     /\ UNCHANGED <<mapVars, size, shut, histVars>>
  \/ /\ n = Root
     /\ Answer(s, "mkdir", 0, "failure")
     /\ UNCHANGED <<mapVars, fileVars, histVars>>

\* REMOVE, RMDIR, RENAME and SETSTAT are answered and nothing is done.  INIT,
\* REALPATH, STAT, LSTAT, FSTAT and unknown types change nothing either.
OtherRequest(s) ==
  /\ \E code \in {"ok", "attrs", "nosuchfile"} : Answer(s, "other", 0, code)
  /\ UNCHANGED <<mapVars, fileVars, histVars>>

\* The client is gone, or a packet that does not parse has panicked.
Stop(s) == pc[s] = "run" /\ CleanUp(s)

Request(s) ==
  \/ \E n \in Names, flag \in Flags : Open(s, n, flag)
  \/ \E n \in Names : OpenDir(s, n)
  \/ \E h \in Handles : Close(s, h) \/ ReadDir(s, h)
  \/ \E h \in Handles, off \in 0..(Width - 1), len \in Lens :
       Read(s, h, off, len) \/ Write(s, h, off, len)
  \/ \E n \in NewDirs \cup {Root} : MkDir(s, n)
  \/ OtherRequest(s)

Next == \E s \in Sessions : Request(s) \/ Stop(s)

Spec == Init /\ [][Next]_vars

-----------------------------------------------------------------------------
(* Properties.                                                             *)

Ops   == {"none", "open", "opendir", "close", "readdir", "read", "write", "mkdir", "other"}
Codes == {"none", "handle", "name", "data", "attrs", "ok", "eof", "nosuchfile", "failure"}

TypeOK ==
  /\ pc \in [Sessions -> {"run", "done"}]
  /\ reqs \in 0..MaxReqs /\ next \in [Sessions -> 0..reqs]
  /\ handles \in [Sessions -> [Handles -> [name : Names, mode : Modes] \cup {None}]]
  /\ eof \in [Sessions -> [Handles -> Int \cup {None}]]
  /\ dirs \in [Sessions -> [Handles -> [off : Nat, names : Seq(Names)] \cup {None}]]
  /\ size \in [Files -> Nat \cup {Absent}]
  /\ made \subseteq NewDirs /\ shut \subseteq Image
  /\ live \in [Sessions -> Int]
  /\ got \in [Sessions -> [Handles -> Nat \cup {Absent}]]
  /\ listed \in [Sessions -> [Handles -> Seq(Names)]]
  /\ reply \in [ses : Sessions \cup {None}, op : Ops, hnd : Nat, code : Codes]

\* The caches have entries only for handles that are open, so that no handle
\* can start with the end-of-file or the listing of another one.
CachesOfOpenHandles == \A s \in Sessions, h \in Handles :
  ~InMap(s, h) => eof[s][h] = None /\ dirs[s][h] = None

\* An action property: until it is closed a handle denotes the file it was
\* given for, whatever else is opened and closed in the session.
HandlesKeep == [][\A s \in Sessions, h \in Handles :
  InMap(s, h) => handles'[s][h] \in {handles[s][h], None}]_vars

\* The files a session has open are those in its map, and none is left open
\* when the session has ended, also by a panic.
NoFileLeft == \A s \in Sessions :
  live[s] = IF pc[s] = "done" THEN 0 ELSE Cardinality({h \in Handles : InMap(s, h)})

\* The pages delivered on a handle are the directory as it was when the first
\* one was read: no entry is lost or repeated at a page boundary, and the end
\* is announced only after the last entry.
ListingIsDirectory == \A s \in Sessions, h \in Handles :
  dirs[s][h] # None =>
    LET dir == dirs[s][h]
    IN  /\ listed[s][h] = SubSeq(dir.names, 1, Len(listed[s][h]))
        /\ Len(listed[s][h]) = IF dir.off > Len(dir.names) THEN Len(dir.names) ELSE dir.off
        /\ reply = [ses |-> s, op |-> "readdir", hnd |-> h, code |-> "eof"] => listed[s][h] = dir.names

\* A client that reads a file from its start to the end-of-file answer has got
\* all of it, as long as the file was when its end was met.
DownloadIsComplete == \A s \in Sessions, h \in Handles :
  eof[s][h] # None /\ got[s][h] # Absent => got[s][h] >= eof[s][h]

\* No file that is uploaded grows beyond the limit, although the sum that is
\* compared with it wraps: config.yaml, "Max size allowed for SCP/SFTP file
\* upload in bytes".
UploadsWithinLimit == \A f \in Files : Limit > 0 => size[f] <= Limit
=============================================================================
