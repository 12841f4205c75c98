----------------------------- MODULE VirtualFS -----------------------------
(***************************************************************************)
(* The image of the honeypot's file system: createfs writes a disk into an *)
(* archive (cmd/createfs/createFSZip.go), NewVirtualFS makes a tree of its *)
(* entries at start-up, and fetchNode looks up the paths that sessions     *)
(* name (virtualfs/filesystem.go).                                         *)
(*                                                                         *)
(* A path is a sequence of names (Paths), a tree a function from the paths *)
(* below its root <<>> to nodes.  Paths, entry names and link targets are  *)
(* those pathlib.Clean returns.                                            *)
(***************************************************************************)
EXTENDS Integers, Sequences, SequencesExt, Paths

CONSTANTS
  Disks,     \* trees that createfs is run on
  Starts,    \* its option -p: <<>> for / and for ., else an absolute path
  Skips,     \* its option -k, as a set of paths
  Failures,  \* sets of paths at which Lstat, Readdirnames or Readlink fails
  Archives,  \* archives of other programs, sequences of entries
  Names,     \* names in the paths sessions ask for
  MaxLen,    \* length of these paths
  MaxStack,  \* calls of fetchNode the stack has room for
  MaxRewrites,  \* rewritings of a path, more than any that end need
  Up         \* the name "..", which is no child's

FullPaths == Seq(Names) \ {<<>>}
Targets   == Seq(Names \union {Up})
Nodes     == [kind : {"dir", "file", "link"}, abs : BOOLEAN, to : Targets]
Goals     == UNION {[1..n -> Names] : n \in 0..MaxLen}

ASSUME ImageAssumption ==
  /\ Names \subseteq Int /\ Up \notin Names
  /\ MaxLen \in Nat /\ MaxStack \in Nat \ {0}
  /\ MaxRewrites \in Nat /\ MaxStack <= MaxRewrites
  /\ Starts \subseteq Seq(Names) /\ \A k \in Skips : k \subseteq Seq(Names)
  /\ \A e \in Failures : e \subseteq FullPaths
  /\ \A d \in Disks : \A p \in DOMAIN d :
       /\ p \in FullPaths /\ d[p] \in Nodes
       /\ Len(p) > 1 => Front(p) \in DOMAIN d /\ d[Front(p)].kind = "dir"
  /\ \A a \in Archives : a \in Seq([path : FullPaths, node : Nodes])

\* Nodes: to is a link's target, which is absolute or not.
Node(kind)     == [kind |-> kind, abs |-> FALSE, to |-> <<>>]
Link(abs, to)  == [kind |-> "link", abs |-> abs, to |-> to]
Entry(p, node) == [path |-> p, node |-> node]

VARIABLES
  phase,    \* "build", "load", "serve", or "down" after a panic
  disk, start, skip,  \* what createfs was given; no disk for a foreign archive
  failing,  \* the paths it cannot read
  todo,     \* what its walk has still to visit
  archive,  \* the entries, in the order of the archive
  next,     \* the entry that is loaded next
  tree,     \* the nodes that have been loaded
  goal,     \* the path of the last call, and whether it follows links
  follow,
  stack,    \* the calls of fetchNode under way, the innermost last
  result    \* the node of the last call's answer, or <<Up>> for ErrNotExist

buildVars == <<disk, start, skip, failing, todo, archive>>
loadVars  == <<next, tree>>
callVars  == <<goal, follow, stack, result>>
vars      == <<phase, buildVars, loadVars, callVars>>

NoNode == <<Up>>

Init ==
  /\ \/ /\ phase = "build" /\ archive = <<>>
        /\ disk \in Disks /\ start \in Starts /\ skip \in Skips /\ failing \in Failures
        /\ start # <<>> => start \in DOMAIN disk /\ disk[start].kind = "dir"
        /\ todo = {p \in DOMAIN disk : Below(p, start)}
     \/ /\ phase = "load" /\ archive \in Archives
        /\ disk = <<>> /\ start = <<>> /\ skip = {} /\ failing = {} /\ todo = {}
  /\ next = 1 /\ tree = <<>>
  /\ goal = <<>> /\ follow = FALSE /\ stack = <<>> /\ result = <<>>

-----------------------------------------------------------------------------
(* createfs.                                                               *)

\* Mutated Skipped: the arguments of HasPrefix in the other order.
SkippedAbove(p) == \E v \in skip : TextPrefix(v, p)

Skipped(p) == \E v \in skip : TextPrefix(p, v)

\* The walk comes to p.
Visit(p) ==
  /\ phase = "build" /\ p \in todo
  /\ \A q \in todo \ {p} : Before(p, q)
  /\ UNCHANGED <<phase, disk, start, skip, failing, loadVars, callVars>>

PassBy(p, dir) == todo' = {q \in todo : q # p /\ ~Below(q, dir)} /\ UNCHANGED archive

\* SkipDir for a file leaves out the rest of its directory.
SkipEntry(p) ==
  /\ Visit(p) /\ Skipped(p) /\ (p \in failing => disk[p].kind # "file")
  /\ PassBy(p, IF disk[p].kind = "dir" THEN p ELSE Front(p))

\* SkipDir for what cannot be read is no more than a return; without it there is
\* no information, or no list of names: no entry, and nothing below it.
LeaveOut(p) ==
  /\ Visit(p) /\ p \in failing
  /\ PassBy(p, p)

\* A link whose target cannot be read has an entry without one.
EmptyLink == Link(FALSE, <<>>)

\* The name is the whole path, also below a start that is not the root.
WriteEntry(p) ==
  /\ Visit(p) /\ ~Skipped(p)
  /\ p \in failing => disk[p].kind = "link"
  /\ todo' = todo \ {p}
  /\ archive' = Append(archive, Entry(p, IF p \in failing THEN EmptyLink ELSE disk[p]))

StartUp ==
  /\ phase = "build" /\ todo = {}
  /\ phase' = "load"
  /\ UNCHANGED <<buildVars, loadVars, callVars>>

-----------------------------------------------------------------------------
(* NewVirtualFS.                                                           *)

IsDir(p) == p # <<>> => p \in DOMAIN tree /\ tree[p].kind = "dir"

CreateNode ==
  /\ phase = "load" /\ next <= Len(archive)
  /\ next' = next + 1
  /\ UNCHANGED <<buildVars, callVars>>

\* Mutated Put: of two entries of a name the first stays.
PutFirst ==
  /\ CreateNode
  /\ LET e == archive[next] IN
       /\ IsDir(Front(e.path))
       /\ tree' = [p \in DOMAIN tree \union {e.path} |->
                     IF p \in DOMAIN tree THEN tree[p] ELSE e.node]
  /\ UNCHANGED phase

\* A second entry of a name replaces the first and all that is below it.
Put ==
  /\ CreateNode
  /\ LET e == archive[next] IN
       /\ IsDir(Front(e.path))
       /\ tree' = [p \in {q \in DOMAIN tree : ~Below(q, e.path)} \union {e.path} |->
                     IF p = e.path THEN e.node ELSE tree[p]]
  /\ UNCHANGED phase

\* Mutated Drop: the error is not returned, and there is no parent.
DropNothing ==
  /\ CreateNode
  /\ Front(archive[next].path) \notin DOMAIN tree \union {<<>>}
  /\ phase' = "down"
  /\ UNCHANGED tree

\* The error of an entry whose directory is not there is not looked at.
Drop ==
  /\ CreateNode
  /\ Front(archive[next].path) \notin DOMAIN tree \union {<<>>}
  /\ UNCHANGED <<phase, tree>>

\* A file or a link has no map for its children.
PanicBelowFile ==
  /\ CreateNode
  /\ LET dir == Front(archive[next].path) IN dir \in DOMAIN tree /\ ~IsDir(dir)
  /\ phase' = "down"
  /\ UNCHANGED tree

Serve ==
  /\ phase = "load" /\ next > Len(archive)
  /\ phase' = "serve"
  /\ UNCHANGED <<buildVars, loadVars, callVars>>

-----------------------------------------------------------------------------
(* fetchNode.  A call has its cwd, the names that are left and whether it  *)
(* has followed the link that cwd was.                                     *)

Call(names) == [cwd |-> <<>>, names |-> names, via |-> FALSE]

\* dirs[1:]: a target that is not absolute loses its first name.
NamesOf(link) == IF link.abs \/ link.to = <<>> THEN link.to ELSE Tail(link.to)

Top == Last(stack)
LinkIn(t, p) == p \in DOMAIN t /\ t[p].kind = "link"
IsLink(p) == LinkIn(tree, p)

\* Open does not follow links, OpenFile and Stat do.
Ask(p, f) ==
  /\ phase = "serve" /\ stack = <<>>
  /\ goal' = p /\ follow' = f /\ stack' = <<Call(p)>>
  /\ UNCHANGED <<phase, buildVars, loadVars, result>>

Walking == phase = "serve" /\ stack # <<>> /\ UNCHANGED <<buildVars, loadVars, goal, follow>>

AtLink == follow /\ Top.names # <<>> /\ IsLink(Top.cwd) /\ ~Top.via

\* Mutated Follow: the link's target is looked up without its last name.
FollowShort ==
  /\ Walking /\ AtLink /\ Len(stack) < MaxStack
  /\ stack' = Append([stack EXCEPT ![Len(stack)].via = TRUE],
                     Call(LET n == NamesOf(tree[Top.cwd]) IN IF n = <<>> THEN n ELSE Front(n)))
  /\ UNCHANGED <<phase, result>>

Follow ==
  /\ Walking /\ AtLink /\ Len(stack) < MaxStack
  /\ stack' = Append([stack EXCEPT ![Len(stack)].via = TRUE], Call(NamesOf(tree[Top.cwd])))
  /\ UNCHANGED <<phase, result>>

\* Links in a circle use up the stack, which ends the process.
Overflow ==
  /\ Walking /\ AtLink /\ Len(stack) = MaxStack
  /\ phase' = "down"
  /\ UNCHANGED <<stack, result>>

Child == Append(Top.cwd, Head(Top.names))

Enter ==
  /\ Walking /\ Top.names # <<>> /\ ~AtLink /\ Child \in DOMAIN tree
  /\ stack' = [stack EXCEPT ![Len(stack)] = [cwd |-> Child, names |-> Tail(@.names), via |-> FALSE]]
  /\ UNCHANGED <<phase, result>>

\* The error goes through all calls.
NotExist ==
  /\ Walking /\ Top.names # <<>> /\ ~AtLink /\ Child \notin DOMAIN tree
  /\ stack' = <<>> /\ result' = NoNode
  /\ UNCHANGED phase

\* Mutated Return: for instead of if, with a cwd of its own in the body.
ReturnShadowed ==
  /\ Walking /\ Top.names = <<>>
  /\ IF Len(stack) = 1
       THEN stack' = <<>> /\ result' = Top.cwd
       ELSE /\ stack' = [Front(stack) EXCEPT ![Len(stack) - 1].via = FALSE]
            /\ UNCHANGED result
  /\ UNCHANGED phase

Return ==
  /\ Walking /\ Top.names = <<>>
  /\ IF Len(stack) = 1
       THEN stack' = <<>> /\ result' = Top.cwd
       ELSE /\ stack' = [Front(stack) EXCEPT ![Len(stack) - 1].cwd = Top.cwd]
            /\ UNCHANGED result
  /\ UNCHANGED phase

FetchNode == Follow \/ Overflow \/ Enter \/ NotExist \/ Return

-----------------------------------------------------------------------------

Next ==
  \/ \E p \in todo : SkipEntry(p) \/ LeaveOut(p) \/ WriteEntry(p)
  \/ StartUp
  \/ Put \/ Drop \/ PanicBelowFile \/ Serve
  \/ \E p \in Goals, f \in BOOLEAN : Ask(p, f)
  \/ FetchNode

Spec == Init /\ [][Next]_vars

\* A lookup runs in one goroutine and waits for nothing.
FairSpec == Spec /\ WF_vars(FetchNode)

-----------------------------------------------------------------------------
(* Properties.                                                             *)

Calls == [cwd : Seq(Names), names : Targets, via : BOOLEAN]

\* Types, and a tree in which every node is in a directory: the lookups take a
\* node's children for granted (filesystem.go, 114-127).
TypeOK ==
  /\ phase \in {"build", "load", "serve", "down"}
  /\ next \in 1..(Len(archive) + 1)
  /\ \A p \in DOMAIN tree : p \in FullPaths /\ tree[p] \in Nodes /\ IsDir(Front(p))
  /\ goal \in Goals /\ follow \in BOOLEAN
  /\ stack \in Seq(Calls) /\ Len(stack) <= MaxStack
  /\ result \in DOMAIN tree \union {<<>>, NoNode}

At(p) == {j \in DOMAIN archive : archive[j].path = p}

\* The directories that entry i is in come before it and in their order, and
\* each is in the archive once.
InOrder(i) ==
  LET p == archive[i].path IN
  \E above \in [1..Len(p) -> DOMAIN archive] :
    /\ above[Len(p)] = i
    /\ \A n \in 1..(Len(p) - 1) :
         /\ At(SubSeq(p, 1, n)) = {above[n]}
         /\ archive[above[n]].node.kind = "dir"
         /\ \A m \in (n + 1)..Len(p) : above[n] < above[m]

\* The image has every entry of the archive that follows its directories; it has
\* no node without its directory, and none but the last that the archive gives a
\* name, also where names come twice (filesystem.go, 42-44 and 69-76).  An archive
\* that has each name once gives these entries and no others.
EntriesKept ==
  phase = "serve" =>
    /\ \A p \in DOMAIN tree : IsDir(Front(p))
    /\ \A p \in DOMAIN tree : \E j \in DOMAIN archive :
         /\ archive[j] = Entry(p, tree[p])
         /\ \A k \in At(p) : k <= j
    /\ \A i \in DOMAIN archive : InOrder(i) => archive[i].path \in DOMAIN tree
    /\ (\A i, j \in DOMAIN archive : archive[i].path = archive[j].path => i = j) =>
         \A p \in DOMAIN tree : \E i \in DOMAIN archive : archive[i].path = p /\ InOrder(i)

\* What -k asks for: v and what is in it.
Unwanted(p) == \E v \in skip : IsPrefix(v, p)

\* p has a name of -k, or one that a name of -k begins.
Named(p) == \E v \in skip :
  \/ p = v
  \/ /\ v # <<>> /\ p # <<>> /\ Front(p) = Front(v)
     /\ <<Last(v), Last(p)>> \in Prefixed

\* What may be lost with it: what is in a namesake of v, and what follows in the
\* directory of a file.
LostWith(p, q) ==
  \/ IsPrefix(q, p)
  \/ disk[q].kind # "dir" /\ IsPrefix(Front(q), p) /\ Before(q, p)

\* createfs from / or . and NewVirtualFS together: nothing that -k names comes
\* into the image, and of the rest nothing is missing or changed but what cannot
\* be read, and what is lost by the two shortcomings of the test at line 126: that
\* it takes any path whose text begins with one of -k, and that SkipDir for a file
\* ends its directory (createFSZip.go, 120-185; filesystem.go, 69-76).
ImageIsDisk ==
  phase = "serve" /\ disk # <<>> /\ start = <<>> =>
    /\ \A p \in DOMAIN tree :
         /\ p \in DOMAIN disk /\ ~Unwanted(p)
         /\ tree[p] = disk[p] \/ (p \in failing /\ tree[p] = EmptyLink)
    /\ \A p \in DOMAIN disk \ DOMAIN tree :
         \/ Unwanted(p)
         \/ \E q \in failing : IsPrefix(q, p)
         \/ \E q \in DOMAIN disk : Named(q) /\ LostWith(p, q)

\* The reference for lookups, in a tree t: a link with names behind it is
\* replaced by its target, the first link first, until none is left.
LinksOn(t, p) == {n \in 1..(Len(p) - 1) : LinkIn(t, SubSeq(p, 1, n))}

Rewrite(t, p) ==
  IF LinksOn(t, p) = {} THEN p
  ELSE LET n == CHOOSE n \in LinksOn(t, p) : \A k \in LinksOn(t, p) : n <= k
       IN  t[SubSeq(p, 1, n)].to \o SubSeq(p, n + 1, Len(p))

Rewritings(t, p) ==
  LET r[n \in Nat] == IF n = 0 THEN p ELSE Rewrite(t, r[n - 1]) IN r

Resolved(p) == Rewritings(tree, p)[MaxRewrites]

\* The rewriting of p takes more than n steps.
Lasts(p, n) == LinksOn(tree, Rewritings(tree, p)[n]) # {}

\* All links are absolute and none of them leads to a link, be it through others.
Plain == \A p \in DOMAIN tree :
  IsLink(p) => tree[p].abs /\ ~IsLink(Resolved(tree[p].to))

NodeAt(p) == IF p \in DOMAIN tree \union {<<>>} THEN p ELSE NoNode

\* A lookup that follows links finds what the rewriting finds, in an image whose
\* links are plain; one that does not (Open) finds what is there without them.
\* Relative targets and links to links go elsewhere (filesystem.go, 103-129).
LookupsResolve ==
  phase = "serve" /\ stack = <<>> =>
    IF follow THEN Plain => result = NodeAt(Resolved(goal)) \/ Lasts(goal, MaxRewrites)
              ELSE result = NodeAt(goal)

\* The process goes down only over an archive with an entry below a file or a
\* link, or, in an image with plain links, a path that takes as many rewritings
\* as the stack has room for calls, as all do whose links run in a circle
\* (filesystem.go, 76 and 115-121).
DownHasCause ==
  phase = "down" =>
    \/ /\ stack = <<>>
       /\ \E i, j \in DOMAIN archive :
            archive[i].node.kind # "dir" /\ archive[i].path = Front(archive[j].path)
    \/ stack # <<>> /\ (Plain => Lasts(goal, MaxStack - 1))

\* A lookup comes to its end, or ends the process (filesystem.go, 103-129).
LookupsEnd == (stack # <<>>) ~> (stack = <<>> \/ phase = "down")
=============================================================================
