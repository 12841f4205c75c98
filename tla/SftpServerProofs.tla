-------------------------- MODULE SftpServerProofs --------------------------
(* What the SFTP server promises about handles, caches and uploads, for any *)
(* number of sessions and files, and any bound on the requests.             *)
EXTENDS SftpServer, FiniteSetTheorems, SequenceTheorems, TLAPS

OpenHandles(s) == {h \in Handles : InMap(s, h)}

\* The number of the next handle and those above it are in no map.
FreshInv == \A s \in Sessions, h \in Handles : h >= next[s] => ~InMap(s, h)

IInv == TypeOK /\ FreshInv /\ CachesOfOpenHandles /\ NoFileLeft

-----------------------------------------------------------------------------
(* Lemmas about maps and the directory.                                    *)

\* What an update of a map of maps changes, and that it keeps the type.
LEMMA MapUpdate ==
  ASSUME NEW S, NEW H, NEW T, NEW m \in [S -> [H -> T]],
         NEW s \in S, NEW h \in H, NEW v \in T
  PROVE  /\ [m EXCEPT ![s][h] = v] \in [S -> [H -> T]]
         /\ \A t \in S, k \in H : [m EXCEPT ![s][h] = v][t][k] =
              IF t = s /\ k = h THEN v ELSE m[t][k]
OBVIOUS

\* The listing of a directory is a sequence of names.
LEMMA EntriesType == Entries \in Seq(Names)
<1> DEFINE E == {n \in Names \ {Root} : Exists(n)}
           Lists(q) == \A i, j \in DOMAIN q : q[i] = q[j] => i = j
<1>1. IsFiniteSet(E)
  BY FS_Subset, SftpAssumption DEF SftpAssumption
<1>2. Cardinality(E) \in Nat /\ ExistsBijection(1..Cardinality(E), E)
  BY <1>1, FS_CardinalityType
<1>3. \E q \in [1..Cardinality(E) -> E] : Lists(q)
  BY <1>2 DEF ExistsBijection, Bijection, Injection, IsInjective
<1>4. Entries \in [1..Cardinality(E) -> E]
  <2> DEFINE Q == [1..Cardinality(E) -> E]
  <2>1. Entries = CHOOSE q \in Q : Lists(q)
    BY DEF Entries
  <2>2. \E q \in Q : Lists(q)
    BY <1>3
  <2> HIDE DEF Q, Lists
  <2>3. Entries \in Q
    BY <2>1, <2>2
  <2> QED
    BY <2>3 DEF Q
<1>5. QED
  <2> DEFINE n == Cardinality(E)
  <2>1. n \in Nat /\ Entries \in [1..n -> Names]
    BY <1>2, <1>4
  <2> HIDE DEF n
  <2> QED
    BY <2>1, SeqDef

\* The open handles of a session are finitely many.
LEMMA OpenFinite ==
  ASSUME NEW s \in Sessions
  PROVE  IsFiniteSet(OpenHandles(s)) /\ Cardinality(OpenHandles(s)) \in Nat
<1>1. MaxReqs - 1 \in Int
  BY SftpAssumption DEF SftpAssumption
<1>2. IsFiniteSet(Handles)
  BY <1>1, FS_Interval DEF Handles
<1>3. IsFiniteSet(OpenHandles(s))
  BY <1>2, FS_Subset DEF OpenHandles
<1> QED
  BY <1>3, FS_CardinalityType

-----------------------------------------------------------------------------
(* The invariant: initial states, and what the parts of a request keep.    *)

LEMMA InitIInv == Init => IInv
<1> SUFFICES ASSUME Init PROVE IInv
  OBVIOUS
<1>1. TypeOK
  <2>1. size \in [Files -> Nat \cup {Absent}]
    BY SftpAssumption DEF SftpAssumption, Init, Absent
  <2>2. reqs \in 0..MaxReqs /\ next \in [Sessions -> 0..reqs]
    BY SftpAssumption DEF SftpAssumption, Init
  <2>3. /\ handles \in [Sessions -> [Handles -> [name : Names, mode : Modes] \cup {None}]]
        /\ eof \in [Sessions -> [Handles -> Int \cup {None}]]
        /\ dirs \in [Sessions -> [Handles -> [off : Nat, names : Seq(Names)] \cup {None}]]
    BY DEF Init
  <2>4. listed \in [Sessions -> [Handles -> Seq(Names)]]
    BY DEF Init
  <2>5. reply \in [ses : Sessions \cup {None}, op : Ops, hnd : Nat, code : Codes]
    BY DEF Init, Ops, Codes
  <2> QED
    BY <2>1, <2>2, <2>3, <2>4, <2>5 DEF Init, TypeOK
<1>2. FreshInv /\ CachesOfOpenHandles
  BY DEF Init, FreshInv, CachesOfOpenHandles, InMap
<1>3. NoFileLeft
  <2> SUFFICES ASSUME NEW s \in Sessions
               PROVE  live[s] = IF pc[s] = "done" THEN 0
                                ELSE Cardinality({h \in Handles : InMap(s, h)})
    BY DEF NoFileLeft
  <2>1. {h \in Handles : InMap(s, h)} = {}
    BY DEF Init, InMap
  <2> QED
    BY <2>1, FS_EmptySet DEF Init
<1> QED
  BY <1>1, <1>2, <1>3 DEF IInv

\* A request that is answered counts, and the session runs on.
LEMMA Answered ==
  ASSUME TypeOK, NEW s \in Sessions, NEW op \in Ops, NEW h \in Nat,
         NEW code \in Codes, Answer(s, op, h, code)
  PROVE  /\ pc' = pc /\ pc[s] = "run"
         /\ reqs < MaxReqs /\ reqs' = reqs + 1 /\ reqs' \in 0..MaxReqs
         /\ reply' \in [ses : Sessions \cup {None}, op : Ops, hnd : Nat, code : Codes]
<1>1. /\ pc' = pc /\ pc[s] = "run"
      /\ reqs < MaxReqs /\ reqs' = reqs + 1 /\ reqs' \in 0..MaxReqs
  BY SftpAssumption DEF SftpAssumption, TypeOK, Answer
<1>2. reply' = [ses |-> s, op |-> op, hnd |-> h, code |-> code]
  BY DEF Answer
<1> QED
  BY <1>1, <1>2

\* Steps that leave the open handles alone and touch only their caches.
LEMMA OpenKept ==
  ASSUME IInv, UNCHANGED <<next, handles, live, pc>>,
         \A s \in Sessions, h \in Handles :
           InMap(s, h) \/ (eof'[s][h] = eof[s][h] /\ dirs'[s][h] = dirs[s][h])
  PROVE  FreshInv' /\ CachesOfOpenHandles' /\ NoFileLeft'
<1>1. FreshInv' /\ NoFileLeft'
  BY DEF IInv, FreshInv, NoFileLeft, InMap
<1>2. CachesOfOpenHandles'
  BY DEF IInv, CachesOfOpenHandles, InMap
<1> QED
  BY <1>1, <1>2

\* A request that changes nothing but the disk, the directories made and the
\* nodes closed.
LEMMA FilesOnly ==
  ASSUME IInv, NEW s \in Sessions, NEW op \in Ops, NEW h \in Nat,
         NEW code \in Codes, Answer(s, op, h, code),
         UNCHANGED <<mapVars, histVars>>,
         size' \in [Files -> Nat \cup {Absent}], made' \subseteq NewDirs, shut' \subseteq Image
  PROVE  IInv'
<1>1. TypeOK'
  <2>1. next' \in [Sessions -> 0..reqs']
    BY Answered DEF IInv, TypeOK, mapVars
  <2> QED
    BY <2>1, Answered DEF IInv, TypeOK, mapVars, histVars
<1>2. FreshInv' /\ CachesOfOpenHandles' /\ NoFileLeft'
  BY OpenKept, Answered DEF IInv, mapVars, histVars
<1> QED
  BY <1>1, <1>2 DEF IInv

\* A request that is refused, or changes nothing.
LEMMA Refused ==
  ASSUME IInv, NEW s \in Sessions, NEW op \in Ops, NEW h \in Nat,
         NEW code \in Codes, Answer(s, op, h, code),
         UNCHANGED <<mapVars, fileVars, histVars>>
  PROVE  IInv'
BY FilesOnly DEF IInv, TypeOK, fileVars

-----------------------------------------------------------------------------
(* One lemma for each request that changes more.                           *)

\* A new handle has a fresh number, so it replaces none and owns no cache.
LEMMA NewHandleKeeps ==
  ASSUME IInv, NEW s \in Sessions, NEW n \in Names, NEW mode \in Modes,
         NEW op \in Ops, Answer(s, op, next[s], "handle"), NewHandle(s, n, mode),
         size' \in [Files -> Nat \cup {Absent}], UNCHANGED <<made, shut>>
  PROVE  IInv' /\ next[s] \in Handles /\ ~InMap(s, next[s])
<1> DEFINE new == [name |-> n, mode |-> mode]
<1>1. /\ pc' = pc /\ pc[s] = "run" /\ next[s] \in Nat
      /\ reqs < MaxReqs /\ reqs' = reqs + 1 /\ reqs' \in 0..MaxReqs
      /\ reply' \in [ses : Sessions \cup {None}, op : Ops, hnd : Nat, code : Codes]
  <2>1. next[s] \in Nat /\ "handle" \in Codes
    BY DEF IInv, TypeOK, Codes
  <2> QED
    BY <2>1, Answered DEF IInv
<1>2. next[s] \in Handles
  BY <1>1, SftpAssumption DEF SftpAssumption, Handles, IInv, TypeOK
<1>3. ~InMap(s, next[s])
  BY <1>1, <1>2 DEF IInv, FreshInv
<1>4. /\ new \in [name : Names, mode : Modes] /\ new # None
  BY SftpAssumption DEF SftpAssumption
<1>5. /\ handles' \in [Sessions -> [Handles -> [name : Names, mode : Modes] \cup {None}]]
      /\ \A t \in Sessions, k \in Handles :
           handles'[t][k] = IF t = s /\ k = next[s] THEN new ELSE handles[t][k]
  <2> DEFINE T == [name : Names, mode : Modes] \cup {None}
  <2>1. handles \in [Sessions -> [Handles -> T]] /\ new \in T
    BY <1>4 DEF IInv, TypeOK
  <2>2. handles' = [handles EXCEPT ![s][next[s]] = new]
    BY DEF NewHandle
  <2> HIDE DEF T, new
  <2>3. /\ handles' \in [Sessions -> [Handles -> T]]
        /\ \A t \in Sessions, k \in Handles :
             handles'[t][k] = IF t = s /\ k = next[s] THEN new ELSE handles[t][k]
    BY <1>2, <2>1, <2>2, MapUpdate
  <2> QED
    BY <2>3 DEF T
<1>6. next' \in [Sessions -> 0..reqs'] /\ next' = [next EXCEPT ![s] = @ + 1]
  BY <1>1 DEF IInv, TypeOK, NewHandle
<1>7. live' \in [Sessions -> Int] /\ live' = [live EXCEPT ![s] = @ + 1]
  BY DEF IInv, TypeOK, NewHandle
<1> HIDE DEF new
<1>8. TypeOK'
  BY <1>1, <1>5, <1>6, <1>7 DEF IInv, TypeOK, NewHandle
<1>9. FreshInv'
  <2> SUFFICES ASSUME NEW t \in Sessions, NEW k \in Handles, k >= next'[t]
               PROVE  handles'[t][k] = None
    BY DEF FreshInv, InMap
  <2>1. next[t] \in Nat /\ k \in Int /\ next'[t] = IF t = s THEN next[t] + 1 ELSE next[t]
    BY <1>6 DEF IInv, TypeOK, Handles
  <2>2. k >= next[t] /\ ~(t = s /\ k = next[s])
    BY <2>1
  <2> QED
    BY <1>5, <2>2 DEF IInv, FreshInv, InMap
<1>10. CachesOfOpenHandles'
  BY <1>4, <1>5 DEF IInv, CachesOfOpenHandles, InMap, NewHandle
<1>11. NoFileLeft'
  <2>1. OpenHandles(s)' = OpenHandles(s) \cup {next[s]}
    BY <1>2, <1>4, <1>5 DEF OpenHandles, InMap
  <2>2. Cardinality(OpenHandles(s)') = Cardinality(OpenHandles(s)) + 1
    BY <1>3, <2>1, OpenFinite, FS_AddElement DEF OpenHandles
  <2>3. \A t \in Sessions \ {s} : OpenHandles(t)' = OpenHandles(t)
    BY <1>5 DEF OpenHandles, InMap
  <2>4. \A t \in Sessions \ {s} : live'[t] = live[t]
    BY <1>7 DEF IInv, TypeOK
  <2>5. live[s] = Cardinality(OpenHandles(s)) /\ live'[s] = live[s] + 1
    BY <1>1, <1>7 DEF IInv, TypeOK, NoFileLeft, OpenHandles
  <2> QED
    BY <1>1, <2>2, <2>3, <2>4, <2>5 DEF IInv, NoFileLeft, OpenHandles
<1> QED
  BY <1>2, <1>3, <1>8, <1>9, <1>10, <1>11 DEF IInv

\* OPEN.
LEMMA OpenKeeps ==
  ASSUME IInv, NEW s \in Sessions, NEW n \in Names, NEW flag \in Flags, Open(s, n, flag)
  PROVE  IInv'
<1>1. flag \in Modes /\ "open" \in Ops /\ "failure" \in Codes /\ 0 \in Nat
  BY SftpAssumption DEF SftpAssumption, Ops, Codes
<1>2. CASE Answer(s, "open", next[s], "handle") /\ NewHandle(s, n, flag)
             /\ Resize(n, flag) /\ MayOpen(n, flag) /\ UNCHANGED <<made, shut>>
  <2>1. size' \in [Files -> Nat \cup {Absent}]
    BY <1>2 DEF IInv, TypeOK, Resize
  <2> QED
    BY <1>1, <1>2, <2>1, NewHandleKeeps
<1>3. CASE Answer(s, "open", 0, "failure") /\ UNCHANGED <<mapVars, fileVars, histVars>>
  BY <1>1, <1>3, Refused
<1> QED
  BY <1>2, <1>3 DEF Open

\* OPENDIR.
LEMMA OpenDirKeeps ==
  ASSUME IInv, NEW s \in Sessions, NEW n \in Names, OpenDir(s, n)
  PROVE  IInv'
<1>1. "read" \in Modes /\ "opendir" \in Ops /\ "nosuchfile" \in Codes /\ 0 \in Nat
  BY DEF Modes, Ops, Codes
<1>2. CASE Answer(s, "opendir", next[s], "handle") /\ NewHandle(s, n, "read")
             /\ UNCHANGED fileVars
  <2>1. size' \in [Files -> Nat \cup {Absent}] /\ UNCHANGED <<made, shut>>
    BY <1>2 DEF IInv, TypeOK, fileVars
  <2> QED
    BY <1>1, <1>2, <2>1, NewHandleKeeps
<1>3. CASE Answer(s, "opendir", 0, "nosuchfile") /\ UNCHANGED <<mapVars, fileVars, histVars>>
  BY <1>1, <1>3, Refused
<1> QED
  BY <1>2, <1>3 DEF OpenDir

\* CLOSE takes the handle out of every map.
LEMMA CloseKeeps ==
  ASSUME IInv, NEW s \in Sessions, NEW h \in Handles, Close(s, h)
  PROVE  IInv'
<1>1. "close" \in Ops /\ {"ok", "failure"} \subseteq Codes /\ h \in Nat
  BY DEF Ops, Codes, Handles
<1>2. CASE ~InMap(s, h)
  BY <1>1, <1>2, Refused DEF Close
<1>3. CASE InMap(s, h)
  <2>1. /\ Answer(s, "close", h, "ok")
        /\ shut' = shut \cup ({handles[s][h].name} \cap Image)
        /\ handles' = [handles EXCEPT ![s][h] = None]
        /\ eof' = [eof EXCEPT ![s][h] = None]
        /\ dirs' = [dirs EXCEPT ![s][h] = None]
        /\ live' = [live EXCEPT ![s] = @ - 1]
        /\ UNCHANGED <<next, size, made, got, listed>>
    BY <1>3 DEF Close, CloseFiles
  <2>2. /\ pc' = pc /\ pc[s] = "run" /\ reqs' = reqs + 1 /\ reqs' \in 0..MaxReqs
        /\ reply' \in [ses : Sessions \cup {None}, op : Ops, hnd : Nat, code : Codes]
    BY <1>1, <2>1, Answered DEF IInv
  <2>3. \A T, m : m \in [Sessions -> [Handles -> T \cup {None}]] =>
          /\ [m EXCEPT ![s][h] = None] \in [Sessions -> [Handles -> T \cup {None}]]
          /\ \A t \in Sessions, k \in Handles : [m EXCEPT ![s][h] = None][t][k] =
               IF t = s /\ k = h THEN None ELSE m[t][k]
    BY MapUpdate
  <2>4. /\ handles' \in [Sessions -> [Handles -> [name : Names, mode : Modes] \cup {None}]]
        /\ \A t \in Sessions, k \in Handles :
             handles'[t][k] = IF t = s /\ k = h THEN None ELSE handles[t][k]
    <3> DEFINE T == [name : Names, mode : Modes]
    <3>1. handles \in [Sessions -> [Handles -> T \cup {None}]]
      BY DEF IInv, TypeOK
    <3> HIDE DEF T
    <3>2. /\ handles' \in [Sessions -> [Handles -> T \cup {None}]]
          /\ \A t \in Sessions, k \in Handles :
               handles'[t][k] = IF t = s /\ k = h THEN None ELSE handles[t][k]
      BY <2>1, <2>3, <3>1
    <3> QED
      BY <3>2 DEF T
  <2>5. /\ eof' \in [Sessions -> [Handles -> Int \cup {None}]]
        /\ \A t \in Sessions, k \in Handles :
             eof'[t][k] = IF t = s /\ k = h THEN None ELSE eof[t][k]
    BY <2>1, <2>3 DEF IInv, TypeOK
  <2>6. /\ dirs' \in [Sessions -> [Handles -> [off : Nat, names : Seq(Names)] \cup {None}]]
        /\ \A t \in Sessions, k \in Handles :
             dirs'[t][k] = IF t = s /\ k = h THEN None ELSE dirs[t][k]
    <3> DEFINE T == [off : Nat, names : Seq(Names)]
    <3>1. dirs \in [Sessions -> [Handles -> T \cup {None}]]
      BY DEF IInv, TypeOK
    <3> HIDE DEF T
    <3>2. /\ dirs' \in [Sessions -> [Handles -> T \cup {None}]]
          /\ \A t \in Sessions, k \in Handles :
               dirs'[t][k] = IF t = s /\ k = h THEN None ELSE dirs[t][k]
      BY <2>1, <2>3, <3>1
    <3> QED
      BY <3>2 DEF T
  <2>7. live' \in [Sessions -> Int] /\ next' \in [Sessions -> 0..reqs']
    BY <2>1, <2>2 DEF IInv, TypeOK
  <2>8. TypeOK'
    BY <2>1, <2>2, <2>4, <2>5, <2>6, <2>7 DEF IInv, TypeOK
  <2>9. FreshInv' /\ CachesOfOpenHandles'
    BY <2>1, <2>4, <2>5, <2>6 DEF IInv, FreshInv, CachesOfOpenHandles, InMap
  <2>10. NoFileLeft'
    <3>1. OpenHandles(s)' = OpenHandles(s) \ {h} /\ h \in OpenHandles(s)
      BY <1>3, <2>4 DEF OpenHandles, InMap
    <3>2. Cardinality(OpenHandles(s)') = Cardinality(OpenHandles(s)) - 1
      BY <3>1, OpenFinite, FS_RemoveElement
    <3>3. \A t \in Sessions \ {s} : OpenHandles(t)' = OpenHandles(t) /\ live'[t] = live[t]
      BY <2>1, <2>4 DEF OpenHandles, InMap, IInv, TypeOK
    <3>4. live[s] = Cardinality(OpenHandles(s)) /\ live'[s] = live[s] - 1
      BY <2>1, <2>2 DEF IInv, TypeOK, NoFileLeft, OpenHandles
    <3> QED
      BY <2>2, <3>2, <3>3, <3>4 DEF IInv, NoFileLeft, OpenHandles
  <2> QED
    BY <2>8, <2>9, <2>10 DEF IInv
<1> QED
  BY <1>2, <1>3

\* The entries of a page are names, whatever the offset.
LEMMA PageType ==
  ASSUME NEW q \in Seq(Names), NEW m \in Nat, NEW n \in Nat, n <= Len(q)
  PROVE  SubSeq(q, m + 1, n) \in Seq(Names)
<1>1. \A i \in (m + 1)..n : i \in 1..Len(q) /\ q[i] \in Names
  OBVIOUS
<1> QED
  BY <1>1, SubSeqProperties

\* READDIR: only an open handle gets a directory cache.
LEMMA ReadDirKeeps ==
  ASSUME IInv, NEW s \in Sessions, NEW h \in Handles, ReadDir(s, h)
  PROVE  IInv'
<1>1. "readdir" \in Ops /\ {"name", "eof", "failure"} \subseteq Codes /\ h \in Nat
  BY DEF Ops, Codes, Handles
<1> DEFINE D == [off : Nat, names : Seq(Names)]
<1>2. CASE Answer(s, "readdir", h, "failure") /\ UNCHANGED <<mapVars, fileVars, histVars>>
  BY <1>1, <1>2, Refused
<1>3. ASSUME NEW dir \in D, InMap(s, h), ReadPage(s, h, dir),
             UNCHANGED <<next, handles, eof, fileVars, live, got>>
      PROVE  IInv'
  <2>1. /\ pc' = pc /\ reqs' = reqs + 1 /\ reqs' \in 0..MaxReqs
        /\ reply' \in [ses : Sessions \cup {None}, op : Ops, hnd : Nat, code : Codes]
    <3>1. Answer(s, "readdir", h, "name") \/ Answer(s, "readdir", h, "eof")
      BY <1>3 DEF ReadPage
    <3> QED
      BY <1>1, <3>1, Answered DEF IInv
  <2>2. dir.off + PageSize \in Nat /\ Len(dir.names) \in Nat /\ dir.off \in Nat
        /\ dir.names \in Seq(Names)
    BY <1>3, SftpAssumption DEF SftpAssumption
  <2>3. \E new \in D : dirs' = [dirs EXCEPT ![s][h] = new]
    <3>1. [dir EXCEPT !.off = dir.off + PageSize] \in D
      BY <2>2
    <3> QED
      BY <1>3, <3>1 DEF ReadPage
  <2>4. /\ dirs' \in [Sessions -> [Handles -> D \cup {None}]]
        /\ \A t \in Sessions, k \in Handles : (t = s /\ k = h) \/ dirs'[t][k] = dirs[t][k]
    <3>1. dirs \in [Sessions -> [Handles -> D \cup {None}]]
      BY DEF IInv, TypeOK
    <3> HIDE DEF D
    <3> QED
      BY <2>3, <3>1, MapUpdate
  <2>5. listed' \in [Sessions -> [Handles -> Seq(Names)]]
    <3> DEFINE Page(n) == SubSeq(dir.names, dir.off + 1, n)
               Listed(n) == [listed EXCEPT ![s][h] = @ \o Page(n)]
    <3>1. listed \in [Sessions -> [Handles -> Seq(Names)]]
      BY DEF IInv, TypeOK
    <3>2. \A n \in 0..Len(dir.names) : Page(n) \in Seq(Names)
      BY <2>2, PageType
    <3>3. \A n \in 0..Len(dir.names) : listed[s][h] \o Page(n) \in Seq(Names)
      <4> HIDE DEF Page
      <4> QED
        BY <3>1, <3>2
    <3>4. listed' = listed \/ \E n \in 0..Len(dir.names) : listed' = Listed(n)
      <4> DEFINE last == IF dir.off + PageSize > Len(dir.names) THEN Len(dir.names)
                         ELSE dir.off + PageSize
      <4>1. CASE dir.off > Len(dir.names)
        BY <1>3, <4>1 DEF ReadPage
      <4>2. CASE ~(dir.off > Len(dir.names))
        <5>1. listed' = Listed(last)
          BY <1>3, <4>2 DEF ReadPage
        <5>2. last \in 0..Len(dir.names)
          BY <2>2
        <5> HIDE DEF last, Listed
        <5> QED
          BY <5>1, <5>2
      <4> QED
        BY <4>1, <4>2
    <3> HIDE DEF Page
    <3>5. \A n \in 0..Len(dir.names) : Listed(n) \in [Sessions -> [Handles -> Seq(Names)]]
      BY <3>1, <3>3
    <3> QED
      BY <3>1, <3>4, <3>5
  <2>6. TypeOK'
    <3>1. next' \in [Sessions -> 0..reqs']
      BY <1>3, <2>1 DEF IInv, TypeOK
    <3> QED
      BY <1>3, <2>1, <2>4, <2>5, <3>1 DEF IInv, TypeOK, fileVars
  <2>7. FreshInv' /\ CachesOfOpenHandles' /\ NoFileLeft'
    BY <1>3, <2>1, <2>4, OpenKept
  <2> QED
    BY <2>6, <2>7 DEF IInv
<1>4. CASE /\ InMap(s, h)
           /\ ReadPage(s, h,
                IF dirs[s][h] # None THEN dirs[s][h]
                ELSE [off |-> 0, names |-> IF handles[s][h].name = Root THEN Entries ELSE <<>>])
           /\ UNCHANGED <<next, handles, eof, fileVars, live, got>>
  <2>1. dirs[s][h] \in D \cup {None}
    BY DEF IInv, TypeOK
  <2>2. <<>> \in Seq(Names) /\ Entries \in Seq(Names) /\ 0 \in Nat
    BY EntriesType
  <2>3. [off |-> 0, names |-> IF handles[s][h].name = Root THEN Entries ELSE <<>>] \in D
    BY <2>2
  <2> HIDE DEF D
  <2> QED
    BY <1>3, <1>4, <2>1, <2>3
<1> QED
  BY <1>2, <1>4 DEF ReadDir

\* A session that ends leaves no file open.
LEMMA CleanUpKeeps ==
  ASSUME IInv, NEW s \in Sessions, pc[s] = "run", CleanUp(s)
  PROVE  IInv'
<1>1. /\ pc' = [pc EXCEPT ![s] = "done"] /\ UNCHANGED <<mapVars, size, made, got, listed, reply, reqs>>
      /\ live' = [live EXCEPT ![s] = @ - Cardinality(OpenHandles(s))]
      /\ shut' \subseteq Image
  BY DEF CleanUp, CloseFiles, OpenHandles, IInv, TypeOK
<1>2. Cardinality(OpenHandles(s)) \in Nat
  BY OpenFinite
<1>3. TypeOK'
  <2>1. live' \in [Sessions -> Int] /\ pc' \in [Sessions -> {"run", "done"}]
    BY <1>1, <1>2 DEF IInv, TypeOK
  <2> QED
    BY <1>1, <2>1 DEF IInv, TypeOK, mapVars
<1>4. FreshInv' /\ CachesOfOpenHandles'
  BY <1>1 DEF IInv, FreshInv, CachesOfOpenHandles, InMap, mapVars
<1>5. NoFileLeft'
  <2>1. live[s] = Cardinality(OpenHandles(s))
    BY DEF IInv, NoFileLeft, OpenHandles
  <2>2. live'[s] = 0 /\ pc'[s] = "done"
    BY <1>1, <1>2, <2>1 DEF IInv, TypeOK
  <2>3. \A t \in Sessions \ {s} :
          live'[t] = live[t] /\ pc'[t] = pc[t] /\ OpenHandles(t)' = OpenHandles(t)
    BY <1>1 DEF IInv, TypeOK, OpenHandles, InMap, mapVars
  <2> QED
    BY <2>2, <2>3 DEF IInv, NoFileLeft, OpenHandles
<1> QED
  BY <1>3, <1>4, <1>5 DEF IInv

\* READ: only an open handle gets an end-of-file entry, and the panic of a node
\* of the image ends the session.
LEMMA ReadKeeps ==
  ASSUME IInv, NEW s \in Sessions, NEW h \in Handles,
         NEW off \in 0..(Width - 1), NEW len \in Lens, Read(s, h, off, len)
  PROVE  IInv'
<1>1. "read" \in Ops /\ {"data", "eof", "failure"} \subseteq Codes /\ h \in Nat
  BY DEF Ops, Codes, Handles
<1>2. CASE (Answer(s, "read", h, "failure") \/ Answer(s, "read", h, "eof"))
             /\ UNCHANGED <<mapVars, fileVars, histVars>>
  BY <1>1, <1>2, Refused
<1>3. CASE pc[s] = "run" /\ CleanUp(s)
  BY <1>3, CleanUpKeeps
<1>4. CASE InMap(s, h) /\ Readable(s, h, off) /\ ReadFile(s, h, off, len)
  <2> DEFINE n == handles[s][h].name
             data == IF off >= size[n] THEN 0
                     ELSE IF off + len > size[n] THEN size[n] - off ELSE len
  <2>1. Answer(s, "read", h, "data") /\ UNCHANGED <<next, handles, dirs, fileVars, live, listed>>
    BY <1>4 DEF ReadFile
  <2>2. /\ pc' = pc /\ reqs' = reqs + 1 /\ reqs' \in 0..MaxReqs
        /\ reply' \in [ses : Sessions \cup {None}, op : Ops, hnd : Nat, code : Codes]
    BY <1>1, <2>1, Answered DEF IInv
  <2>3. size[n] \in Int /\ off \in Nat /\ len \in Nat
    BY <1>4, SftpAssumption DEF SftpAssumption, Readable, IInv, TypeOK, Absent
  <2>4. data \in Nat
    BY <2>3
  <2>5. /\ eof' \in [Sessions -> [Handles -> Int \cup {None}]]
        /\ \A t \in Sessions, k \in Handles : (t = s /\ k = h) \/ eof'[t][k] = eof[t][k]
    <3>1. eof' = eof \/ eof' = [eof EXCEPT ![s][h] = size[n]]
      BY <1>4 DEF ReadFile
    <3>2. eof \in [Sessions -> [Handles -> Int \cup {None}]]
      BY DEF IInv, TypeOK
    <3> DEFINE T == Int \cup {None}
               z == size[n]
    <3>3. z \in T /\ eof \in [Sessions -> [Handles -> T]]
      BY <2>3, <3>2
    <3>4. eof' = eof \/ eof' = [eof EXCEPT ![s][h] = z]
      BY <3>1
    <3> HIDE DEF T, z
    <3>5. /\ eof' \in [Sessions -> [Handles -> T]]
          /\ \A t \in Sessions, k \in Handles : (t = s /\ k = h) \/ eof'[t][k] = eof[t][k]
      <4>1. /\ [eof EXCEPT ![s][h] = z] \in [Sessions -> [Handles -> T]]
            /\ \A t \in Sessions, k \in Handles : [eof EXCEPT ![s][h] = z][t][k] =
                 IF t = s /\ k = h THEN z ELSE eof[t][k]
        BY <3>3, MapUpdate
      <4> QED
        BY <3>3, <3>4, <4>1
    <3> QED
      BY <3>5 DEF T
  <2>6. got' \in [Sessions -> [Handles -> Nat \cup {Absent}]]
    <3> DEFINE T == Nat \cup {Absent}
               z == IF off = got[s][h] THEN got[s][h] + data ELSE Absent
    <3>1. got' = [got EXCEPT ![s][h] = z]
      BY <1>4 DEF ReadFile
    <3>2. got \in [Sessions -> [Handles -> T]]
      BY DEF IInv, TypeOK
    <3>3. z \in T
      <4> HIDE DEF data
      <4> QED
        BY <2>3, <2>4 DEF Absent
    <3> HIDE DEF T, z
    <3>4. [got EXCEPT ![s][h] = z] \in [Sessions -> [Handles -> T]]
      BY <3>2, <3>3, MapUpdate
    <3> QED
      BY <3>1, <3>4 DEF T
  <2>7. TypeOK'
    <3>1. next' \in [Sessions -> 0..reqs']
      BY <2>1, <2>2 DEF IInv, TypeOK
    <3> HIDE DEF data, n
    <3> QED
      BY <2>1, <2>2, <2>5, <2>6, <3>1 DEF IInv, TypeOK, fileVars
  <2>8. FreshInv' /\ CachesOfOpenHandles' /\ NoFileLeft'
    BY <1>4, <2>1, <2>2, <2>5, OpenKept
  <2> QED
    BY <2>7, <2>8 DEF IInv
<1> QED
  BY <1>2, <1>3, <1>4 DEF Read, ReadNode

\* WRITE, MKDIR and the requests that change nothing.
LEMMA OthersKeep ==
  ASSUME IInv, NEW s \in Sessions,
         \/ \E h \in Handles, off \in 0..(Width - 1), len \in Lens : Write(s, h, off, len)
         \/ \E n \in NewDirs \cup {Root} : MkDir(s, n)
         \/ OtherRequest(s)
  PROVE  IInv'
<1>1. /\ {"write", "mkdir", "other"} \subseteq Ops
      /\ {"ok", "failure", "attrs", "nosuchfile"} \subseteq Codes
      /\ Handles \subseteq Nat /\ 0 \in Nat
  BY DEF Ops, Codes, Handles
<1>2. CASE \E h \in Handles, off \in 0..(Width - 1), len \in Lens : Write(s, h, off, len)
  <2>1. PICK h \in Handles, off \in 0..(Width - 1), len \in Lens : Write(s, h, off, len)
    BY <1>2
  <2>2. CASE Answer(s, "write", h, "failure") /\ UNCHANGED <<mapVars, fileVars, histVars>>
    BY <1>1, <2>2, Refused
  <2>3. CASE /\ CanWrite(handles[s][h].name, handles[s][h].mode, off)
             /\ Answer(s, "write", h, "ok")
             /\ Extend(handles[s][h].name, handles[s][h].mode, off, len)
             /\ UNCHANGED <<mapVars, made, shut, histVars>>
    <3> DEFINE n == handles[s][h].name
    <3>1. n \in Files /\ size[n] \in Nat \cup {-1} /\ off \in Nat /\ len \in Nat
      BY <2>3, SftpAssumption DEF SftpAssumption, CanWrite, IInv, TypeOK, Absent
    <3>2. \E end \in Int : size' = size \/ (end > size[n] /\ size' = [size EXCEPT ![n] = end])
      BY <2>3, <3>1 DEF Extend
    <3>3. \A end \in Int : end > size[n] => end \in Nat
      BY <3>1
    <3> HIDE DEF n
    <3>4. size' \in [Files -> Nat \cup {Absent}]
      BY <3>1, <3>2, <3>3 DEF IInv, TypeOK
    <3> QED
      BY <1>1, <2>3, <3>4, FilesOnly DEF IInv, TypeOK
  <2> QED
    BY <2>1, <2>2, <2>3 DEF Write
<1>3. CASE \E n \in NewDirs \cup {Root} : MkDir(s, n)
  <2>1. PICK n \in NewDirs \cup {Root} : MkDir(s, n)
    BY <1>3
  <2>2. CASE Answer(s, "mkdir", 0, "failure") /\ UNCHANGED <<mapVars, fileVars, histVars>>
    BY <1>1, <2>2, Refused
  <2>3. CASE /\ n \in NewDirs /\ Answer(s, "mkdir", 0, "ok") /\ made' = made \cup {n}
             /\ UNCHANGED <<mapVars, size, shut, histVars>>
    BY <1>1, <2>3, FilesOnly DEF IInv, TypeOK
  <2> QED
    BY <2>1, <2>2, <2>3 DEF MkDir
<1>4. CASE OtherRequest(s)
  BY <1>1, <1>4, Refused DEF OtherRequest
<1> QED
  BY <1>2, <1>3, <1>4

-----------------------------------------------------------------------------
(* The theorems.                                                           *)

LEMMA StepIInv == IInv /\ [Next]_vars => IInv'
<1> SUFFICES ASSUME IInv, [Next]_vars PROVE IInv'
  OBVIOUS
<1>1. CASE UNCHANGED vars
  BY <1>1 DEF vars, mapVars, fileVars, histVars, IInv, TypeOK, FreshInv, CachesOfOpenHandles,
              NoFileLeft, InMap
<1>2. CASE Next
  <2>1. PICK s \in Sessions : Request(s) \/ Stop(s)
    BY <1>2 DEF Next
  <2>2. CASE \E n \in Names, flag \in Flags : Open(s, n, flag)
    BY <2>2, OpenKeeps
  <2>3. ASSUME NEW n \in Names, OpenDir(s, n) PROVE IInv'
    BY <2>3, OpenDirKeeps
  <2>4. CASE \E h \in Handles : Close(s, h) \/ ReadDir(s, h)
    BY <2>4, CloseKeeps, ReadDirKeeps
  <2>5. CASE \E h \in Handles, off \in 0..(Width - 1), len \in Lens : Read(s, h, off, len)
    BY <2>5, ReadKeeps
  <2>6. CASE Stop(s)
    BY <2>6, CleanUpKeeps DEF Stop
  <2> QED
    BY <2>1, <2>2, <2>3, <2>4, <2>5, <2>6, OthersKeep DEF Request
<1> QED
  BY <1>1, <1>2

\* The state of every session stays within its type, for any sessions, files
\* and bound.
THEOREM SftpTypeCorrect == Spec => []TypeOK
<1>1. IInv => TypeOK
  BY DEF IInv
<1> QED
  BY InitIInv, StepIInv, <1>1, PTL DEF Spec

\* No cache entry outlives the handle it was made for (sftp.go, close).
THEOREM CachesAreOfOpenHandles == Spec => []CachesOfOpenHandles
<1>1. IInv => CachesOfOpenHandles
  BY DEF IInv
<1> QED
  BY InitIInv, StepIInv, <1>1, PTL DEF Spec

\* The files a session has open are those in its map, and none outlives the
\* session, however it ends (sftp.go, cleanUp).
THEOREM SftpLeavesNoFile == Spec => []NoFileLeft
<1>1. IInv => NoFileLeft
  BY DEF IInv
<1> QED
  BY InitIInv, StepIInv, <1>1, PTL DEF Spec

\* Nothing but its own CLOSE changes what an open handle denotes.
LEMMA StepHandlesKeep ==
  ASSUME IInv, [Next]_vars
  PROVE  [\A s \in Sessions, h \in Handles :
            InMap(s, h) => handles'[s][h] \in {handles[s][h], None}]_vars
<1>1. CASE UNCHANGED handles
  BY <1>1
<1>2. ASSUME NEW s \in Sessions, NEW n \in Names, NEW mode \in Modes, NEW op \in Ops,
             Answer(s, op, next[s], "handle"), NewHandle(s, n, mode)
      PROVE  \A t \in Sessions, h \in Handles :
               InMap(t, h) => handles'[t][h] = handles[t][h]
  <2>1. next[s] \in Handles /\ ~InMap(s, next[s])
    <3>1. next[s] \in Nat /\ reqs \in Int /\ next[s] <= reqs /\ reqs < MaxReqs
      BY <1>2, SftpAssumption DEF SftpAssumption, Answer, IInv, TypeOK
    <3>2. next[s] \in Handles
      BY <3>1, SftpAssumption DEF SftpAssumption, Handles
    <3> QED
      BY <3>1, <3>2 DEF IInv, FreshInv
  <2>2. handles' = [handles EXCEPT ![s][next[s]] = [name |-> n, mode |-> mode]]
    BY <1>2 DEF NewHandle
  <2>3. handles \in [Sessions -> [Handles -> [name : Names, mode : Modes] \cup {None}]]
    BY DEF IInv, TypeOK
  <2> QED
    BY <2>1, <2>2, <2>3 DEF InMap
<1>3. ASSUME NEW s \in Sessions, NEW h \in Handles,
             handles' = [handles EXCEPT ![s][h] = None]
      PROVE  \A t \in Sessions, k \in Handles : handles'[t][k] \in {handles[t][k], None}
  BY <1>3 DEF IInv, TypeOK
<1>4. CASE Next
  <2>1. PICK s \in Sessions : Request(s) \/ Stop(s)
    BY <1>4 DEF Next
  <2>2. ASSUME NEW n \in Names, NEW flag \in Flags, Open(s, n, flag)
        PROVE  \A t \in Sessions, h \in Handles :
                 InMap(t, h) => handles'[t][h] \in {handles[t][h], None}
    <3>1. flag \in Modes /\ "open" \in Ops
      BY SftpAssumption DEF SftpAssumption, Ops
    <3> QED
      BY <1>1, <1>2, <2>2, <3>1 DEF Open, mapVars
  <2>3. ASSUME NEW n \in Names, OpenDir(s, n)
        PROVE  \A t \in Sessions, h \in Handles :
                 InMap(t, h) => handles'[t][h] \in {handles[t][h], None}
    <3>1. "read" \in Modes /\ "opendir" \in Ops
      BY DEF Modes, Ops
    <3> QED
      BY <1>1, <1>2, <2>3, <3>1 DEF OpenDir, mapVars
  <2>4. ASSUME NEW h \in Handles, Close(s, h)
        PROVE  \A t \in Sessions, k \in Handles :
                 InMap(t, k) => handles'[t][k] \in {handles[t][k], None}
    BY <1>3, <2>4 DEF Close, mapVars
  <2>5. CASE \E h \in Handles : ReadDir(s, h)
    BY <1>1, <2>5 DEF ReadDir, mapVars
  <2>6. CASE \E h \in Handles, off \in 0..(Width - 1), len \in Lens :
               Read(s, h, off, len) \/ Write(s, h, off, len)
    BY <1>1, <2>6 DEF Read, ReadFile, ReadNode, Write, CleanUp, mapVars
  <2>7. CASE \/ \E n \in NewDirs \cup {Root} : MkDir(s, n)
             \/ OtherRequest(s)
             \/ Stop(s)
    BY <1>1, <2>7 DEF MkDir, OtherRequest, Stop, CleanUp, mapVars
  <2> QED
    BY <2>1, <2>2, <2>3, <2>4, <2>5, <2>6, <2>7 DEF Request
<1>5. CASE UNCHANGED vars
  BY <1>1, <1>5 DEF vars, mapVars
<1> QED
  BY <1>4, <1>5

\* A handle denotes the file it was given for until it is closed, whatever else
\* the session opens and closes (sftp.go, Open and close).
THEOREM SftpHandlesKeep == Spec => HandlesKeep
<1>1. IInv /\ [Next]_vars => [\A s \in Sessions, h \in Handles :
        InMap(s, h) => handles'[s][h] \in {handles[s][h], None}]_vars
  BY StepHandlesKeep
<1> QED
  BY InitIInv, StepIInv, <1>1, PTL DEF Spec, HandlesKeep

-----------------------------------------------------------------------------
(* The limit on uploads, which needs to know that nobody opens a file for  *)
(* appending: then every handle writes where its request says.             *)

NoAppendInv == \A s \in Sessions, h \in Handles : InMap(s, h) => handles[s][h].mode # "append"

LInv == NoAppendInv /\ UploadsWithinLimit

\* Only OPEN, OPENDIR and CLOSE change the table of handles.
LEMMA WhoChangesHandles ==
  ASSUME NEW s \in Sessions, Request(s) \/ Stop(s)
  PROVE  \/ \E n \in Names, flag \in Flags : Open(s, n, flag)
         \/ \E n \in Names : OpenDir(s, n)
         \/ \E h \in Handles : Close(s, h)
         \/ UNCHANGED handles
<1>1. ASSUME NEW h \in Handles, ReadDir(s, h) PROVE UNCHANGED handles
  BY <1>1 DEF ReadDir, mapVars
<1>2. ASSUME NEW h \in Handles, NEW off \in 0..(Width - 1), NEW len \in Lens,
             Read(s, h, off, len)
      PROVE  UNCHANGED handles
  BY <1>2 DEF Read, ReadFile, ReadNode, CleanUp, mapVars
<1>3. ASSUME NEW h \in Handles, NEW off \in 0..(Width - 1), NEW len \in Lens,
             Write(s, h, off, len)
      PROVE  UNCHANGED handles
  BY <1>3 DEF Write, mapVars
<1>4. ASSUME NEW n \in NewDirs \cup {Root}, MkDir(s, n) PROVE UNCHANGED handles
  BY <1>4 DEF MkDir, mapVars
<1>5. ASSUME OtherRequest(s) \/ Stop(s) PROVE UNCHANGED handles
  BY <1>5 DEF OtherRequest, Stop, CleanUp, mapVars
<1> QED
  BY <1>1, <1>2, <1>3, <1>4, <1>5 DEF Request

\* Only OPEN and WRITE change the size of a file.
LEMMA WhoChangesSizes ==
  ASSUME NEW s \in Sessions, Request(s) \/ Stop(s)
  PROVE  \/ UNCHANGED size
         \/ \E n \in Names, flag \in Flags : Open(s, n, flag)
         \/ \E h \in Handles, off \in 0..(Width - 1), len \in Lens : Write(s, h, off, len)
<1>1. ASSUME NEW h \in Handles, Close(s, h) \/ ReadDir(s, h) PROVE UNCHANGED size
  BY <1>1 DEF Close, ReadDir, fileVars
<1>2. ASSUME NEW h \in Handles, NEW off \in 0..(Width - 1), NEW len \in Lens,
             Read(s, h, off, len)
      PROVE  UNCHANGED size
  BY <1>2 DEF Read, ReadFile, ReadNode, CleanUp, fileVars
<1>3. ASSUME NEW n \in Names, OpenDir(s, n) PROVE UNCHANGED size
  BY <1>3 DEF OpenDir, fileVars
<1>4. ASSUME NEW n \in NewDirs \cup {Root}, MkDir(s, n) PROVE UNCHANGED size
  BY <1>4 DEF MkDir, fileVars
<1>5. ASSUME OtherRequest(s) \/ Stop(s) PROVE UNCHANGED size
  BY <1>5 DEF OtherRequest, Stop, CleanUp, fileVars
<1> QED
  BY <1>1, <1>2, <1>3, <1>4, <1>5 DEF Request

LEMMA StepNoAppend ==
  ASSUME "append" \notin Flags, IInv, NoAppendInv, [Next]_vars
  PROVE  NoAppendInv'
<1> DEFINE New(s, n, mode) ==
      /\ next[s] \in Handles
      /\ handles' = [handles EXCEPT ![s][next[s]] = [name |-> n, mode |-> mode]]
<1>1. CASE UNCHANGED handles
  BY <1>1 DEF NoAppendInv, InMap
<1>2. ASSUME NEW s \in Sessions, NEW n \in Names, NEW mode \in Modes, mode # "append",
             New(s, n, mode)
      PROVE  NoAppendInv'
  <2> DEFINE new == [name |-> n, mode |-> mode]
  <2>1. new.mode # "append"
    BY <1>2
  <2>2. \A t \in Sessions, k \in Handles :
          handles'[t][k] = IF t = s /\ k = next[s] THEN new ELSE handles[t][k]
    BY <1>2 DEF IInv, TypeOK
  <2> HIDE DEF new
  <2> QED
    BY <2>1, <2>2 DEF NoAppendInv, InMap
<1>3. ASSUME NEW s \in Sessions, NEW h \in Handles,
             handles' = [handles EXCEPT ![s][h] = None]
      PROVE  NoAppendInv'
  BY <1>3 DEF IInv, TypeOK, NoAppendInv, InMap
<1>4. ASSUME NEW s \in Sessions, NEW op, NEW code, Answer(s, op, next[s], code)
      PROVE  next[s] \in Handles
  <2>1. next[s] \in Nat /\ reqs \in Int /\ next[s] <= reqs /\ reqs < MaxReqs
    BY <1>4, SftpAssumption DEF SftpAssumption, Answer, IInv, TypeOK
  <2> QED
    BY <2>1, SftpAssumption DEF SftpAssumption, Handles
<1>5. CASE Next
  <2>1. PICK s \in Sessions : Request(s) \/ Stop(s)
    BY <1>5 DEF Next
  <2>2. ASSUME NEW n \in Names, NEW flag \in Flags, Open(s, n, flag) PROVE NoAppendInv'
    <3>1. flag \in Modes /\ flag # "append"
      BY SftpAssumption DEF SftpAssumption
    <3>2. New(s, n, flag) \/ UNCHANGED handles
      BY <1>4, <2>2 DEF Open, NewHandle, mapVars
    <3> QED
      BY <1>1, <1>2, <3>1, <3>2
  <2>3. ASSUME NEW n \in Names, OpenDir(s, n) PROVE NoAppendInv'
    <3>1. "read" \in Modes /\ "read" # "append"
      BY DEF Modes
    <3>2. New(s, n, "read") \/ UNCHANGED handles
      BY <1>4, <2>3 DEF OpenDir, NewHandle, mapVars
    <3> QED
      BY <1>1, <1>2, <3>1, <3>2
  <2>4. ASSUME NEW h \in Handles, Close(s, h) PROVE NoAppendInv'
    BY <1>1, <1>3, <2>4 DEF Close, mapVars
  <2>5. CASE UNCHANGED handles
    BY <1>1, <2>5
  <2>6. \/ \E n \in Names, flag \in Flags : Open(s, n, flag)
        \/ \E n \in Names : OpenDir(s, n)
        \/ \E h \in Handles : Close(s, h)
        \/ UNCHANGED handles
    BY <2>1, WhoChangesHandles
  <2> QED
    BY <2>2, <2>3, <2>4, <2>5, <2>6
<1>6. CASE UNCHANGED vars
  BY <1>1, <1>6 DEF vars, mapVars
<1> QED
  BY <1>5, <1>6

LEMMA StepWithinLimit ==
  ASSUME IInv, NoAppendInv, UploadsWithinLimit, [Next]_vars
  PROVE  UploadsWithinLimit'
<1> SUFFICES ASSUME Limit > 0, NEW f \in Files PROVE size'[f] <= Limit
  BY DEF UploadsWithinLimit
<1>1. size[f] <= Limit
  BY DEF UploadsWithinLimit
<1>2. CASE UNCHANGED size
  BY <1>1, <1>2
<1>3. ASSUME NEW n \in Files, size' = [size EXCEPT ![n] = 0] PROVE size'[f] <= Limit
  BY <1>1, <1>3, SftpAssumption DEF SftpAssumption, IInv, TypeOK
<1>4. ASSUME NEW s \in Sessions, NEW h \in Handles, NEW off \in 0..(Width - 1), NEW len \in Lens,
             Write(s, h, off, len)
      PROVE  size'[f] <= Limit
  <2> DEFINE n == handles[s][h].name
  <2>1. CASE UNCHANGED size
    BY <1>2, <2>1
  <2>2. CASE /\ ~TooLarge(off, len) /\ InMap(s, h)
             /\ CanWrite(n, handles[s][h].mode, off)
             /\ Extend(n, handles[s][h].mode, off, len)
    <3>1. handles[s][h].mode # "append"
      BY <2>2 DEF NoAppendInv
    <3>2. off \in Nat /\ len \in Nat /\ off + len < Width
      BY <2>2, SftpAssumption DEF SftpAssumption, CanWrite
    <3>3. off + len <= Limit
      BY <2>2, <3>2, SftpAssumption DEF SftpAssumption, TooLarge, Sum
    <3>4. size' = size \/ size' = [size EXCEPT ![n] = off + len]
      BY <2>2, <3>1 DEF Extend
    <3> HIDE DEF n
    <3> QED
      BY <1>1, <3>3, <3>4 DEF IInv, TypeOK
  <2> QED
    BY <1>4, <2>1, <2>2 DEF Write, fileVars
<1>5. CASE Next
  <2>1. PICK s \in Sessions : Request(s) \/ Stop(s)
    BY <1>5 DEF Next
  <2>2. ASSUME NEW n \in Names, NEW flag \in Flags, Open(s, n, flag) PROVE size'[f] <= Limit
    <3>1. UNCHANGED size \/ (n \in Files /\ size' = [size EXCEPT ![n] = 0])
      BY <2>2 DEF Open, Resize, MayOpen, fileVars
    <3> QED
      BY <1>2, <1>3, <3>1
  <2>3. \/ UNCHANGED size
        \/ \E n \in Names, flag \in Flags : Open(s, n, flag)
        \/ \E h \in Handles, off \in 0..(Width - 1), len \in Lens : Write(s, h, off, len)
    BY <2>1, WhoChangesSizes
  <2> QED
    BY <1>2, <1>4, <2>2, <2>3
<1> QED
  BY <1>2, <1>5 DEF vars, fileVars

\* If nobody opens a file for appending, no upload grows beyond the limit,
\* although the sum that WRITE compares with it can wrap.
THEOREM SftpWithinLimit ==
  ASSUME "append" \notin Flags
  PROVE  Spec => []UploadsWithinLimit
<1>1. Init => LInv
  BY SftpAssumption DEF SftpAssumption, Init, LInv, NoAppendInv, UploadsWithinLimit, InMap, Absent
<1>2. IInv /\ LInv /\ [Next]_vars => LInv'
  BY StepNoAppend, StepWithinLimit DEF LInv
<1>3. LInv => UploadsWithinLimit
  BY DEF LInv
<1> QED
  BY InitIInv, StepIInv, <1>1, <1>2, <1>3, PTL DEF Spec

-----------------------------------------------------------------------------
(* Downloads: what a short read puts into the cache is what the handle has *)
(* read, when it has read in order.                                        *)

\* Only READ and CLOSE change the end-of-file cache, and READ only where there
\* is no entry.
LEMMA WhoChangesEof ==
  ASSUME NEW s \in Sessions, Request(s) \/ Stop(s)
  PROVE  \/ UNCHANGED <<eof, got>>
         \/ \E h \in Handles : UNCHANGED got /\ eof' = [eof EXCEPT ![s][h] = None]
         \/ \E h \in Handles, off \in 0..(Width - 1), len \in Lens :
              Readable(s, h, off) /\ ReadFile(s, h, off, len)
<1>1. ASSUME NEW n \in Names, NEW flag \in Flags, Open(s, n, flag) PROVE UNCHANGED <<eof, got>>
  BY <1>1 DEF Open, NewHandle, mapVars, histVars
<1>2. ASSUME NEW n \in Names, OpenDir(s, n) PROVE UNCHANGED <<eof, got>>
  BY <1>2 DEF OpenDir, NewHandle, mapVars, histVars
<1>3. ASSUME NEW h \in Handles, Close(s, h)
      PROVE  \/ UNCHANGED <<eof, got>>
             \/ UNCHANGED got /\ eof' = [eof EXCEPT ![s][h] = None]
  BY <1>3 DEF Close, mapVars, histVars
<1>4. ASSUME NEW h \in Handles, ReadDir(s, h) PROVE UNCHANGED <<eof, got>>
  BY <1>4 DEF ReadDir, mapVars, histVars
<1>5. ASSUME NEW h \in Handles, NEW off \in 0..(Width - 1), NEW len \in Lens,
             Read(s, h, off, len)
      PROVE  \/ UNCHANGED <<eof, got>>
             \/ Readable(s, h, off) /\ ReadFile(s, h, off, len)
  BY <1>5 DEF Read, ReadNode, CleanUp, mapVars, histVars
<1>6. ASSUME NEW h \in Handles, NEW off \in 0..(Width - 1), NEW len \in Lens,
             Write(s, h, off, len)
      PROVE  UNCHANGED <<eof, got>>
  BY <1>6 DEF Write, mapVars, histVars
<1>7. ASSUME NEW n \in NewDirs \cup {Root}, MkDir(s, n) PROVE UNCHANGED <<eof, got>>
  BY <1>7 DEF MkDir, mapVars, histVars
<1>8. ASSUME OtherRequest(s) \/ Stop(s) PROVE UNCHANGED <<eof, got>>
  BY <1>8 DEF OtherRequest, Stop, CleanUp, mapVars, histVars
<1> QED
  BY <1>1, <1>2, <1>3, <1>4, <1>5, <1>6, <1>7, <1>8 DEF Request

LEMMA StepDownload ==
  ASSUME IInv, DownloadIsComplete, [Next]_vars
  PROVE  DownloadIsComplete'
<1>1. CASE UNCHANGED <<eof, got>>
  BY <1>1 DEF DownloadIsComplete
<1>2. ASSUME NEW s \in Sessions, NEW h \in Handles, UNCHANGED got,
             eof' = [eof EXCEPT ![s][h] = None]
      PROVE  DownloadIsComplete'
  BY <1>2 DEF DownloadIsComplete, IInv, TypeOK
<1>3. ASSUME NEW s \in Sessions, NEW h \in Handles, NEW off \in 0..(Width - 1), NEW len \in Lens,
             Readable(s, h, off), ReadFile(s, h, off, len)
      PROVE  DownloadIsComplete'
  <2> DEFINE z == size[handles[s][h].name]
             data == IF off >= z THEN 0 ELSE IF off + len > z THEN z - off ELSE len
             read == IF off = got[s][h] THEN got[s][h] + data ELSE Absent
  <2>1. z \in Int /\ off \in Nat /\ len \in Nat
    BY <1>3, SftpAssumption DEF SftpAssumption, Readable, IInv, TypeOK, Absent
  <2>2. /\ eof' = IF data < len THEN [eof EXCEPT ![s][h] = z] ELSE eof
        /\ got' = [got EXCEPT ![s][h] = read]
    BY <1>3 DEF ReadFile
  <2>3. data < len /\ read # Absent => read >= z
    BY <2>1
  <2>4. read # Absent => data \in Nat /\ read = got[s][h] + data /\ got[s][h] \in Nat
    BY <2>1
  <2>5. \A t \in Sessions, k \in Handles :
          /\ got'[t][k] = IF t = s /\ k = h THEN read ELSE got[t][k]
          /\ eof'[t][k] = IF t = s /\ k = h /\ data < len THEN z ELSE eof[t][k]
    <3> HIDE DEF read, data, z
    <3> QED
      BY <2>2 DEF IInv, TypeOK
  <2>6. eof[s][h] # None => eof[s][h] \in Int
    BY DEF IInv, TypeOK
  <2> HIDE DEF read, data, z
  <2>7. ASSUME NEW t \in Sessions, NEW k \in Handles, eof'[t][k] # None, got'[t][k] # Absent
        PROVE  got'[t][k] >= eof'[t][k]
    <3>1. CASE t = s /\ k = h
      <4>1. CASE data < len
        BY <2>3, <2>5, <2>7, <3>1, <4>1
      <4>2. CASE ~(data < len)
        <5>1. eof[s][h] # None /\ read # Absent
          BY <2>5, <2>7, <3>1, <4>2
        <5>2. got[s][h] >= eof[s][h]
          BY <2>4, <5>1, SftpAssumption DEF DownloadIsComplete, Absent
        <5> QED
          BY <2>4, <2>5, <2>6, <3>1, <4>2, <5>1, <5>2
      <4> QED
        BY <4>1, <4>2
    <3>2. CASE ~(t = s /\ k = h)
      BY <2>5, <2>7, <3>2 DEF DownloadIsComplete
    <3> QED
      BY <3>1, <3>2
  <2> QED
    BY <2>7 DEF DownloadIsComplete
<1>4. CASE Next
  <2>1. PICK s \in Sessions : Request(s) \/ Stop(s)
    BY <1>4 DEF Next
  <2> QED
    BY <1>1, <1>2, <1>3, <2>1, WhoChangesEof
<1> QED
  BY <1>1, <1>4 DEF vars, mapVars, histVars

\* A client that reads a file in order up to the end-of-file answer has got all
\* of it, as long as it was when its end was met (sftp.go, ReadFile).
THEOREM SftpDownloads == Spec => []DownloadIsComplete
<1>1. Init => DownloadIsComplete
  BY DEF Init, DownloadIsComplete
<1>2. IInv /\ DownloadIsComplete /\ [Next]_vars => DownloadIsComplete'
  BY StepDownload
<1> QED
  BY InitIInv, StepIInv, <1>1, <1>2, PTL DEF Spec

-----------------------------------------------------------------------------
(* Listings: the pages delivered on a handle are put together in the order *)
(* of its cache.                                                           *)

\* Nothing has been delivered on a handle that has no cache yet.
UnlistedInv == \A s \in Sessions, h \in Handles :
  dirs[s][h] = None /\ (InMap(s, h) \/ h >= next[s]) => listed[s][h] = <<>>

\* What has been delivered on a handle with the cache dir.
Delivered(dir, list) ==
  /\ list = SubSeq(dir.names, 1, Len(list))
  /\ Len(list) = IF dir.off > Len(dir.names) THEN Len(dir.names) ELSE dir.off

Listings == [off : Nat, names : Seq(Names)]

LEMMA PageExtends ==
  ASSUME NEW q \in Seq(Names), NEW m \in 0..Len(q), NEW n \in m..Len(q)
  PROVE  /\ SubSeq(q, 1, m) \o SubSeq(q, m + 1, n) = SubSeq(q, 1, n)
         /\ Len(SubSeq(q, 1, n)) = n
OBVIOUS

\* A page moves the offset, and what has been delivered with it.
Paged(s, h, dir) ==
  /\ \E new \in Listings :
       dirs' = [dirs EXCEPT ![s][h] = new] /\ Delivered(new, listed'[s][h])
  /\ \A t \in Sessions, k \in Handles : (t = s /\ k = h) \/ listed'[t][k] = listed[t][k]
  /\ reply'.code = "eof" => listed'[s][h] = dir.names /\ dirs' = [dirs EXCEPT ![s][h] = dir]

LEMMA PageDelivers ==
  ASSUME NEW s \in Sessions, NEW h \in Handles, listed \in [Sessions -> [Handles -> Seq(Names)]],
         NEW dir \in Listings,
         Delivered(dir, listed[s][h]), ReadPage(s, h, dir)
  PROVE  Paged(s, h, dir)
<1> DEFINE end  == dir.off + PageSize
           last == IF end > Len(dir.names) THEN Len(dir.names) ELSE end
<1>1. dir.off \in Nat /\ Len(dir.names) \in Nat /\ dir.names \in Seq(Names) /\ end \in Nat
      /\ end > dir.off
  BY SftpAssumption DEF SftpAssumption, Listings
<1>2. CASE dir.off > Len(dir.names)
  <2>1. listed' = listed /\ dirs' = [dirs EXCEPT ![s][h] = dir]
    BY <1>2 DEF ReadPage
  <2>2. listed[s][h] = dir.names
    BY <1>1, <1>2 DEF Delivered
  <2> QED
    BY <1>2, <2>1, <2>2 DEF Paged
<1>3. CASE ~(dir.off > Len(dir.names))
  <2> DEFINE new == [dir EXCEPT !.off = end]
             page == SubSeq(dir.names, dir.off + 1, last)
  <2>1. /\ listed' = [listed EXCEPT ![s][h] = @ \o page]
        /\ dirs' = [dirs EXCEPT ![s][h] = new]
        /\ reply'.code = "name"
    <3>1. /\ Answer(s, "readdir", h, "name")
          /\ dirs' = [dirs EXCEPT ![s][h] = new]
          /\ listed' = [listed EXCEPT ![s][h] = @ \o page]
      BY <1>3 DEF ReadPage
    <3> QED
      BY <3>1 DEF Answer
  <2>2. dir.off \in 0..Len(dir.names) /\ last \in dir.off..Len(dir.names)
    BY <1>1, <1>3
  <2>3. listed[s][h] = SubSeq(dir.names, 1, dir.off)
    BY <1>1, <1>3 DEF Delivered
  <2>4. /\ listed[s][h] \o page = SubSeq(dir.names, 1, last)
        /\ Len(listed[s][h] \o page) = last
    <3> HIDE DEF last
    <3>1. /\ SubSeq(dir.names, 1, dir.off) \o SubSeq(dir.names, dir.off + 1, last)
                = SubSeq(dir.names, 1, last)
          /\ Len(SubSeq(dir.names, 1, last)) = last
      BY <1>1, <2>2, PageExtends
    <3> QED
      BY <2>3, <3>1
  <2>5. new \in Listings /\ new.off = end /\ new.names = dir.names
    BY <1>1 DEF Listings
  <2>6. /\ listed'[s][h] = listed[s][h] \o page
        /\ \A t \in Sessions, k \in Handles : (t = s /\ k = h) \/ listed'[t][k] = listed[t][k]
    <3> HIDE DEF page
    <3> QED
      BY <2>1
  <2> HIDE DEF new, page
  <2>7. Delivered(new, listed'[s][h])
    BY <2>4, <2>5, <2>6 DEF Delivered
  <2> QED
    BY <2>1, <2>5, <2>6, <2>7 DEF Paged
<1> QED
  BY <1>2, <1>3

\* The caches and what has been delivered stay, no open handle is replaced, and
\* no listing is announced to have ended.
NoListing ==
  /\ UNCHANGED <<dirs, listed>>
  /\ \A t \in Sessions, k \in Handles :
       /\ InMap(t, k)' => InMap(t, k) \/ k >= next[t]
       /\ k >= next'[t] => k >= next[t]
  /\ reply' = reply \/ reply'.op # "readdir" \/ reply'.code # "eof"

LEMMA NewHandleLists ==
  ASSUME IInv, NEW s \in Sessions, NEW n, NEW mode, NEW op, op # "readdir",
         Answer(s, op, next[s], "handle"), NewHandle(s, n, mode)
  PROVE  NoListing
<1>1. handles' = [handles EXCEPT ![s][next[s]] = [name |-> n, mode |-> mode]]
      /\ next' = [next EXCEPT ![s] = @ + 1] /\ UNCHANGED <<dirs, listed>>
  BY DEF NewHandle
<1>2. reply'.op # "readdir"
  BY DEF Answer
<1>3. \A t \in Sessions : next[t] \in Nat
  BY SftpAssumption DEF SftpAssumption, IInv, TypeOK
<1>4. next \in [Sessions -> Nat] /\ next[s] \in Nat
  BY <1>3 DEF IInv, TypeOK
<1>5. \A t \in Sessions, k \in Handles : (t = s /\ k = next[s]) \/ handles'[t][k] = handles[t][k]
  BY <1>1 DEF IInv, TypeOK
<1>6. \A t \in Sessions, k \in Handles : k >= next'[t] => k >= next[t]
  <2>1. \A k \in Handles : k \in Int
    BY DEF Handles
  <2> QED
    BY <1>1, <1>4, <2>1 DEF IInv, TypeOK
<1>7. \A t \in Sessions, k \in Handles : InMap(t, k)' => InMap(t, k) \/ k >= next[t]
  <2>1. \A k \in Handles : k \in Int
    BY DEF Handles
  <2> QED
    BY <1>4, <1>5, <2>1 DEF InMap
<1> QED
  BY <1>1, <1>2, <1>6, <1>7 DEF NoListing

LEMMA KeepsLists ==
  ASSUME UNCHANGED <<dirs, listed, handles, next>>,
         reply' = reply \/ reply'.op # "readdir" \/ reply'.code # "eof"
  PROVE  NoListing
BY DEF NoListing, InMap

\* The cache that READDIR reads from.
PageOf(s, h) ==
  IF dirs[s][h] # None THEN dirs[s][h]
  ELSE [off |-> 0, names |-> IF handles[s][h].name = Root THEN Entries ELSE <<>>]

LEMMA WhoLists ==
  ASSUME IInv, NEW s \in Sessions, Request(s) \/ Stop(s)
  PROVE  \/ NoListing
         \/ \E h \in Handles : /\ UNCHANGED <<next, listed>> /\ reply'.op = "close"
                               /\ handles' = [handles EXCEPT ![s][h] = None]
                               /\ dirs' = [dirs EXCEPT ![s][h] = None]
         \/ \E h \in Handles : /\ InMap(s, h) /\ UNCHANGED <<next, handles>>
                               /\ ReadPage(s, h, PageOf(s, h))
<1>1. ASSUME NEW n \in Names, NEW flag \in Flags, Open(s, n, flag) PROVE NoListing
  <2>1. CASE Answer(s, "open", next[s], "handle") /\ NewHandle(s, n, flag)
    BY <2>1, NewHandleLists
  <2>2. CASE Answer(s, "open", 0, "failure") /\ UNCHANGED <<mapVars, histVars>>
    BY <2>2, KeepsLists DEF Answer, mapVars, histVars
  <2> QED
    BY <1>1, <2>1, <2>2 DEF Open
<1>2. ASSUME NEW n \in Names, OpenDir(s, n) PROVE NoListing
  <2>1. CASE Answer(s, "opendir", next[s], "handle") /\ NewHandle(s, n, "read")
    BY <2>1, NewHandleLists
  <2>2. CASE Answer(s, "opendir", 0, "nosuchfile") /\ UNCHANGED <<mapVars, histVars>>
    BY <2>2, KeepsLists DEF Answer, mapVars, histVars
  <2> QED
    BY <1>2, <2>1, <2>2 DEF OpenDir
<1>3. ASSUME NEW h \in Handles, Close(s, h)
      PROVE  \/ NoListing
             \/ /\ UNCHANGED <<next, listed>> /\ reply'.op = "close"
                /\ handles' = [handles EXCEPT ![s][h] = None]
                /\ dirs' = [dirs EXCEPT ![s][h] = None]
  BY <1>3, KeepsLists DEF Close, Answer, mapVars, histVars
<1>4. ASSUME NEW h \in Handles, ReadDir(s, h)
      PROVE  \/ NoListing
             \/ InMap(s, h) /\ UNCHANGED <<next, handles>> /\ ReadPage(s, h, PageOf(s, h))
  <2>1. CASE Answer(s, "readdir", h, "failure") /\ UNCHANGED <<mapVars, histVars>>
    BY <2>1, KeepsLists DEF Answer, mapVars, histVars
  <2>2. CASE InMap(s, h) /\ UNCHANGED <<next, handles>> /\ ReadPage(s, h, PageOf(s, h))
    BY <2>2
  <2> QED
    BY <1>4, <2>1, <2>2 DEF ReadDir, PageOf
<1>5. ASSUME NEW h \in Handles, NEW off \in 0..(Width - 1), NEW len \in Lens,
             Read(s, h, off, len)
      PROVE  NoListing
  BY <1>5, KeepsLists DEF Read, ReadFile, ReadNode, CleanUp, Answer, mapVars, histVars
<1>6. ASSUME NEW h \in Handles, NEW off \in 0..(Width - 1), NEW len \in Lens,
             Write(s, h, off, len)
      PROVE  NoListing
  BY <1>6, KeepsLists DEF Write, Answer, mapVars, histVars
<1>7. ASSUME NEW n \in NewDirs \cup {Root}, MkDir(s, n) PROVE NoListing
  BY <1>7, KeepsLists DEF MkDir, Answer, mapVars, histVars
<1>8. CASE OtherRequest(s)
  BY <1>8, KeepsLists DEF OtherRequest, Answer, mapVars, histVars
<1>9. CASE Stop(s)
  BY <1>9, KeepsLists DEF Stop, CleanUp, mapVars
<1> QED
  BY <1>1, <1>2, <1>3, <1>4, <1>5, <1>6, <1>7, <1>8, <1>9 DEF Request

LEMMA StepListing ==
  ASSUME IInv, UnlistedInv, ListingIsDirectory, [Next]_vars
  PROVE  UnlistedInv' /\ ListingIsDirectory'
<1>1. ASSUME NoListing
      PROVE  UnlistedInv' /\ ListingIsDirectory'
  <2>1. UnlistedInv'
    BY <1>1 DEF NoListing, UnlistedInv
  <2>2. ASSUME NEW s \in Sessions, NEW h \in Handles,
               reply' = [ses |-> s, op |-> "readdir", hnd |-> h, code |-> "eof"]
        PROVE  reply = reply'
    BY <1>1, <2>2 DEF NoListing
  <2> QED
    BY <1>1, <2>1, <2>2 DEF NoListing, ListingIsDirectory
<1>2. ASSUME NEW s \in Sessions, NEW h \in Handles, UNCHANGED <<next, listed>>,
             reply'.op = "close", handles' = [handles EXCEPT ![s][h] = None],
             dirs' = [dirs EXCEPT ![s][h] = None]
      PROVE  UnlistedInv' /\ ListingIsDirectory'
  <2>1. \A t \in Sessions, k \in Handles :
          /\ handles'[t][k] = IF t = s /\ k = h THEN None ELSE handles[t][k]
          /\ dirs'[t][k] = IF t = s /\ k = h THEN None ELSE dirs[t][k]
    BY <1>2 DEF IInv, TypeOK
  <2>2. ListingIsDirectory'
    BY <1>2, <2>1 DEF ListingIsDirectory
  <2>3. UnlistedInv'
    <3>1. h < next[s] \/ ~InMap(s, h)
      BY SftpAssumption DEF SftpAssumption, IInv, TypeOK, FreshInv, Handles
    <3>2. ~InMap(s, h) => dirs[s][h] = None
      BY DEF IInv, CachesOfOpenHandles
    <3>3. \A k \in Handles : k >= next[s] /\ k = h => listed[s][h] = <<>>
      BY <3>1, <3>2 DEF UnlistedInv, IInv, FreshInv
    <3> QED
      BY <1>2, <2>1, <3>3 DEF UnlistedInv, InMap
  <2> QED
    BY <2>2, <2>3
<1>3. ASSUME NEW s \in Sessions, NEW h \in Handles, InMap(s, h), UNCHANGED <<next, handles>>,
             ReadPage(s, h, PageOf(s, h))
      PROVE  UnlistedInv' /\ ListingIsDirectory'
  <2>1. listed \in [Sessions -> [Handles -> Seq(Names)]]
        /\ dirs \in [Sessions -> [Handles -> Listings \cup {None}]]
    BY DEF IInv, TypeOK, Listings
  <2>2. PICK dir \in Listings : dir = PageOf(s, h)
    <3>1. [off |-> 0, names |-> IF handles[s][h].name = Root THEN Entries ELSE <<>>] \in Listings
      BY EntriesType DEF Listings
    <3> QED
      BY <2>1, <3>1 DEF PageOf
  <2>3. Delivered(dir, listed[s][h])
    <3>1. CASE dirs[s][h] # None
      BY <2>2, <3>1 DEF PageOf, ListingIsDirectory, Delivered
    <3>2. CASE dirs[s][h] = None
      <4>1. listed[s][h] = <<>>
        BY <1>3, <3>2 DEF UnlistedInv
      <4>2. dir.off = 0 /\ dir.names \in Seq(Names)
        BY <2>2, <3>2 DEF PageOf, Listings
      <4> QED
        BY <4>1, <4>2 DEF Delivered
    <3> QED
      BY <3>1, <3>2
  <2>4. Paged(s, h, dir)
    <3>1. ReadPage(s, h, dir)
      BY <1>3, <2>2
    <3> QED
      BY <2>1, <2>2, <2>3, <3>1, PageDelivers
  <2>5. PICK new \in Listings : dirs' = [dirs EXCEPT ![s][h] = new] /\ Delivered(new, listed'[s][h])
    BY <2>4 DEF Paged
  <2>6. /\ dirs'[s][h] = new /\ new # None
        /\ \A t \in Sessions, k \in Handles : (t = s /\ k = h) \/ dirs'[t][k] = dirs[t][k]
    BY <2>1, <2>5, SftpAssumption DEF SftpAssumption, Listings
  <2>7. reply'.ses = s /\ reply'.hnd = h
    BY <1>3 DEF ReadPage, Answer
  <2>8. reply'.code = "eof" => listed'[s][h] = new.names
    <3>1. reply'.code = "eof" => new = dir
      BY <2>1, <2>2, <2>4, <2>6 DEF Paged
    <3> QED
      BY <2>4, <3>1 DEF Paged
  <2>9. UnlistedInv'
    BY <1>3, <2>4, <2>6 DEF Paged, UnlistedInv, InMap
  <2>10. ASSUME NEW t \in Sessions, NEW k \in Handles, dirs'[t][k] # None
         PROVE  /\ Delivered(dirs'[t][k], listed'[t][k])
                /\ reply' = [ses |-> t, op |-> "readdir", hnd |-> k, code |-> "eof"]
                     => listed'[t][k] = dirs'[t][k].names
    <3>1. CASE t = s /\ k = h
      BY <2>5, <2>6, <2>8, <3>1
    <3>2. CASE ~(t = s /\ k = h)
      <4>1. reply' # [ses |-> t, op |-> "readdir", hnd |-> k, code |-> "eof"]
        BY <2>7, <3>2
      <4>2. dirs'[t][k] = dirs[t][k] /\ listed'[t][k] = listed[t][k]
        BY <2>4, <2>6, <3>2 DEF Paged
      <4> QED
        BY <2>10, <4>1, <4>2 DEF ListingIsDirectory, Delivered
    <3> QED
      BY <3>1, <3>2
  <2> QED
    BY <2>9, <2>10 DEF ListingIsDirectory, Delivered
<1>4. CASE Next
  <2>1. PICK s \in Sessions : Request(s) \/ Stop(s)
    BY <1>4 DEF Next
  <2> QED
    BY <1>1, <1>2, <1>3, <2>1, WhoLists
<1>5. CASE UNCHANGED vars
  BY <1>1, <1>5, KeepsLists DEF vars, mapVars, histVars
<1> QED
  BY <1>4, <1>5

\* The pages of a listing are the directory as it was at the first READDIR, each
\* entry once, and the end comes after the last (sftp.go, ReadDir).
THEOREM SftpListings == Spec => []ListingIsDirectory
<1>1. Init => UnlistedInv /\ ListingIsDirectory
  BY DEF Init, UnlistedInv, ListingIsDirectory
<1>2. IInv /\ UnlistedInv /\ ListingIsDirectory /\ [Next]_vars => UnlistedInv' /\ ListingIsDirectory'
  BY StepListing
<1> QED
  BY InitIInv, StepIInv, <1>1, <1>2, PTL DEF Spec
=============================================================================
