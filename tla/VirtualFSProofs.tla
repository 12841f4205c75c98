-------------------------- MODULE VirtualFSProofs --------------------------
(***************************************************************************)
(* What the image holds, for any disks, archives and names: the tree that  *)
(* NewVirtualFS makes of an archive, and of one that createfs has written; *)
(* and what lookups find in it, compared with rewriting their paths.       *)
(***************************************************************************)
EXTENDS VirtualFS, SequenceTheorems, FiniteSetTheorems, WellFoundedInduction, TLAPS

-----------------------------------------------------------------------------
(* Induction over the numbers, by sets.                                    *)

\* Every set of numbers has a least one: the sets 1..n are well-ordered.
LEMMA LeastOfSet ==
  ASSUME NEW S \in SUBSET Nat, S # {}
  PROVE  \E n \in S : \A m \in S : n <= m
<1> DEFINE R == StrictSubsetOrdering(Nat)
           T == {1..n : n \in S}
<1>1. IsWellFoundedOn(R, FiniteSubsetsOf(Nat))
  BY FS_StrictSubsetOrderingWellFounded
<1>2. T \subseteq FiniteSubsetsOf(Nat)
  <2>1. \A n \in Nat : IsFiniteSet(1..n) /\ 1..n \in SUBSET Nat
    BY FS_Interval
  <2> QED  BY <2>1 DEF FiniteSubsetsOf
<1>3. \A m, n \in Nat : m < n => <<1..m, 1..n>> \in R
  <2> TAKE m, n \in Nat
  <2> HAVE m < n
  <2>1. 1..m \in SUBSET Nat /\ 1..n \in SUBSET Nat /\ 1..m \subseteq 1..n
    OBVIOUS
  <2>2. n \in 1..n /\ n \notin 1..m
    OBVIOUS
  <2> QED  BY <2>1, <2>2 DEF StrictSubsetOrdering
<1>4. T # {}
  OBVIOUS
<1> HIDE DEF R, T
<1>5. \E x \in T : \A y \in T : <<y, x>> \notin R
  BY <1>1, <1>2, <1>4, WFMin
<1>6. PICK n \in S : \A y \in T : <<y, 1..n>> \notin R
  BY <1>5 DEF T
<1>7. \A m \in S : <<1..m, 1..n>> \notin R
  BY <1>6 DEF T
<1>8. ASSUME NEW m \in S PROVE n <= m
  <2>1. m \in Nat /\ n \in Nat /\ ~(m < n)
    BY <1>3, <1>7
  <2> QED  BY <2>1
<1> QED  BY <1>6, <1>8

\* Induction over the numbers, for a set.
LEMMA InductionOnSet ==
  ASSUME NEW S, 0 \in S, \A n \in Nat : n \in S => n + 1 \in S
  PROVE  \A n \in Nat : n \in S
<1> SUFFICES ASSUME Nat \ S # {} PROVE FALSE
  OBVIOUS
<1>1. PICK n \in Nat \ S : \A m \in Nat \ S : n <= m
  BY LeastOfSet
<1>2. n # 0 /\ n - 1 \in Nat /\ ~(n <= n - 1) /\ n - 1 + 1 = n
  BY <1>1
<1> QED  BY <1>1, <1>2

-----------------------------------------------------------------------------
(* Paths.                                                                  *)

LEMMA PrefixIn ==
  ASSUME NEW S, NEW p \in Seq(S), NEW n \in 0..Len(p)
  PROVE  /\ SubSeq(p, 1, n) \in Seq(S)
         /\ Len(SubSeq(p, 1, n)) = n
         /\ \A i \in 1..n : SubSeq(p, 1, n)[i] = p[i]
<1>1. n \in Int /\ 1 \in Int /\ Len(p) \in Nat
  BY LenProperties
<1>2. \A i \in 1..n : p[i] \in S
  BY <1>1, ElementOfSeq
<1>3. /\ SubSeq(p, 1, n) \in Seq(S)
      /\ Len(SubSeq(p, 1, n)) = IF 1 <= n THEN n - 1 + 1 ELSE 0
      /\ \A i \in 1..(n - 1 + 1) : SubSeq(p, 1, n)[i] = p[1 + i - 1]
  BY <1>1, <1>2, SubSeqProperties
<1> QED  BY <1>1, <1>3

LEMMA PrefixOfPrefix ==
  ASSUME NEW S, NEW p \in Seq(S), NEW n \in 0..Len(p), NEW m \in 0..n
  PROVE  SubSeq(SubSeq(p, 1, n), 1, m) = SubSeq(p, 1, m)
<1>1. Len(p) \in Nat /\ m \in 0..Len(p) /\ m \in Nat
  BY LenProperties
<1>2. /\ SubSeq(p, 1, n) \in Seq(S) /\ Len(SubSeq(p, 1, n)) = n
      /\ \A i \in 1..n : SubSeq(p, 1, n)[i] = p[i]
  BY PrefixIn
<1>3. /\ SubSeq(p, 1, m) \in Seq(S) /\ Len(SubSeq(p, 1, m)) = m
      /\ \A i \in 1..m : SubSeq(p, 1, m)[i] = p[i]
  BY <1>1, PrefixIn
<1> DEFINE q == SubSeq(p, 1, n)
<1>4. q \in Seq(S) /\ m \in 0..Len(q)
  BY <1>1, <1>2
<1>5. /\ SubSeq(q, 1, m) \in Seq(S) /\ Len(SubSeq(q, 1, m)) = m
      /\ \A i \in 1..m : SubSeq(q, 1, m)[i] = q[i]
  <2> HIDE DEF q
  <2> QED  BY <1>4, PrefixIn
<1>6. \A i \in 1..m : q[i] = p[i]
  BY <1>1, <1>2
<1> DEFINE a == SubSeq(q, 1, m)
           b == SubSeq(p, 1, m)
<1>7. a \in Seq(S) /\ b \in Seq(S) /\ Len(a) = Len(b) /\ \A i \in 1..Len(a) : a[i] = b[i]
  BY <1>1, <1>3, <1>5, <1>6
<1> HIDE DEF a, b
<1>8. a = b
  BY <1>7, SeqEqual
<1> QED  BY <1>8 DEF a, b

LEMMA PrefixOfConcat ==
  ASSUME NEW S, NEW p \in Seq(S), NEW s \in Seq(S), NEW n \in 0..Len(p)
  PROVE  SubSeq(p \o s, 1, n) = SubSeq(p, 1, n)
<1>1. Len(p) \in Nat /\ Len(s) \in Nat /\ n \in Nat
  BY LenProperties
<1>2. /\ p \o s \in Seq(S) /\ Len(p \o s) = Len(p) + Len(s)
      /\ \A i \in 1..(Len(p) + Len(s)) : (p \o s)[i] = IF i <= Len(p) THEN p[i] ELSE s[i - Len(p)]
  BY ConcatProperties
<1>3. /\ SubSeq(p, 1, n) \in Seq(S) /\ Len(SubSeq(p, 1, n)) = n
      /\ \A i \in 1..n : SubSeq(p, 1, n)[i] = p[i]
  BY PrefixIn
<1> DEFINE q == p \o s
<1>4. q \in Seq(S) /\ n \in 0..Len(q) /\ \A i \in 1..n : q[i] = p[i]
  BY <1>1, <1>2
<1> HIDE DEF q
<1>5. /\ SubSeq(q, 1, n) \in Seq(S) /\ Len(SubSeq(q, 1, n)) = n
      /\ \A i \in 1..n : SubSeq(q, 1, n)[i] = q[i]
  BY <1>4, PrefixIn
<1> DEFINE a == SubSeq(q, 1, n)
           b == SubSeq(p, 1, n)
<1>7. a \in Seq(S) /\ b \in Seq(S) /\ Len(a) = Len(b) /\ \A i \in 1..Len(a) : a[i] = b[i]
  BY <1>1, <1>3, <1>4, <1>5
<1> HIDE DEF a, b
<1>8. a = b
  BY <1>7, SeqEqual
<1> QED  BY <1>8 DEF a, b, q

LEMMA RestOfConcat ==
  ASSUME NEW S, NEW p \in Seq(S), NEW s \in Seq(S), NEW n \in 0..Len(p)
  PROVE  SubSeq(p \o s, n + 1, Len(p \o s)) = SubSeq(p, n + 1, Len(p)) \o s
<1>1. Len(p) \in Nat /\ Len(s) \in Nat /\ n \in Nat
  BY LenProperties
<1>2. /\ p \o s \in Seq(S) /\ Len(p \o s) = Len(p) + Len(s)
      /\ \A i \in 1..(Len(p) + Len(s)) : (p \o s)[i] = IF i <= Len(p) THEN p[i] ELSE s[i - Len(p)]
  BY ConcatProperties
<1> DEFINE q == p \o s
           l == Len(p) + Len(s)
           a == SubSeq(q, n + 1, l)
           r == SubSeq(p, n + 1, Len(p))
           b == r \o s
<1>3. \A i \in (n + 1)..Len(p) : p[i] \in S
  BY <1>1, ElementOfSeq
<1>4. n + 1 \in Int /\ Len(p) \in Int /\ l \in Int
  BY <1>1
<1>5. /\ r \in Seq(S) /\ Len(r) = Len(p) - n
      /\ \A i \in 1..(Len(p) - n) : r[i] = p[n + i]
  <2>1. /\ r \in Seq(S) /\ Len(r) = IF n + 1 <= Len(p) THEN Len(p) - (n + 1) + 1 ELSE 0
        /\ \A i \in 1..(Len(p) - (n + 1) + 1) : r[i] = p[n + 1 + i - 1]
    BY <1>3, <1>4, SubSeqProperties
  <2> HIDE DEF r
  <2> QED  BY <1>1, <2>1
<1>6. \A i \in (n + 1)..l : q[i] \in S
  BY <1>1, <1>2, ElementOfSeq
<1>7. /\ a \in Seq(S) /\ Len(a) = l - n
      /\ \A i \in 1..(l - n) : a[i] = q[n + i]
  <2>1. /\ a \in Seq(S) /\ Len(a) = IF n + 1 <= l THEN l - (n + 1) + 1 ELSE 0
        /\ \A i \in 1..(l - (n + 1) + 1) : a[i] = q[n + 1 + i - 1]
    <3> HIDE DEF q, l
    <3> QED  BY <1>4, <1>6, SubSeqProperties
  <2> HIDE DEF a, q
  <2>2. l \in Nat /\ n <= l /\ l - (n + 1) + 1 = l - n
    BY <1>1
  <2>3. \A i \in 1..(l - n) : n + 1 + i - 1 = n + i
    BY <1>1, <2>2
  <2> HIDE DEF l
  <2> QED  BY <1>1, <2>1, <2>2, <2>3
<1>8. /\ b \in Seq(S) /\ Len(b) = l - n
      /\ \A i \in 1..(l - n) : b[i] = IF i <= Len(p) - n THEN r[i] ELSE s[i - (Len(p) - n)]
  <2>1. /\ b \in Seq(S) /\ Len(b) = Len(r) + Len(s)
        /\ \A i \in 1..(Len(r) + Len(s)) : b[i] = IF i <= Len(r) THEN r[i] ELSE s[i - Len(r)]
    <3> HIDE DEF r
    <3> QED  BY <1>5, ConcatProperties
  <2>2. Len(r) + Len(s) = l - n
    BY <1>1, <1>5
  <2> HIDE DEF b, r, l
  <2> QED  BY <1>5, <2>1, <2>2
<1>9. ASSUME NEW i \in 1..(l - n) PROVE a[i] = b[i]
  <2>1. n + i \in 1..l /\ i \in Nat
    BY <1>1
  <2>2. q[n + i] = IF n + i <= Len(p) THEN p[n + i] ELSE s[n + i - Len(p)]
    BY <1>2, <2>1
  <2> HIDE DEF a, b, q, r, l
  <2>3. CASE i <= Len(p) - n
    BY <1>1, <1>5, <1>7, <1>8, <2>1, <2>2, <2>3
  <2>4. CASE ~(i <= Len(p) - n)
    <3>1. n + i - Len(p) = i - (Len(p) - n) /\ ~(n + i <= Len(p))
      BY <1>1, <2>1, <2>4
    <3> QED  BY <1>7, <1>8, <2>2, <2>4, <3>1
  <2> QED  BY <2>3, <2>4
<1>10. a = b
  <2> HIDE DEF a, b, l
  <2> QED  BY <1>7, <1>8, <1>9, SeqEqual
<1>11. Len(p \o s) = l
  BY <1>2
<1> QED  BY <1>10, <1>11

LEMMA FullLen ==
  ASSUME NEW p \in FullPaths
  PROVE  p \in Seq(Names) /\ p # <<>> /\ Len(p) \in Nat \ {0}
  BY EmptySeq DEF FullPaths

LEMMA FrontOf ==
  ASSUME NEW p \in FullPaths
  PROVE  /\ Front(p) \in Seq(Names)
         /\ Len(Front(p)) = Len(p) - 1
         /\ \A i \in 1..(Len(p) - 1) : Front(p)[i] = p[i]
  <1>1. p \in Seq(Names) /\ Len(p) - 1 \in 0..Len(p)
    BY FullLen
  <1> QED
    BY <1>1, PrefixIn DEF Front

LEMMA BelowIndex ==
  ASSUME NEW p \in Seq(Names), NEW d \in Seq(Names), Below(p, d)
  PROVE  /\ Len(d) < Len(p)
         /\ \A i \in 1..Len(d) : p[i] = d[i]
  <1>1. Len(d) \in 0..Len(p) /\ Len(d) < Len(p)
    BY LenProperties DEF Below
  <1>2. SubSeq(d, 1, Len(d)) = SubSeq(p, 1, Len(d))
    BY DEF Below, IsPrefix
  <1>3. \A i \in 1..Len(d) : SubSeq(p, 1, Len(d))[i] = p[i]
    BY <1>1, PrefixIn
  <1>4. SubSeq(d, 1, Len(d)) = d
    BY SubSeqFull
  <1> QED
    BY <1>1, <1>2, <1>3, <1>4

LEMMA BelowFront ==
  ASSUME NEW p \in FullPaths
  PROVE  Below(p, Front(p))
  <1>1. p \in Seq(Names) /\ Len(p) \in Nat \ {0}
    BY EmptySeq DEF FullPaths
  <1>2. Front(p) \in Seq(Names) /\ Len(Front(p)) = Len(p) - 1
    BY FrontOf
  <1>3. SubSeq(Front(p), 1, Len(Front(p))) = SubSeq(p, 1, Len(Front(p)))
    BY <1>2, SubSeqFull DEF Front
  <1> QED
    BY <1>1, <1>2, <1>3 DEF Below, IsPrefix

LEMMA BelowRoot ==
  ASSUME NEW p \in FullPaths
  PROVE  Below(p, <<>>)
  <1>1. p \in Seq(Names) /\ Len(p) \in Nat \ {0} /\ Len(<<>>) = 0
    BY EmptySeq DEF FullPaths
  <1>2. SubSeq(<<>>, 1, 0) = <<>> /\ SubSeq(p, 1, 0) = <<>>
    BY SubSeqEmpty
  <1> QED
    BY <1>1, <1>2 DEF Below, IsPrefix

\* The walk comes to a directory before it comes to what is in it.
LEMMA NotBeforeBelow ==
  ASSUME NEW p \in Seq(Names), NEW d \in Seq(Names), Below(p, d) \/ p = d
  PROVE  ~Before(p, d)
  <1>1. Len(d) <= Len(p) /\ \A i \in 1..Len(d) : p[i] = d[i]
    BY BelowIndex, LenProperties
  <1>2. \A i \in 1..Len(d) : ~(p[i] < d[i])
    <2> SUFFICES ASSUME NEW i \in 1..Len(d) PROVE ~(p[i] < d[i])
      OBVIOUS
    <2>1. d[i] \in Int
      BY ElementOfSeq, ImageAssumption
    <2> QED
      BY <1>1, <2>1
  <1>3. Len(d) \in Nat /\ Len(p) \in Nat
    BY LenProperties
  <1> QED
    BY <1>1, <1>2, <1>3 DEF Before

\* A tree in which every node is in a directory.
Closed(t) == \A p \in DOMAIN t :
  /\ p \in FullPaths /\ t[p] \in Nodes
  /\ Len(p) > 1 => Front(p) \in DOMAIN t /\ t[Front(p)].kind = "dir"

\* All directories above a node are there, by induction on the distance.
LEMMA PrefixDirs ==
  ASSUME NEW t, Closed(t), NEW p \in DOMAIN t, NEW n \in 1..(Len(p) - 1)
  PROVE  SubSeq(p, 1, n) \in DOMAIN t /\ t[SubSeq(p, 1, n)].kind = "dir"
<1> DEFINE Dir(q) == q \in DOMAIN t /\ t[q].kind = "dir"
           S == {k \in Nat : k \in 1..(Len(p) - 1) => Dir(SubSeq(p, 1, Len(p) - k))}
<1>1. p \in Seq(Names) /\ Len(p) \in Nat
  BY LenProperties DEF Closed, FullPaths
<1>2. 0 \in S
  OBVIOUS
<1>3. ASSUME NEW k \in Nat, k \in S PROVE k + 1 \in S
  <2> SUFFICES ASSUME k + 1 \in 1..(Len(p) - 1) PROVE Dir(SubSeq(p, 1, Len(p) - (k + 1)))
    BY DEF S
  <2>1. CASE k = 0
    BY <2>1, <1>1 DEF Closed, Front
  <2>2. CASE k # 0
    <3> DEFINE m == Len(p) - k
               q == SubSeq(p, 1, m)
    <3>1. m \in 0..Len(p) /\ m - 1 \in 0..m /\ m > 1 /\ Len(p) - (k + 1) = m - 1
      BY <1>1
    <3>2. Dir(q)
      BY <1>3, <2>2, <1>1
    <3>3. Len(q) = m
      BY <1>1, <3>1, PrefixIn
    <3>4. SubSeq(q, 1, m - 1) = SubSeq(p, 1, m - 1)
      BY <1>1, <3>1, PrefixOfPrefix
    <3> HIDE DEF m, q
    <3>5. Dir(Front(q))
      BY <3>1, <3>2, <3>3 DEF Closed
    <3>6. Front(q) = SubSeq(q, 1, m - 1)
      BY <3>3 DEF Front
    <3> QED  BY <3>1, <3>4, <3>5, <3>6
  <2> QED  BY <2>1, <2>2
<1> HIDE DEF S
<1>4. \A k \in Nat : k \in S
  BY <1>2, <1>3, InductionOnSet
<1>5. Len(p) - n \in Nat /\ Len(p) - n \in 1..(Len(p) - 1) /\ Len(p) - (Len(p) - n) = n
  BY <1>1
<1> QED  BY <1>4, <1>5 DEF S

\* Prefixes, by their places.
LEMMA PrefixIndex ==
  ASSUME NEW p \in Seq(Names), NEW d \in Seq(Names)
  PROVE  IsPrefix(d, p) <=> Len(d) <= Len(p) /\ \A i \in 1..Len(d) : p[i] = d[i]
<1>1. Len(d) \in Nat /\ Len(p) \in Nat /\ SubSeq(d, 1, Len(d)) = d
  BY LenProperties, SubSeqFull
<1>2. ASSUME Len(d) <= Len(p)
      PROVE  SubSeq(p, 1, Len(d)) = d <=> \A i \in 1..Len(d) : p[i] = d[i]
  <2> DEFINE a == SubSeq(p, 1, Len(d))
  <2>1. Len(d) \in 0..Len(p)
    BY <1>1, <1>2
  <2>2. a \in Seq(Names) /\ Len(a) = Len(d) /\ \A i \in 1..Len(d) : a[i] = p[i]
    BY <2>1, PrefixIn
  <2> HIDE DEF a
  <2>3. (\A i \in 1..Len(d) : p[i] = d[i]) => a = d
    BY <2>2, SeqEqual
  <2> QED  BY <2>2, <2>3 DEF a
<1> QED  BY <1>1, <1>2 DEF IsPrefix

LEMMA PrefixTrans ==
  ASSUME NEW p \in Seq(Names), NEW d \in Seq(Names), NEW q \in Seq(Names),
         IsPrefix(q, d), IsPrefix(d, p)
  PROVE  IsPrefix(q, p)
<1>1. Len(q) <= Len(d) /\ Len(d) <= Len(p) /\ Len(q) \in Nat /\ Len(d) \in Nat /\ Len(p) \in Nat
  BY PrefixIndex, LenProperties
<1>2. \A i \in 1..Len(q) : i \in 1..Len(d) /\ d[i] = q[i] /\ p[i] = d[i]
  BY <1>1, PrefixIndex
<1> QED  BY <1>1, <1>2, PrefixIndex

\* What -k asks to leave out is skipped.
LEMMA UnwantedSkipped ==
  ASSUME skip \in Skips, NEW p \in Seq(Names), Unwanted(p)
  PROVE  Skipped(p)
<1>1. PICK v \in skip : IsPrefix(v, p)
  BY DEF Unwanted
<1>2. v \in Seq(Names) /\ Len(v) \in Nat /\ Len(p) \in Nat
  BY ImageAssumption, LenProperties
<1>3. Len(v) <= Len(p) /\ \A i \in 1..Len(v) : p[i] = v[i]
  BY <1>1, <1>2, PrefixIndex
<1>4. v # <<>> => p[Len(v)] = Last(v)
  <2> SUFFICES ASSUME v # <<>> PROVE p[Len(v)] = Last(v)
    OBVIOUS
  <2>1. Len(v) \in 1..Len(v)
    BY <1>2, EmptySeq
  <2> QED  BY <1>3, <2>1 DEF Last
<1>5. TextPrefix(p, v)
  BY <1>2, <1>3, <1>4 DEF TextPrefix
<1> QED  BY <1>5 DEF Skipped

\* What is skipped has a name of -k, or one that it begins, or is in what has.
LEMMA SkippedNamed ==
  ASSUME skip \in Skips, Closed(disk), NEW p \in DOMAIN disk, Skipped(p)
  PROVE  \/ \A r \in Seq(Names) : Unwanted(r)
         \/ \E q \in DOMAIN disk : Named(q) /\ IsPrefix(q, p)
<1>1. PICK v \in skip : TextPrefix(p, v)
  BY DEF Skipped
<1>2. v \in Seq(Names) /\ p \in FullPaths /\ p \in Seq(Names) /\ Len(v) \in Nat /\ Len(p) \in Nat
  BY ImageAssumption, LenProperties, FullLen DEF Closed
<1>3. CASE v = <<>>
  <2>1. ASSUME NEW r \in Seq(Names) PROVE IsPrefix(v, r)
    <3>1. Len(v) = 0 /\ Len(r) \in Nat
      BY <1>3, LenProperties
    <3>2. Len(v) <= Len(r) /\ \A i \in 1..Len(v) : r[i] = v[i]
      BY <3>1
    <3> QED  BY <1>2, <3>2, PrefixIndex
  <2> QED  BY <1>1, <2>1 DEF Unwanted
<1>4. CASE v # <<>>
  <2> DEFINE n == Len(v)
             q == SubSeq(p, 1, n)
  <2>1. n \in Nat \ {0} /\ n <= Len(p) /\ n \in 0..Len(p) /\ n \in 1..n /\ n - 1 \in 0..n
    BY <1>1, <1>2, <1>4, EmptySeq DEF TextPrefix
  <2>2. q \in Seq(Names) /\ Len(q) = n /\ \A i \in 1..n : q[i] = p[i]
    BY <1>2, <2>1, PrefixIn
  <2>3. q \in DOMAIN disk
    <3>1. CASE n = Len(p)
      BY <1>2, <3>1, SubSeqFull
    <3>2. CASE n # Len(p)
      <4>1. n \in 1..(Len(p) - 1)
        BY <1>2, <2>1, <3>2
      <4> QED  BY <4>1, PrefixDirs
    <3> QED  BY <3>1, <3>2
  <2> HIDE DEF q
  <2>4. IsPrefix(q, p)
    BY <1>2, <2>1, <2>2, PrefixIndex
  <2>5. \A i \in 1..(n - 1) : q[i] = v[i]
    BY <1>1, <2>1, <2>2 DEF TextPrefix
  <2>6. CASE p[n] = Last(v)
    <3>1. q[n] = v[n]
      BY <2>1, <2>2, <2>6 DEF Last
    <3>2. \A i \in 1..n : q[i] = v[i]
      BY <2>1, <2>5, <3>1
    <3>3. q = v
      BY <1>2, <2>2, <3>2, SeqEqual
    <3> QED  BY <2>3, <2>4, <3>3 DEF Named
  <2>7. CASE <<Last(v), p[n]>> \in Prefixed
    <3>1. q # <<>> /\ Last(q) = p[n]
      BY <2>1, <2>2, EmptySeq DEF Last
    <3>2. q \in FullPaths /\ v \in FullPaths
      BY <1>2, <1>4, <2>2, <3>1 DEF FullPaths
    <3>3. /\ Front(q) \in Seq(Names) /\ Front(v) \in Seq(Names)
          /\ Len(Front(q)) = n - 1 /\ Len(Front(v)) = n - 1
          /\ \A i \in 1..(n - 1) : Front(q)[i] = q[i]
          /\ \A i \in 1..(n - 1) : Front(v)[i] = v[i]
      BY <2>2, <3>2, FrontOf
    <3> DEFINE a == Front(q)
               b == Front(v)
    <3>4. a \in Seq(Names) /\ b \in Seq(Names) /\ Len(a) = Len(b) /\ \A i \in 1..Len(a) : a[i] = b[i]
      BY <2>5, <3>3
    <3> HIDE DEF a, b
    <3>5. a = b
      BY <3>4, SeqEqual
    <3> QED  BY <1>4, <2>3, <2>4, <2>7, <3>1, <3>5 DEF Named, a, b
  <2> QED  BY <1>1, <1>4, <2>6, <2>7 DEF TextPrefix
<1> QED  BY <1>3, <1>4

-----------------------------------------------------------------------------
(* The inductive invariant.                                                *)

Entries == [path : FullPaths, node : Nodes]

\* createfs has made the archive, or another program has.
Given ==
  \/ disk \in Disks /\ skip \in Skips /\ start \in Starts /\ failing \in Failures
  \/ disk = <<>> /\ phase # "build"

IsTree == \A p \in DOMAIN tree : p \in FullPaths /\ tree[p] \in Nodes /\ IsDir(Front(p))

Load ==
  /\ phase \in {"build", "load", "serve", "down"}
  /\ archive \in Seq(Entries) /\ next \in 1..(Len(archive) + 1)
  /\ phase = "build" => next = 1 /\ tree = <<>>
  /\ phase = "serve" => next = Len(archive) + 1
  /\ tree = [p \in DOMAIN tree |-> tree[p]]
  /\ todo \subseteq {p \in DOMAIN disk : Below(p, start)}
  /\ Given /\ IsTree

\* Every call is at a node, and none is made before the image is there.
Calling ==
  /\ goal \in Goals /\ follow \in BOOLEAN
  /\ stack \in Seq(Calls) /\ Len(stack) <= MaxStack
  /\ \A k \in 1..Len(stack) : stack[k].cwd \in DOMAIN tree \union {<<>>}
  /\ result \in DOMAIN tree \union {<<>>, NoNode}
  /\ phase \in {"build", "load"} => stack = <<>> /\ result = <<>>

Loaded == 1..(next - 1)
Unique == \A i, j \in DOMAIN archive : archive[i].path = archive[j].path => i = j

\* The tree has what has been loaded so far.
Kept ==
  /\ \A p \in DOMAIN tree : \E j \in Loaded :
       /\ archive[j] = Entry(p, tree[p])
       /\ \A k \in Loaded : archive[k].path = p => k <= j
  /\ \A i \in Loaded : InOrder(i) => archive[i].path \in DOMAIN tree
  /\ Unique => \A p \in DOMAIN tree : \E i \in Loaded : archive[i].path = p /\ InOrder(i)

\* Why the process went down before it served.
Cause == \E i, j \in DOMAIN archive :
  archive[i].node.kind # "dir" /\ archive[i].path = Front(archive[j].path)

\* What the image may be without, and a node it has as it should.
Gone(p) ==
  \/ Unwanted(p)
  \/ \E q \in failing : IsPrefix(q, p)
  \/ \E q \in DOMAIN disk : Named(q) /\ LostWith(p, q)

OnImage(p, node) ==
  /\ p \in DOMAIN disk /\ ~Unwanted(p)
  /\ node = disk[p] \/ (p \in failing /\ node = EmptyLink)

\* The archive of createfs: what is not gone is in it or still to come, in the
\* order of the walk, each directory before what is in it; and how much of it
\* has been loaded.
Written ==
  /\ \A i \in DOMAIN archive : OnImage(archive[i].path, archive[i].node)
  /\ \A p \in DOMAIN disk : p \in todo \/ Gone(p) \/ \E i \in DOMAIN archive : archive[i].path = p
  /\ \A i, j \in DOMAIN archive : i < j => Before(archive[i].path, archive[j].path)
  /\ \A i \in DOMAIN archive : \A q \in todo : Before(archive[i].path, q)
  /\ phase # "build" => todo = {}
  /\ \A p \in todo : Front(p) # <<>> =>
       Front(p) \in todo \/ \E i \in DOMAIN archive : archive[i].path = Front(p)
  /\ \A j \in DOMAIN archive : Front(archive[j].path) # <<>> =>
       \E i \in 1..(j - 1) : archive[i].path = Front(archive[j].path)
  /\ \A i \in Loaded : archive[i].path \in DOMAIN tree

FromDisk == disk # <<>> /\ start = <<>> => Written

IInv ==
  /\ Load /\ Calling
  /\ phase # "down" => Kept /\ FromDisk
  /\ phase = "down" /\ stack = <<>> => Cause

LEMMA BelowBelow ==
  ASSUME NEW p \in FullPaths, NEW d \in Seq(Names), Below(Front(p), d)
  PROVE  Below(p, d)
  <1>1. /\ p \in Seq(Names) /\ Len(p) \in Nat \ {0}
        /\ Front(p) \in Seq(Names) /\ Len(Front(p)) = Len(p) - 1
        /\ \A i \in 1..(Len(p) - 1) : Front(p)[i] = p[i]
    BY FullLen, FrontOf
  <1>2. Len(d) < Len(p) - 1 /\ \A i \in 1..Len(d) : Front(p)[i] = d[i]
    BY <1>1, BelowIndex
  <1>3. Len(d) \in 0..Len(p) /\ Len(d) < Len(p)
    BY <1>1, <1>2, LenProperties
  <1>4. SubSeq(p, 1, Len(d)) = d
    <2>1. /\ SubSeq(p, 1, Len(d)) \in Seq(Names) /\ Len(SubSeq(p, 1, Len(d))) = Len(d)
          /\ \A i \in 1..Len(d) : SubSeq(p, 1, Len(d))[i] = p[i]
      BY <1>1, <1>3, PrefixIn
    <2>2. \A i \in 1..Len(d) : SubSeq(p, 1, Len(d))[i] = d[i]
      BY <1>1, <1>2, <1>3, <2>1
    <2> QED
      BY <2>1, <2>2, SeqEqual
  <1>5. SubSeq(d, 1, Len(d)) = d
    BY SubSeqFull
  <1> QED
    BY <1>3, <1>4, <1>5 DEF Below, IsPrefix

\* A shorter prefix of a path is one of its prefixes, too.
LEMMA PrefixFront ==
  ASSUME NEW p \in FullPaths, NEW n \in 1..(Len(p) - 1)
  PROVE  SubSeq(Front(p), 1, n) = SubSeq(p, 1, n)
  <1>1. p \in Seq(Names) /\ Len(p) \in Nat /\ n \in 0..Len(p) /\ n \in 0..(Len(p) - 1)
    BY FullLen
  <1>2. /\ Front(p) \in Seq(Names) /\ Len(Front(p)) = Len(p) - 1
        /\ \A i \in 1..(Len(p) - 1) : Front(p)[i] = p[i]
    BY FrontOf
  <1>3. /\ SubSeq(p, 1, n) \in Seq(Names) /\ Len(SubSeq(p, 1, n)) = n
        /\ \A i \in 1..n : SubSeq(p, 1, n)[i] = p[i]
    BY <1>1, PrefixIn
  <1>4. /\ SubSeq(Front(p), 1, n) \in Seq(Names) /\ Len(SubSeq(Front(p), 1, n)) = n
        /\ \A i \in 1..n : SubSeq(Front(p), 1, n)[i] = Front(p)[i]
    BY <1>1, <1>2, PrefixIn
  <1>5. \A i \in 1..n : SubSeq(Front(p), 1, n)[i] = SubSeq(p, 1, n)[i]
    BY <1>1, <1>2, <1>3, <1>4
  <1> QED
    BY <1>3, <1>4, <1>5, SeqEqual

LEMMA EntryOf ==
  ASSUME archive \in Seq(Entries), NEW i \in DOMAIN archive
  PROVE  /\ archive[i] \in Entries
         /\ archive[i].path \in FullPaths /\ archive[i].node \in Nodes
         /\ archive[i] = Entry(archive[i].path, archive[i].node)
         /\ Len(archive) \in Nat /\ DOMAIN archive = 1..Len(archive) /\ i \in Nat \ {0}
  <1>1. Len(archive) \in Nat /\ DOMAIN archive = 1..Len(archive)
    BY LenProperties
  <1>2. archive[i] \in Entries
    BY <1>1, ElementOfSeq
  <1>3. archive[i].path \in FullPaths /\ archive[i].node \in Nodes
    BY <1>2 DEF Entries
  <1>4. archive[i] = Entry(archive[i].path, archive[i].node)
    BY <1>2 DEF Entries, Entry
  <1> QED
    BY <1>1, <1>2, <1>3, <1>4

\* An entry is in order when its directory is in the root.
LEMMA InOrderRoot ==
  ASSUME archive \in Seq(Entries), NEW i \in DOMAIN archive, Front(archive[i].path) = <<>>
  PROVE  InOrder(i)
  <1> DEFINE p == archive[i].path
  <1>1. p \in FullPaths
    BY EntryOf
  <1>2. Len(p) \in Nat \ {0} /\ Len(Front(p)) = Len(p) - 1 /\ Len(<<>>) = 0
    BY <1>1, FullLen, FrontOf, EmptySeq
  <1>3. Len(p) = 1
    <2>1. Len(Front(p)) = 0
      BY <1>2
    <2> QED
      BY <1>2, <2>1
  <1> DEFINE above == [n \in 1..1 |-> i]
  <1>4. above \in [1..Len(p) -> DOMAIN archive] /\ above[Len(p)] = i /\ 1..(Len(p) - 1) = {}
    BY <1>3
  <1> QED
    BY <1>4 DEF InOrder

\* The directory of an entry in order is in order, comes before it, and is there
\* once.
LEMMA InOrderFront ==
  ASSUME archive \in Seq(Entries), NEW i \in DOMAIN archive, InOrder(i),
         Front(archive[i].path) # <<>>
  PROVE  \E j \in DOMAIN archive :
           /\ j < i /\ InOrder(j) /\ archive[j].node.kind = "dir"
           /\ At(Front(archive[i].path)) = {j}
  <1> DEFINE p == archive[i].path
             d == Front(p)
  <1>1. p \in FullPaths
    BY EntryOf
  <1>2. Len(p) \in Nat \ {0} /\ d \in Seq(Names) /\ Len(d) = Len(p) - 1
    BY <1>1, FullLen, FrontOf
  <1>3. Len(d) \in Nat \ {0} /\ Len(d) \in 1..(Len(p) - 1)
    <2>1. d # <<>>
      OBVIOUS
    <2> HIDE DEF d, p
    <2>2. Len(d) \in Nat \ {0}
      BY <1>2, <2>1, EmptySeq
    <2>3. Len(p) \in Nat /\ Len(d) = Len(p) - 1
      BY <1>2
    <2> QED
      BY <2>2, <2>3
  <1>4. PICK above \in [1..Len(p) -> DOMAIN archive] :
          /\ above[Len(p)] = i
          /\ \A n \in 1..(Len(p) - 1) :
               /\ At(SubSeq(p, 1, n)) = {above[n]}
               /\ archive[above[n]].node.kind = "dir"
               /\ \A m \in (n + 1)..Len(p) : above[n] < above[m]
    BY DEF InOrder
  <1> DEFINE j == above[Len(d)]
  <1>5. SubSeq(p, 1, Len(d)) = d
    BY <1>2 DEF Front
  <1>6. j \in DOMAIN archive /\ At(d) = {j} /\ archive[j].node.kind = "dir" /\ j < i
    <2>1. Len(d) \in 1..Len(p) /\ Len(p) \in (Len(d) + 1)..Len(p)
      BY <1>2, <1>3
    <2> HIDE DEF d
    <2> QED
      BY <1>3, <1>4, <1>5, <2>1
  <1>7. archive[j].path = d
    BY <1>6 DEF At
  <1>8. InOrder(j)
    <2> DEFINE up == [n \in 1..Len(d) |-> above[n]]
    <2>1. 1..Len(d) \subseteq 1..Len(p)
      BY <1>2
    <2>2. up \in [1..Len(d) -> DOMAIN archive] /\ up[Len(d)] = j
      BY <1>3, <1>4, <2>1
    <2>3. ASSUME NEW n \in 1..(Len(d) - 1)
          PROVE  /\ At(SubSeq(d, 1, n)) = {up[n]}
                 /\ archive[up[n]].node.kind = "dir"
                 /\ \A m \in (n + 1)..Len(d) : up[n] < up[m]
      <3>1. n \in 1..(Len(p) - 1) /\ n \in 1..Len(d) /\ (n + 1)..Len(d) \subseteq (n + 1)..Len(p)
            /\ (n + 1)..Len(d) \subseteq 1..Len(d)
        BY <1>2, <2>3
      <3>2. SubSeq(d, 1, n) = SubSeq(p, 1, n)
        BY <1>1, <3>1, PrefixFront
      <3>3. up[n] = above[n] /\ \A m \in (n + 1)..Len(d) : up[m] = above[m]
        BY <3>1
      <3> HIDE DEF up, d
      <3> QED
        BY <1>4, <3>1, <3>2, <3>3
    <2> HIDE DEF up, j, d
    <2> QED
      BY <1>7, <2>2, <2>3, Zenon DEF InOrder
  <1> QED
    BY <1>6, <1>8

\* An entry is in order when its directory is.
LEMMA InOrderExtend ==
  ASSUME archive \in Seq(Entries), Unique, NEW i \in DOMAIN archive, NEW j \in DOMAIN archive,
         archive[j].path = Front(archive[i].path), Front(archive[i].path) # <<>>,
         archive[j].node.kind = "dir", j < i, InOrder(j)
  PROVE  InOrder(i)
  <1> DEFINE p == archive[i].path
             d == Front(p)
  <1>0. i \in Int /\ j \in Int /\ DOMAIN archive \subseteq Int
    BY LenProperties
  <1>1. p \in FullPaths
    BY EntryOf
  <1>2. Len(p) \in Nat \ {0} /\ d \in Seq(Names) /\ Len(d) = Len(p) - 1
    BY <1>1, FullLen, FrontOf
  <1>3. Len(d) \in Nat \ {0}
    BY <1>2, EmptySeq
  <1>4. SubSeq(p, 1, Len(d)) = d
    BY <1>2 DEF Front
  <1>5. archive[j].path = d
    OBVIOUS
  <1> HIDE DEF d
  <1>6. PICK up \in [1..Len(d) -> DOMAIN archive] :
          /\ up[Len(d)] = j
          /\ \A n \in 1..(Len(d) - 1) :
               /\ At(SubSeq(d, 1, n)) = {up[n]}
               /\ archive[up[n]].node.kind = "dir"
               /\ \A m \in (n + 1)..Len(d) : up[n] < up[m]
    BY <1>5 DEF InOrder
  <1>7. At(d) = {j}
    BY <1>5 DEF At, Unique
  <1> DEFINE above == [n \in 1..Len(p) |-> IF n = Len(p) THEN i ELSE up[n]]
  <1>8. above[Len(p)] = i /\ \A n \in 1..Len(d) : above[n] = up[n]
    BY <1>2
  <1>9. above \in [1..Len(p) -> DOMAIN archive]
    <2>1. ASSUME NEW n \in 1..Len(p), n # Len(p)
          PROVE  up[n] \in DOMAIN archive
      <3>1. n \in 1..Len(d)
        BY <1>2, <2>1
      <3> QED
        BY <1>6, <3>1
    <2> QED
      BY <2>1
  <1>10. ASSUME NEW n \in 1..(Len(p) - 1)
         PROVE  /\ At(SubSeq(p, 1, n)) = {above[n]}
                /\ archive[above[n]].node.kind = "dir"
                /\ \A m \in (n + 1)..Len(p) : above[n] < above[m]
    <2> HIDE DEF above
    <2>1. CASE n = Len(d)
      <3>1. above[n] = j /\ (n + 1)..Len(p) = {Len(p)}
        BY <1>2, <1>3, <1>6, <1>8, <2>1
      <3> QED
        BY <1>4, <1>7, <1>8, <2>1, <3>1
    <2>2. CASE n # Len(d)
      <3>1. n \in 1..(Len(d) - 1) /\ n \in 1..Len(d) /\ Len(d) \in (n + 1)..Len(d)
        BY <1>2, <2>2
      <3>2. SubSeq(d, 1, n) = SubSeq(p, 1, n)
        BY <1>1, <1>2, PrefixFront DEF d
      <3>3. above[n] = up[n] /\ up[n] < j /\ up[n] \in Int
        BY <1>0, <1>6, <1>8, <3>1
      <3>4. ASSUME NEW m \in (n + 1)..Len(p)
            PROVE  above[n] < above[m]
        <4>1. CASE m = Len(p)
          BY <1>0, <1>8, <3>3, <4>1
        <4>2. CASE m # Len(p)
          <5>1. m \in (n + 1)..Len(d) /\ m \in 1..Len(d)
            BY <1>2, <3>1, <4>2
          <5> QED
            BY <1>6, <1>8, <3>1, <3>3, <5>1
        <4> QED
          BY <4>1, <4>2
      <3>5. At(SubSeq(d, 1, n)) = {up[n]} /\ archive[up[n]].node.kind = "dir"
        BY <1>6, <3>1
      <3> QED
        BY <3>2, <3>3, <3>4, <3>5
    <2> QED
      BY <2>1, <2>2
  <1> HIDE DEF above
  <1> QED
    BY <1>8, <1>9, <1>10, Zenon DEF InOrder

\* What is above an entry in order comes before it.
LEMMA InOrderBelow ==
  ASSUME archive \in Seq(Entries), NEW i \in DOMAIN archive, NEW j \in DOMAIN archive,
         InOrder(i), Below(archive[i].path, archive[j].path)
  PROVE  j < i
  <1> DEFINE p == archive[i].path
             d == archive[j].path
  <1>1. p \in FullPaths /\ d \in FullPaths
    BY EntryOf
  <1>2. Len(p) \in Nat \ {0} /\ Len(d) \in Nat \ {0} /\ p \in Seq(Names) /\ d \in Seq(Names)
    BY <1>1, FullLen
  <1>3. Len(d) < Len(p) /\ SubSeq(p, 1, Len(d)) = d
    <2>1. Len(d) < Len(p) /\ SubSeq(d, 1, Len(d)) = SubSeq(p, 1, Len(d))
      BY DEF Below, IsPrefix
    <2>2. SubSeq(d, 1, Len(d)) = d
      BY <1>2, SubSeqFull
    <2> QED
      BY <2>1, <2>2
  <1>4. Len(d) \in 1..(Len(p) - 1) /\ Len(p) \in (Len(d) + 1)..Len(p)
    BY <1>2, <1>3
  <1>5. j \in At(d)
    BY DEF At
  <1> HIDE DEF d
  <1> QED
    BY <1>3, <1>4, <1>5 DEF InOrder

-----------------------------------------------------------------------------
(* createfs.                                                               *)

\* What createfs meets.
LEMMA OnDisk ==
  ASSUME Load, NEW p \in DOMAIN disk
  PROVE  /\ p \in FullPaths /\ p \in Seq(Names) /\ disk[p] \in Nodes /\ Closed(disk)
         /\ Front(p) # <<>> => Front(p) \in DOMAIN disk /\ disk[Front(p)].kind = "dir"
<1>1. disk \in Disks
  <2>1. disk # <<>>
    BY EmptySeq
  <2> QED  BY <2>1 DEF Load, Given
<1>2. Closed(disk)
  BY <1>1, ImageAssumption DEF Closed
<1>3. p \in FullPaths /\ disk[p] \in Nodes
      /\ (Len(p) > 1 => Front(p) \in DOMAIN disk /\ disk[Front(p)].kind = "dir")
  BY <1>2 DEF Closed
<1>4. Front(p) # <<>> => Len(p) > 1
  <2> SUFFICES ASSUME Front(p) # <<>> PROVE Len(p) > 1
    OBVIOUS
  <2>1. Front(p) \in Seq(Names) /\ Len(Front(p)) = Len(p) - 1 /\ Len(p) \in Nat
    BY <1>3, FrontOf, FullLen
  <2>2. Len(Front(p)) \in Nat \ {0}
    BY <2>1, EmptySeq
  <2> QED  BY <2>1, <2>2
<1> QED  BY <1>2, <1>3, <1>4, FullLen

LEMMA InitIInv == Init => IInv
<1> SUFFICES ASSUME Init PROVE IInv
  OBVIOUS
<1> USE DEF Init
<1>1. archive \in Seq(Entries) /\ Len(archive) \in Nat
  <2>1. \A a \in Archives : a \in Seq(Entries)
    BY ImageAssumption DEF Entries
  <2>2. archive = <<>> \/ archive \in Archives
    OBVIOUS
  <2>3. archive \in Seq(Entries)
    BY <2>1, <2>2, EmptySeq
  <2> QED  BY <2>3, LenProperties
<1>2. next = 1 /\ Loaded = {} /\ tree = <<>> /\ DOMAIN tree = {}
  BY DEF Loaded
<1>3. Load
  BY <1>1, <1>2 DEF Load, Given, IsTree
<1>4. Calling
  <2>1. <<>> \in Goals
    <3>1. <<>> \in [1..0 -> Names] /\ 0 \in 0..MaxLen
      BY ImageAssumption
    <3> QED  BY <3>1 DEF Goals
  <2>2. <<>> \in Seq(Calls) /\ Len(<<>>) = 0 /\ 1..0 = {}
    BY EmptySeq
  <2>3. 0 <= MaxStack
    BY ImageAssumption
  <2> QED  BY <2>1, <2>2, <2>3 DEF Calling
<1>5. Kept
  BY <1>2 DEF Kept
<1>6. FromDisk
  <2> SUFFICES ASSUME disk # <<>>, start = <<>> PROVE Written
    BY DEF FromDisk
  <2>1. phase = "build" /\ archive = <<>> /\ DOMAIN archive = {}
    OBVIOUS
  <2>2. todo = {p \in DOMAIN disk : Below(p, <<>>)}
    BY <2>1
  <2>3. ASSUME NEW p \in DOMAIN disk
        PROVE  p \in todo /\ (Front(p) # <<>> => Front(p) \in DOMAIN disk)
    <3>1. p \in FullPaths /\ (Front(p) # <<>> => Front(p) \in DOMAIN disk)
      BY <1>3, OnDisk
    <3> QED  BY <2>2, <3>1, BelowRoot
  <2>4. todo \subseteq DOMAIN disk
    BY <2>2
  <2> QED  BY <1>2, <2>1, <2>3, <2>4 DEF Written
<1> QED  BY <1>3, <1>4, <1>5, <1>6 DEF IInv

\* While createfs writes, nothing is loaded.
LEMMA BuildRest ==
  ASSUME IInv, phase = "build", phase' \in {"build", "load"},
         UNCHANGED <<disk, start, skip, failing, loadVars, callVars>>,
         archive' \in Seq(Entries), todo' \subseteq todo,
         disk # <<>> /\ start = <<>> => Written'
  PROVE  IInv'
<1>1. next = 1 /\ tree = <<>> /\ next' = 1 /\ tree' = <<>> /\ DOMAIN tree' = {} /\ Loaded' = {}
  BY DEF IInv, Load, loadVars, Loaded
<1>2. Len(archive') \in Nat
  BY LenProperties
<1>3. Load'
  BY <1>1, <1>2 DEF IInv, Load, Given, IsTree, IsDir
<1>4. Calling'
  BY <1>1 DEF IInv, Calling, loadVars, callVars
<1>5. Kept'
  BY <1>1 DEF Kept
<1>6. FromDisk'
  BY DEF FromDisk
<1> QED  BY <1>3, <1>4, <1>5, <1>6 DEF IInv

\* What a step does not add to the archive is gone, with all that is in it.
LEMMA PassStep ==
  ASSUME IInv, NEW p \in todo, Visit(p), NEW dir \in {p, Front(p)}, PassBy(p, dir),
         disk[p].kind = "dir" => dir = p,
         start = <<>> => \A r \in todo : r = p \/ Below(r, dir) => Gone(r)
  PROVE  IInv'
<1>1. /\ phase = "build" /\ archive' = archive
      /\ todo' = {q \in todo : q # p /\ ~Below(q, dir)}
      /\ UNCHANGED <<phase, disk, start, skip, failing, loadVars, callVars>>
  BY DEF Visit, PassBy
<1>2. ASSUME disk # <<>>, start = <<>>
      PROVE  Written'
  <2>1. Load /\ Written
    BY <1>1, <1>2 DEF IInv, FromDisk
  <2>2. p \in DOMAIN disk /\ todo \subseteq DOMAIN disk
    BY <2>1 DEF Load
  <2>3. UNCHANGED <<archive, disk, start, skip, failing, next, tree, phase>> /\ Loaded' = Loaded
        /\ todo' \subseteq todo
    BY <1>1 DEF Loaded, loadVars
  <2>4. \A r : Gone(r)' = Gone(r)
    BY <2>3 DEF Gone, Unwanted, Named, LostWith
  <2>5. \A r, n : OnImage(r, n)' = OnImage(r, n)
    BY <2>3 DEF OnImage, Unwanted
  <2>6. ASSUME NEW r \in DOMAIN disk
        PROVE  r \in todo' \/ Gone(r) \/ \E i \in DOMAIN archive : archive[i].path = r
    BY <1>1, <1>2, <2>1 DEF Written
  <2>7. ASSUME NEW r \in todo', Front(r) # <<>>
        PROVE  Front(r) \in todo' \/ \E i \in DOMAIN archive : archive[i].path = Front(r)
    <3>1. r \in todo /\ r # p /\ ~Below(r, dir) /\ r \in DOMAIN disk
      BY <1>1, <2>2, <2>7
    <3>2. r \in FullPaths /\ Front(r) \in DOMAIN disk /\ disk[Front(r)].kind = "dir"
      BY <2>1, <2>7, <3>1, OnDisk
    <3>3. dir \in Seq(Names)
      BY <2>1, <2>2, OnDisk, FrontOf
    <3>4. ~Below(Front(r), dir)
      BY <3>1, <3>2, <3>3, BelowBelow
    <3>5. Front(r) # p
      <4> SUFFICES ASSUME Front(r) = p PROVE FALSE
        OBVIOUS
      <4>1. dir = Front(r)
        BY <3>2
      <4> QED  BY <3>1, <3>2, <4>1, BelowFront
    <3> QED  BY <1>1, <2>1, <2>7, <3>1, <3>4, <3>5 DEF Written
  <2>8. \A i \in DOMAIN archive : OnImage(archive[i].path, archive[i].node)
    BY <2>1 DEF Written
  <2> QED  BY <1>1, <2>1, <2>3, <2>4, <2>5, <2>6, <2>7, <2>8 DEF Written
<1>3. archive' \in Seq(Entries) /\ todo' \subseteq todo
  BY <1>1 DEF IInv, Load
<1> QED  BY <1>1, <1>2, <1>3, BuildRest

LEMMA SkipStep ==
  ASSUME IInv, NEW p \in todo, SkipEntry(p)
  PROVE  IInv'
<1> DEFINE dir == IF disk[p].kind = "dir" THEN p ELSE Front(p)
<1>1. Visit(p) /\ Skipped(p) /\ PassBy(p, dir) /\ Load
  BY DEF SkipEntry, IInv
<1>2. /\ p \in DOMAIN disk /\ p \in FullPaths /\ p \in Seq(Names) /\ Closed(disk)
      /\ Front(p) \in Seq(Names) /\ Len(Front(p)) = Len(p) - 1 /\ Len(p) \in Nat
      /\ \A i \in 1..(Len(p) - 1) : Front(p)[i] = p[i]
  BY <1>1, OnDisk, FullLen, FrontOf DEF Load
<1>3. ASSUME NEW r \in todo, r = p \/ Below(r, dir)
      PROVE  Gone(r)
  <2>1. r \in DOMAIN disk /\ r \in Seq(Names) /\ (r # p => Before(p, r))
    BY <1>1, OnDisk DEF Load, Visit
  <2>2. skip \in Skips
    BY <1>1, <1>2, EmptySeq DEF Load, Given
  <2>3. CASE Unwanted(r)
    BY <2>3 DEF Gone
  <2>4. CASE ~Unwanted(r)
    <3>1. PICK q \in DOMAIN disk : Named(q) /\ IsPrefix(q, p)
      BY <1>1, <1>2, <2>1, <2>2, <2>4, SkippedNamed
    <3>2. q \in Seq(Names) /\ Len(q) \in Nat /\ Len(q) <= Len(p) /\ \A i \in 1..Len(q) : p[i] = q[i]
      BY <1>1, <1>2, <3>1, OnDisk, PrefixIndex, LenProperties
    <3>3. IsPrefix(q, r) => Gone(r)
      BY <3>1 DEF Gone, LostWith
    <3>4. CASE r = p
      BY <3>1, <3>3, <3>4
    <3>5. CASE r # p /\ disk[p].kind = "dir"
      <4>1. IsPrefix(p, r)
        BY <1>3, <3>5 DEF Below
      <4> QED  BY <1>2, <2>1, <3>1, <3>2, <3>3, <4>1, PrefixTrans
    <3>6. CASE r # p /\ disk[p].kind # "dir"
      <4>1. IsPrefix(Front(p), r)
        BY <1>3, <3>6 DEF Below
      <4>2. CASE q = p
        BY <2>1, <3>1, <3>6, <4>1, <4>2 DEF Gone, LostWith
      <4>3. CASE q # p
        <5>1. Len(q) # Len(p)
          BY <1>2, <3>2, <4>3, SeqEqual
        <5>2. Len(q) <= Len(Front(p)) /\ \A i \in 1..Len(q) : i \in 1..(Len(p) - 1)
          BY <1>2, <3>2, <5>1
        <5>3. IsPrefix(q, Front(p))
          <6> DEFINE d == Front(p)
          <6>1. d \in Seq(Names) /\ Len(q) <= Len(d) /\ \A i \in 1..Len(q) : d[i] = q[i]
            BY <1>2, <3>2, <5>2
          <6> HIDE DEF d
          <6>2. IsPrefix(q, d)
            BY <3>2, <6>1, PrefixIndex
          <6> QED  BY <6>2 DEF d
        <5> QED  BY <1>2, <2>1, <3>2, <3>3, <4>1, <5>3, PrefixTrans
      <4> QED  BY <4>2, <4>3
    <3> QED  BY <3>4, <3>5, <3>6
  <2> QED  BY <2>3, <2>4
<1>4. dir \in {p, Front(p)} /\ (disk[p].kind = "dir" => dir = p)
  OBVIOUS
<1> HIDE DEF dir
<1> QED  BY <1>1, <1>3, <1>4, PassStep

LEMMA LeaveOutStep ==
  ASSUME IInv, NEW p \in todo, LeaveOut(p)
  PROVE  IInv'
<1>1. Visit(p) /\ p \in failing /\ PassBy(p, p) /\ Load
  BY DEF LeaveOut, IInv
<1>2. ASSUME NEW r \in todo, r = p \/ Below(r, p)
      PROVE  Gone(r)
  <2>1. p \in Seq(Names) /\ Len(p) \in Nat
    BY <1>1, OnDisk, LenProperties DEF Load
  <2>2. IsPrefix(p, p)
    BY <2>1, PrefixIndex
  <2>3. IsPrefix(p, r)
    BY <1>2, <2>2 DEF Below
  <2> QED  BY <1>1, <2>3 DEF Gone
<1> QED  BY <1>1, <1>2, PassStep

LEMMA WriteStep ==
  ASSUME IInv, NEW p \in todo, WriteEntry(p)
  PROVE  IInv'
<1> DEFINE node == IF p \in failing THEN EmptyLink ELSE disk[p]
<1>1. /\ phase = "build" /\ ~Skipped(p) /\ todo' = todo \ {p}
      /\ archive' = Append(archive, Entry(p, node))
      /\ \A q \in todo \ {p} : Before(p, q)
      /\ UNCHANGED <<phase, disk, start, skip, failing, loadVars, callVars>>
  BY DEF WriteEntry, Visit
<1>2. archive \in Seq(Entries) /\ Load
  BY DEF IInv, Load
<1>3. next = 1 /\ tree = <<>>
  BY <1>1, <1>2 DEF Load
<1>4. p \in DOMAIN disk /\ p \in FullPaths /\ p \in Seq(Names) /\ disk[p] \in Nodes
  BY <1>2, OnDisk DEF Load
<1>5. Entry(p, node) \in Entries
  <2>1. EmptyLink \in Nodes
    BY EmptySeq DEF EmptyLink, Link, Nodes, Targets
  <2> QED  BY <1>4, <2>1 DEF Entry, Entries
<1> DEFINE L == Len(archive)
<1>6. /\ archive' \in Seq(Entries) /\ L \in Nat /\ Len(archive') = L + 1
      /\ \A i \in 1..L : archive'[i] = archive[i]
      /\ archive'[L + 1] = Entry(p, node)
  BY <1>1, <1>2, <1>5, AppendProperties, LenProperties
<1>7. /\ DOMAIN archive = 1..L /\ DOMAIN archive' = 1..(L + 1)
      /\ DOMAIN archive' = DOMAIN archive \union {L + 1} /\ L + 1 \notin DOMAIN archive
      /\ \A i \in DOMAIN archive : archive'[i] = archive[i] /\ i < L + 1
  <2>1. DOMAIN archive = 1..L /\ DOMAIN archive' = 1..(L + 1)
    BY <1>2, <1>6, LenProperties
  <2> QED  BY <1>6, <2>1
<1>8. archive'[L + 1].path = p /\ archive'[L + 1].node = node
  BY <1>6 DEF Entry
<1>9. OnImage(p, node)
  <2>1. skip \in Skips
    BY <1>2, <1>4, EmptySeq DEF Load, Given
  <2>2. ~Unwanted(p)
    BY <1>1, <1>4, <2>1, UnwantedSkipped
  <2> QED  BY <1>4, <2>2 DEF OnImage
<1> HIDE DEF L, node
<1>10. ASSUME disk # <<>>, start = <<>>
       PROVE  Written'
  <2>1. Written
    BY <1>1, <1>10 DEF IInv, FromDisk
  <2>2. UNCHANGED <<disk, start, skip, failing, next, tree, phase>> /\ Loaded' = {}
    BY <1>1, <1>3 DEF Loaded, loadVars
  <2>3. (\A r : Gone(r)' = Gone(r)) /\ \A r, n : OnImage(r, n)' = OnImage(r, n)
    BY <2>2 DEF Gone, OnImage, Unwanted, Named, LostWith
  <2>4. \A i \in DOMAIN archive' : OnImage(archive'[i].path, archive'[i].node)
    BY <1>7, <1>8, <1>9, <2>1 DEF Written
  <2>5. \A r \in DOMAIN disk : r \in todo' \/ Gone(r) \/ \E i \in DOMAIN archive' : archive'[i].path = r
    BY <1>1, <1>7, <1>8, <2>1 DEF Written
  <2>6. \A i \in DOMAIN archive : Before(archive[i].path, p)
    BY <2>1 DEF Written
  <2>7. \A i, j \in DOMAIN archive' : i < j => Before(archive'[i].path, archive'[j].path)
    <3> SUFFICES ASSUME NEW i \in DOMAIN archive', NEW j \in DOMAIN archive', i < j
                 PROVE  Before(archive'[i].path, archive'[j].path)
      OBVIOUS
    <3>1. i \in DOMAIN archive
      BY <1>6, <1>7
    <3>2. CASE j \in DOMAIN archive
      BY <1>7, <2>1, <3>1, <3>2 DEF Written
    <3>3. CASE j = L + 1
      BY <1>7, <1>8, <2>6, <3>1, <3>3
    <3> QED  BY <1>7, <3>2, <3>3
  <2>8. \A i \in DOMAIN archive' : \A q \in todo' : Before(archive'[i].path, q)
    BY <1>1, <1>7, <1>8, <2>1 DEF Written
  <2>9. ASSUME NEW r \in todo', Front(r) # <<>>
        PROVE  Front(r) \in todo' \/ \E i \in DOMAIN archive' : archive'[i].path = Front(r)
    BY <1>1, <1>7, <1>8, <2>1, <2>9 DEF Written
  <2>10. ASSUME NEW j \in DOMAIN archive', Front(archive'[j].path) # <<>>
         PROVE  \E i \in 1..(j - 1) : archive'[i].path = Front(archive'[j].path)
    <3>1. CASE j \in DOMAIN archive
      <4>1. PICK i \in 1..(j - 1) : archive[i].path = Front(archive[j].path)
        BY <1>7, <2>1, <2>10, <3>1 DEF Written
      <4>2. i \in DOMAIN archive
        BY <1>6, <1>7, <3>1
      <4> QED  BY <1>7, <3>1, <4>1, <4>2
    <3>2. CASE j = L + 1
      <4> DEFINE dir == Front(p)
      <4>1. dir # <<>> /\ dir \in Seq(Names) /\ dir # p
        BY <1>4, <1>8, <2>10, <3>2, FrontOf, FullLen
      <4>2. dir \notin todo
        BY <1>1, <1>4, <4>1, BelowFront, NotBeforeBelow
      <4>3. PICK i \in DOMAIN archive : archive[i].path = dir
        BY <2>1, <4>1, <4>2 DEF Written
      <4>4. i \in 1..(j - 1)
        BY <1>6, <1>7, <3>2
      <4> QED  BY <1>7, <1>8, <3>2, <4>3, <4>4
    <3> QED  BY <1>7, <3>1, <3>2
  <2> QED
    BY <1>1, <2>2, <2>3, <2>4, <2>5, <2>7, <2>8, <2>9, <2>10 DEF Written
<1>11. todo' \subseteq todo
  BY <1>1
<1> QED  BY <1>1, <1>6, <1>10, <1>11, BuildRest

LEMMA StartUpStep ==
  ASSUME IInv, StartUp
  PROVE  IInv'
<1>1. /\ phase = "build" /\ todo = {} /\ phase' = "load"
      /\ UNCHANGED <<disk, start, skip, failing, todo, archive, loadVars, callVars>>
  BY DEF StartUp, buildVars
<1>2. archive \in Seq(Entries)
  BY DEF IInv, Load
<1>3. ASSUME disk # <<>>, start = <<>>
      PROVE  Written'
  <2>1. Written /\ Loaded' = Loaded /\ UNCHANGED <<next, tree>>
    BY <1>1, <1>3 DEF IInv, FromDisk, Loaded, loadVars
  <2>2. (\A r : Gone(r)' = Gone(r)) /\ \A r, n : OnImage(r, n)' = OnImage(r, n)
    BY <1>1 DEF Gone, OnImage, Unwanted, Named, LostWith
  <2> QED  BY <1>1, <2>1, <2>2 DEF Written
<1> QED  BY <1>1, <1>2, <1>3, BuildRest

-----------------------------------------------------------------------------
(* NewVirtualFS.                                                           *)

\* What all the steps of the loop over the entries share.
LEMMA LoadRest ==
  ASSUME IInv, CreateNode, phase' \in {"load", "down"},
         tree' = [p \in DOMAIN tree' |-> tree'[p]], IsTree',
         phase' = "load" => Kept' /\ FromDisk',
         phase' = "down" => Cause
  PROVE  IInv'
<1>1. /\ phase = "load" /\ next' = next + 1 /\ next <= Len(archive)
      /\ UNCHANGED <<disk, start, skip, failing, todo, archive>> /\ UNCHANGED callVars
  BY DEF CreateNode, buildVars
<1>2. Len(archive) \in Nat
  BY LenProperties DEF IInv, Load
<1>3. Load'
  BY <1>1, <1>2 DEF IInv, Load, Given
<1>4. Calling'
  <2>1. stack = <<>> /\ result = <<>> /\ 1..Len(<<>>) = {}
    BY <1>1, EmptySeq DEF IInv, Calling
  <2> QED  BY <1>1, <2>1 DEF IInv, Calling, callVars
<1>5. phase' = "down" => Cause'
  BY <1>1 DEF Cause
<1> QED  BY <1>3, <1>4, <1>5 DEF IInv

LEMMA Loading ==
  ASSUME IInv, CreateNode
  PROVE  /\ Load /\ Kept /\ FromDisk /\ archive \in Seq(Entries) /\ phase = "load"
         /\ next \in DOMAIN archive /\ archive[next].path \in FullPaths
         /\ archive' = archive /\ UNCHANGED <<disk, start, skip, failing, todo>>
         /\ Loaded' = Loaded \union {next} /\ Loaded \subseteq DOMAIN archive
         /\ \A i \in Loaded : i < next
         /\ \A i \in DOMAIN archive : i < next => i \in Loaded
<1>1. /\ phase = "load" /\ next' = next + 1 /\ next <= Len(archive)
      /\ archive' = archive /\ UNCHANGED <<disk, start, skip, failing, todo>>
  BY DEF CreateNode, buildVars
<1>2. archive \in Seq(Entries) /\ next \in 1..(Len(archive) + 1)
  BY DEF IInv, Load
<1>3. Len(archive) \in Nat /\ DOMAIN archive = 1..Len(archive)
  BY <1>2, LenProperties
<1>4. /\ next \in DOMAIN archive /\ Loaded' = Loaded \union {next} /\ Loaded \subseteq DOMAIN archive
      /\ \A i \in Loaded : i < next
      /\ \A i \in DOMAIN archive : i < next => i \in Loaded
  BY <1>1, <1>2, <1>3 DEF Loaded
<1> QED  BY <1>1, <1>2, <1>4, EntryOf DEF IInv

LEMMA PutStep ==
  ASSUME IInv, Put
  PROVE  IInv'
<1> DEFINE e == archive[next]
<1>1. CreateNode /\ phase' = phase /\ IsDir(Front(e.path))
  BY DEF Put
<1>2. tree' = [p \in {q \in DOMAIN tree : ~Below(q, e.path)} \union {e.path} |->
                 IF p = e.path THEN e.node ELSE tree[p]]
  BY DEF Put
<1>3. /\ Load /\ Kept /\ FromDisk /\ archive \in Seq(Entries) /\ phase = "load"
      /\ next \in DOMAIN archive /\ e.path \in FullPaths /\ e.node \in Nodes
      /\ e = Entry(e.path, e.node)
  BY <1>1, Loading, EntryOf
<1>4. /\ archive' = archive /\ UNCHANGED <<disk, start, skip, failing, todo>>
      /\ Loaded' = Loaded \union {next} /\ Loaded \subseteq DOMAIN archive
      /\ \A i \in Loaded : i < next
  BY <1>1, Loading
<1>5. /\ e.path \in DOMAIN tree' /\ tree'[e.path] = e.node
      /\ DOMAIN tree' = {q \in DOMAIN tree : ~Below(q, e.path)} \union {e.path}
      /\ \A p \in DOMAIN tree' : p # e.path => p \in DOMAIN tree /\ ~Below(p, e.path) /\ tree'[p] = tree[p]
      /\ \A p \in DOMAIN tree : ~Below(p, e.path) => p \in DOMAIN tree'
  BY <1>2
<1>6. tree' = [p \in DOMAIN tree' |-> tree'[p]]
  BY <1>2
<1> HIDE DEF e
<1>7. IsTree'
  <2>1. ASSUME NEW p \in DOMAIN tree', Front(p) # <<>>, p \in FullPaths,
               Front(p) \in DOMAIN tree, tree[Front(p)].kind = "dir",
               Front(p) # e.path, ~Below(Front(p), e.path)
        PROVE  Front(p) \in DOMAIN tree' /\ tree'[Front(p)].kind = "dir"
    BY <1>5, <2>1
  <2>2. ASSUME NEW p \in DOMAIN tree'
        PROVE  p \in FullPaths /\ tree'[p] \in Nodes /\ IsDir(Front(p))'
    <3>1. CASE p = e.path
      <4>1. p \in FullPaths /\ Front(p) # p /\ ~Below(Front(p), p)
        BY <1>3, <3>1, FrontOf, FullLen, BelowIndex
      <4> QED  BY <1>1, <1>3, <1>5, <2>1, <3>1, <4>1 DEF IsDir
    <3>2. CASE p # e.path
      <4>1. p \in DOMAIN tree /\ ~Below(p, e.path) /\ tree'[p] = tree[p]
        BY <1>5, <3>2
      <4>2. p \in FullPaths /\ tree[p] \in Nodes /\ IsDir(Front(p))
        BY <1>3, <4>1 DEF Load, IsTree
      <4>3. Front(p) # e.path /\ ~Below(Front(p), e.path)
        BY <1>3, <4>1, <4>2, BelowFront, BelowBelow, FullLen
      <4> QED  BY <2>1, <4>1, <4>2, <4>3 DEF IsDir
    <3> QED  BY <3>1, <3>2
  <2> QED  BY <2>2 DEF IsTree
<1>8. Kept'
  <2>1. ASSUME NEW p \in DOMAIN tree'
        PROVE  \E j \in Loaded' :
                 /\ archive[j] = Entry(p, tree'[p])
                 /\ \A k \in Loaded' : archive[k].path = p => k <= j
    <3>1. CASE p = e.path
      <4>1. archive[next] = Entry(p, tree'[p])
        BY <1>3, <1>5, <3>1 DEF e
      <4>2. next \in Nat /\ \A k \in Loaded : k \in Nat /\ k < next
        BY <1>3, <1>4, EntryOf
      <4>3. \A k \in Loaded' : k <= next
        BY <1>4, <4>2
      <4> QED  BY <1>4, <4>1, <4>3
    <3>2. CASE p # e.path
      <4>1. p \in DOMAIN tree /\ tree'[p] = tree[p]
        BY <1>5, <3>2
      <4>2. PICK j \in Loaded :
              /\ archive[j] = Entry(p, tree[p])
              /\ \A k \in Loaded : archive[k].path = p => k <= j
        BY <1>3, <4>1 DEF Kept
      <4> QED  BY <1>4, <3>2, <4>1, <4>2 DEF e
    <3> QED  BY <3>1, <3>2
  <2>2. ASSUME NEW i \in Loaded', InOrder(i)
        PROVE  archive[i].path \in DOMAIN tree'
    <3>1. CASE i = next
      BY <1>5, <3>1 DEF e
    <3>2. CASE i # next
      <4>1. i \in Loaded /\ i \in DOMAIN archive /\ i < next /\ archive[i].path \in DOMAIN tree
        BY <1>3, <1>4, <2>2, <3>2 DEF Kept
      <4>2. i \in Nat /\ next \in Nat
        BY <1>3, <4>1, EntryOf
      <4>3. ~Below(archive[i].path, archive[next].path)
        BY <1>3, <2>2, <4>1, <4>2, InOrderBelow
      <4> QED  BY <1>5, <4>1, <4>3 DEF e
    <3> QED  BY <3>1, <3>2
  <2>3. ASSUME Unique, NEW p \in DOMAIN tree'
        PROVE  \E i \in Loaded' : archive[i].path = p /\ InOrder(i)
    <3>1. CASE p # e.path
      BY <1>3, <1>4, <1>5, <2>3, <3>1 DEF Kept
    <3>2. CASE p = e.path /\ Front(p) = <<>>
      BY <1>3, <1>4, <3>2, InOrderRoot DEF e
    <3>3. CASE p = e.path /\ Front(p) # <<>>
      <4>1. Front(p) \in DOMAIN tree /\ tree[Front(p)].kind = "dir"
        BY <1>1, <3>3 DEF IsDir, e
      <4>2. PICK j \in Loaded : archive[j].path = Front(p) /\ InOrder(j)
        BY <1>3, <2>3, <4>1 DEF Kept
      <4>3. PICK k \in Loaded : archive[k] = Entry(Front(p), tree[Front(p)])
        BY <1>3, <4>1 DEF Kept
      <4>4. k = j
        BY <1>4, <2>3, <4>2, <4>3 DEF Unique, Entry
      <4>5. archive[j].node.kind = "dir" /\ j < next /\ j \in DOMAIN archive
        BY <1>4, <4>1, <4>3, <4>4 DEF Entry
      <4>6. InOrder(next)
        BY <1>3, <2>3, <3>3, <4>2, <4>5, InOrderExtend DEF e
      <4> QED  BY <1>4, <3>3, <4>6 DEF e
    <3> QED  BY <3>1, <3>2, <3>3
  <2>4. Unique' = Unique /\ \A i : InOrder(i)' = InOrder(i)
    BY <1>4 DEF Unique, InOrder, At
  <2> QED  BY <1>4, <2>1, <2>2, <2>3, <2>4 DEF Kept
<1>9. FromDisk'
  <2> SUFFICES ASSUME disk # <<>>, start = <<>>, Written PROVE Written'
    BY <1>3, <1>4 DEF FromDisk
  <2>1. ASSUME NEW i \in Loaded'
        PROVE  archive[i].path \in DOMAIN tree'
    <3>1. CASE i = next
      BY <1>5, <3>1 DEF e
    <3>2. CASE i # next
      <4>1. i \in Loaded /\ i \in DOMAIN archive /\ i < next /\ archive[i].path \in DOMAIN tree
        BY <1>4, <2>1, <3>2 DEF Written
      <4>2. Before(archive[i].path, e.path)
        BY <1>3, <4>1 DEF Written, e
      <4>3. archive[i].path \in FullPaths /\ e.path \in FullPaths
        BY <1>3, <4>1, EntryOf
      <4>4. ~Below(archive[i].path, e.path)
        BY <4>2, <4>3, NotBeforeBelow, FullLen
      <4> QED  BY <1>5, <4>1, <4>4
    <3> QED  BY <3>1, <3>2
  <2>2. (\A r : Gone(r)' = Gone(r)) /\ \A r, n : OnImage(r, n)' = OnImage(r, n)
    BY <1>4 DEF Gone, OnImage, Unwanted, Named, LostWith
  <2> QED  BY <1>1, <1>4, <2>1, <2>2 DEF Written
<1> QED  BY <1>1, <1>3, <1>6, <1>7, <1>8, <1>9, LoadRest

LEMMA DropStep ==
  ASSUME IInv, Drop
  PROVE  IInv'
<1> DEFINE dir == Front(archive[next].path)
<1>1. CreateNode /\ phase' = phase /\ tree' = tree /\ dir \notin DOMAIN tree /\ dir # <<>>
  BY DEF Drop
<1>2. /\ Load /\ Kept /\ FromDisk /\ archive \in Seq(Entries) /\ phase = "load"
      /\ next \in DOMAIN archive
  BY <1>1, Loading
<1>3. /\ archive' = archive /\ UNCHANGED <<disk, start, skip, failing, todo>>
      /\ Loaded' = Loaded \union {next} /\ Loaded \subseteq DOMAIN archive
      /\ \A i \in DOMAIN archive : i < next => i \in Loaded
  BY <1>1, Loading
<1>4. IsTree' /\ tree' = [p \in DOMAIN tree' |-> tree'[p]]
  BY <1>1, <1>2, <1>3 DEF Load, IsTree, IsDir
<1>5. Kept'
  <2>1. ~InOrder(next)
    <3> SUFFICES ASSUME InOrder(next) PROVE FALSE
      OBVIOUS
    <3>1. PICK j \in DOMAIN archive : j < next /\ InOrder(j) /\ At(dir) = {j}
      BY <1>1, <1>2, <1>3, InOrderFront
    <3>2. archive[j].path = dir /\ j \in Loaded
      BY <1>2, <1>3, <3>1 DEF At
    <3> QED  BY <1>1, <1>2, <1>3, <3>1, <3>2 DEF Kept
  <2>2. Unique' = Unique /\ \A i : InOrder(i)' = InOrder(i)
    BY <1>2, <1>3 DEF Unique, InOrder, At
  <2>3. archive[next].path \notin DOMAIN tree
    BY <1>1, <1>2 DEF Load, IsTree, IsDir
  <2>4. ASSUME NEW p \in DOMAIN tree
        PROVE  \E j \in Loaded' :
                 /\ archive[j] = Entry(p, tree[p])
                 /\ \A k \in Loaded' : archive[k].path = p => k <= j
    <3>1. PICK j \in Loaded :
            /\ archive[j] = Entry(p, tree[p])
            /\ \A k \in Loaded : archive[k].path = p => k <= j
      BY <1>2 DEF Kept
    <3> QED  BY <1>3, <2>3, <3>1
  <2> QED  BY <1>1, <1>2, <1>3, <2>1, <2>2, <2>4 DEF Kept
<1>6. FromDisk'
  <2> SUFFICES ASSUME disk # <<>>, start = <<>>, Written PROVE Written'
    BY <1>2, <1>3 DEF FromDisk
  <2>1. PICK i \in 1..(next - 1) : archive[i].path = dir
    BY <1>1, <1>2, <1>3 DEF Written
  <2>2. i \in Loaded
    BY DEF Loaded
  <2> QED  BY <1>1, <2>1, <2>2 DEF Written
<1> QED  BY <1>1, <1>2, <1>4, <1>5, <1>6, LoadRest

LEMMA PanicStep ==
  ASSUME IInv, PanicBelowFile
  PROVE  IInv'
<1> DEFINE dir == Front(archive[next].path)
<1>1. CreateNode /\ phase' = "down" /\ tree' = tree /\ dir \in DOMAIN tree /\ ~IsDir(dir)
  BY DEF PanicBelowFile
<1>2. /\ Load /\ Kept /\ next \in DOMAIN archive /\ Loaded \subseteq DOMAIN archive
  BY <1>1, Loading
<1>3. IsTree' /\ tree' = [p \in DOMAIN tree' |-> tree'[p]]
  BY <1>1, <1>2 DEF Load, IsTree, IsDir
<1>4. Cause
  <2>1. PICK i \in Loaded : archive[i] = Entry(dir, tree[dir])
    BY <1>1, <1>2 DEF Kept
  <2>2. archive[i].path = dir /\ archive[i].node.kind # "dir"
    BY <1>1, <2>1 DEF Entry, IsDir
  <2> QED  BY <1>2, <2>2 DEF Cause
<1> QED  BY <1>1, <1>3, <1>4, LoadRest

LEMMA ServeStep ==
  ASSUME IInv, Serve
  PROVE  IInv'
<1>1. /\ phase = "load" /\ next > Len(archive) /\ phase' = "serve"
      /\ UNCHANGED <<disk, start, skip, failing, todo, archive, next, tree, goal, follow, stack, result>>
  BY DEF Serve, buildVars, loadVars, callVars
<1>2. Load /\ Calling /\ Kept /\ FromDisk
  BY <1>1 DEF IInv
<1>3. Len(archive) \in Nat
  BY <1>2, LenProperties DEF Load
<1>4. Load'
  BY <1>1, <1>2, <1>3 DEF Load, Given, IsTree, IsDir
<1>5. Calling'
  BY <1>1, <1>2 DEF Calling
<1>6. Loaded' = Loaded /\ Unique' = Unique /\ (\A i : InOrder(i)' = InOrder(i))
  BY <1>1 DEF Loaded, Unique, InOrder, At
<1>7. Kept'
  BY <1>1, <1>2, <1>6 DEF Kept
<1>8. FromDisk'
  BY <1>1, <1>2, <1>6 DEF FromDisk, Written, Gone, Unwanted, Named, LostWith, OnImage
<1> QED  BY <1>1, <1>4, <1>5, <1>7, <1>8 DEF IInv

-----------------------------------------------------------------------------
(* fetchNode.                                                              *)

\* A lookup leaves the image as it is.
LEMMA CallRest ==
  ASSUME IInv, phase = "serve", UNCHANGED <<buildVars, loadVars>>, Calling',
         phase' \in {"serve", "down"}, phase' = "down" => stack' # <<>>
  PROVE  IInv'
<1>1. UNCHANGED <<disk, start, skip, failing, todo, archive, next, tree>>
  BY DEF buildVars, loadVars
<1>2. Load /\ Kept /\ FromDisk
  BY DEF IInv
<1>3. Load'
  BY <1>1, <1>2 DEF Load, Given, IsTree, IsDir
<1>4. Loaded' = Loaded /\ Unique' = Unique /\ (\A i : InOrder(i)' = InOrder(i))
  BY <1>1 DEF Loaded, Unique, InOrder, At
<1>5. Kept'
  BY <1>1, <1>2, <1>4 DEF Kept
<1>6. phase' = "serve" => FromDisk'
  BY <1>1, <1>2, <1>4 DEF FromDisk, Written, Gone, Unwanted, Named, LostWith, OnImage
<1> QED  BY <1>3, <1>5, <1>6 DEF IInv

LEMMA AskStep ==
  ASSUME IInv, NEW p \in Goals, NEW f \in BOOLEAN, Ask(p, f)
  PROVE  IInv'
<1>1. /\ phase = "serve" /\ phase' = phase /\ goal' = p /\ follow' = f /\ stack' = <<Call(p)>>
      /\ UNCHANGED <<buildVars, loadVars, result>>
  BY DEF Ask
<1>2. Call(p) \in Calls /\ Call(p).cwd = <<>>
  <2>1. p \in Seq(Names)
    BY ImageAssumption DEF Goals
  <2>2. p \in Targets
    BY <2>1, SeqMonotonic DEF Targets
  <2> QED  BY <2>2, EmptySeq DEF Call, Calls
<1>3. Calling'
  <2>1. stack' \in Seq(Calls) /\ Len(stack') = 1 /\ stack'[1] = Call(p)
    BY <1>1, <1>2
  <2>2. 1 <= MaxStack
    BY ImageAssumption
  <2> QED  BY <1>1, <1>2, <2>1, <2>2 DEF IInv, Calling, loadVars
<1> QED  BY <1>1, <1>3, CallRest

\* The innermost call.
LEMMA TopCall ==
  ASSUME Calling, stack # <<>>
  PROVE  /\ Len(stack) \in Nat \ {0} /\ Top = stack[Len(stack)] /\ Top \in Calls
         /\ Top.cwd \in DOMAIN tree \union {<<>>}
         /\ \A k \in 1..Len(stack) : stack[k] \in Calls
<1>1. stack \in Seq(Calls) /\ Len(stack) \in Nat \ {0}
  BY EmptySeq DEF Calling
<1>2. Len(stack) \in 1..Len(stack) /\ \A k \in 1..Len(stack) : stack[k] \in Calls
  BY <1>1, ElementOfSeq
<1>3. Top = stack[Len(stack)]
  BY DEF Top, Last
<1> QED  BY <1>1, <1>2, <1>3 DEF Calling

\* What a step makes of the stack.
LEMMA FollowTo ==
  ASSUME IInv, Follow
  PROVE  LET n == Len(stack) IN
         /\ n \in Nat \ {0} /\ stack' \in Seq(Calls) /\ Len(stack') = n + 1
         /\ \A k \in 1..(n - 1) : stack'[k] = stack[k]
         /\ stack'[n] = [Top EXCEPT !.via = TRUE]
         /\ stack'[n + 1] = Call(NamesOf(tree[Top.cwd]))
<1>1. /\ stack # <<>> /\ AtLink
      /\ stack' = Append([stack EXCEPT ![Len(stack)].via = TRUE], Call(NamesOf(tree[Top.cwd])))
  BY DEF Follow, Walking
<1>2. Load /\ Calling /\ stack \in Seq(Calls)
  BY DEF IInv, Calling
<1>3. Len(stack) \in Nat \ {0} /\ Top = stack[Len(stack)] /\ Top \in Calls
  BY <1>1, <1>2, TopCall
<1> DEFINE call == Call(NamesOf(tree[Top.cwd]))
           at   == [Top EXCEPT !.via = TRUE]
           old  == [stack EXCEPT ![Len(stack)] = at]
<1>4. call \in Calls
  <2>1. tree[Top.cwd] \in Nodes
    BY <1>1, <1>2 DEF AtLink, IsLink, LinkIn, Load, IsTree
  <2>2. tree[Top.cwd].to \in Targets
    BY <2>1 DEF Nodes
  <2>3. NamesOf(tree[Top.cwd]) \in Targets
    BY <2>2, HeadTailProperties DEF NamesOf, Targets
  <2> QED  BY <2>3, EmptySeq DEF Call, Calls
<1>5. at \in Calls
  BY <1>3 DEF Calls
<1>6. stack' = Append(old, call)
  BY <1>1, <1>3
<1> HIDE DEF call, at
<1>7. /\ old \in Seq(Calls) /\ Len(old) = Len(stack)
      /\ \A k \in 1..Len(stack) : old[k] = IF k = Len(stack) THEN at ELSE stack[k]
  BY <1>2, <1>3, <1>5, ExceptSeq
<1> HIDE DEF old
<1>8. /\ stack' \in Seq(Calls) /\ Len(stack') = Len(stack) + 1
      /\ \A k \in 1..Len(stack) : stack'[k] = old[k]
      /\ stack'[Len(stack) + 1] = call
  BY <1>4, <1>6, <1>7, AppendProperties
<1>9. stack'[Len(stack)] = at /\ \A k \in 1..(Len(stack) - 1) : stack'[k] = stack[k]
  BY <1>3, <1>7, <1>8
<1> QED  BY <1>3, <1>8, <1>9 DEF call, at

LEMMA FollowStep ==
  ASSUME IInv, Follow
  PROVE  IInv'
<1> DEFINE n == Len(stack)
<1>1. /\ phase = "serve" /\ phase' = phase /\ stack # <<>> /\ n < MaxStack
      /\ UNCHANGED <<buildVars, loadVars, goal, follow, result>>
  BY DEF Follow, Walking
<1>2. Load /\ Calling
  BY DEF IInv
<1>3. /\ n \in Nat \ {0} /\ stack' \in Seq(Calls) /\ Len(stack') = n + 1
      /\ \A k \in 1..(n - 1) : stack'[k] = stack[k]
      /\ stack'[n] = [Top EXCEPT !.via = TRUE]
      /\ stack'[n + 1] = Call(NamesOf(tree[Top.cwd]))
  BY FollowTo
<1>4. Top.cwd \in DOMAIN tree \union {<<>>} /\ Top \in Calls
  BY <1>1, <1>2, TopCall
<1>5. stack'[n].cwd = Top.cwd /\ stack'[n + 1].cwd = <<>>
  BY <1>3, <1>4 DEF Call, Calls
<1>6. ASSUME NEW k \in 1..Len(stack') PROVE stack'[k].cwd \in DOMAIN tree \union {<<>>}
  <2>1. k \in 1..(n - 1) \/ k = n \/ k = n + 1
    BY <1>3
  <2>2. CASE k \in 1..(n - 1)
    <3>1. k \in 1..n
      BY <1>3, <2>2
    <3> QED  BY <1>2, <1>3, <2>2, <3>1 DEF Calling
  <2> QED  BY <1>4, <1>5, <2>1, <2>2
<1>7. Len(stack') <= MaxStack
  BY <1>1, <1>3, ImageAssumption
<1> HIDE DEF n
<1>8. Calling'
  BY <1>1, <1>2, <1>3, <1>6, <1>7 DEF Calling, loadVars
<1> QED  BY <1>1, <1>8, CallRest

LEMMA OverflowStep ==
  ASSUME IInv, Overflow
  PROVE  IInv'
<1>1. /\ phase = "serve" /\ phase' = "down" /\ stack # <<>>
      /\ UNCHANGED <<buildVars, loadVars, goal, follow, stack, result>>
  BY DEF Overflow, Walking
<1>2. Calling'
  BY <1>1 DEF IInv, Calling, loadVars
<1> QED  BY <1>1, <1>2, CallRest

LEMMA EnterTo ==
  ASSUME IInv, Enter
  PROVE  LET n == Len(stack) IN
         /\ n \in Nat \ {0} /\ stack' \in Seq(Calls) /\ Len(stack') = n
         /\ \A k \in 1..(n - 1) : stack'[k] = stack[k]
         /\ stack'[n] = [cwd |-> Child, names |-> Tail(Top.names), via |-> FALSE]
<1> DEFINE call == [cwd |-> Child, names |-> Tail(Top.names), via |-> FALSE]
<1>1. /\ stack # <<>> /\ Top.names # <<>> /\ Child \in DOMAIN tree
      /\ stack' = [stack EXCEPT ![Len(stack)] = [cwd |-> Child, names |-> Tail(@.names), via |-> FALSE]]
  BY DEF Enter, Walking
<1>2. Load /\ Calling /\ stack \in Seq(Calls)
  BY DEF IInv, Calling
<1>3. /\ Len(stack) \in Nat \ {0} /\ Top = stack[Len(stack)] /\ Top \in Calls
  BY <1>1, <1>2, TopCall
<1>4. call \in Calls
  <2>1. Child \in Seq(Names)
    BY <1>1, <1>2, FullLen DEF Load, IsTree
  <2>2. Tail(Top.names) \in Targets
    BY <1>1, <1>3, HeadTailProperties DEF Calls, Targets
  <2> QED  BY <2>1, <2>2 DEF Calls
<1>5. stack' = [stack EXCEPT ![Len(stack)] = call]
  BY <1>1, <1>3
<1> HIDE DEF call
<1>6. /\ stack' \in Seq(Calls) /\ Len(stack') = Len(stack)
      /\ \A k \in 1..Len(stack) : stack'[k] = IF k = Len(stack) THEN call ELSE stack[k]
  BY <1>2, <1>3, <1>4, <1>5, ExceptSeq
<1>7. stack'[Len(stack)] = call /\ \A k \in 1..(Len(stack) - 1) : stack'[k] = stack[k]
  BY <1>3, <1>6
<1> QED  BY <1>3, <1>6, <1>7 DEF call

LEMMA EnterStep ==
  ASSUME IInv, Enter
  PROVE  IInv'
<1> DEFINE n == Len(stack)
<1>1. /\ phase = "serve" /\ phase' = phase /\ stack # <<>> /\ Child \in DOMAIN tree
      /\ UNCHANGED <<buildVars, loadVars, goal, follow, result>>
  BY DEF Enter, Walking
<1>2. Load /\ Calling
  BY DEF IInv
<1>3. /\ n \in Nat \ {0} /\ stack' \in Seq(Calls) /\ Len(stack') = n
      /\ \A k \in 1..(n - 1) : stack'[k] = stack[k]
      /\ stack'[n] = [cwd |-> Child, names |-> Tail(Top.names), via |-> FALSE]
  BY EnterTo
<1>4. ASSUME NEW k \in 1..Len(stack') PROVE stack'[k].cwd \in DOMAIN tree \union {<<>>}
  <2>1. k \in 1..(n - 1) \/ k = n
    BY <1>3
  <2>2. CASE k \in 1..(n - 1)
    <3>1. k \in 1..n
      BY <1>3, <2>2
    <3> QED  BY <1>2, <1>3, <2>2, <3>1 DEF Calling
  <2> QED  BY <1>1, <1>3, <2>1, <2>2
<1>5. Len(stack') <= MaxStack
  BY <1>2, <1>3 DEF Calling
<1> HIDE DEF n
<1>6. Calling'
  BY <1>1, <1>2, <1>3, <1>4, <1>5 DEF Calling, loadVars
<1> QED  BY <1>1, <1>6, CallRest

LEMMA EndStep ==
  ASSUME IInv, phase = "serve", phase' = phase, stack' = <<>>,
         result' \in DOMAIN tree \union {<<>>, NoNode},
         UNCHANGED <<buildVars, loadVars, goal, follow>>
  PROVE  IInv'
<1>1. stack' \in Seq(Calls) /\ Len(stack') = 0 /\ 1..Len(stack') = {}
  BY EmptySeq
<1>2. Calling'
  BY <1>1, ImageAssumption DEF IInv, Calling, loadVars, NoNode
<1>3. phase' = "serve" /\ phase' # "down"
  OBVIOUS
<1>4. UNCHANGED <<buildVars, loadVars>>
  OBVIOUS
<1> QED  BY <1>2, <1>3, <1>4, CallRest

LEMMA ReturnTo ==
  ASSUME IInv, Return, Len(stack) # 1
  PROVE  LET n == Len(stack) - 1 IN
         /\ n \in Nat \ {0} /\ stack' \in Seq(Calls) /\ Len(stack') = n
         /\ \A k \in 1..(n - 1) : stack'[k] = stack[k]
         /\ stack'[n] = [stack[n] EXCEPT !.cwd = Top.cwd]
         /\ stack[n] \in Calls
<1>1. stack # <<>>
  BY DEF Return, Walking
<1>2. Calling /\ stack \in Seq(Calls)
  BY DEF IInv, Calling
<1>3. /\ Len(stack) \in Nat \ {0} /\ Top \in Calls
      /\ \A k \in 1..Len(stack) : stack[k] \in Calls
  BY <1>1, <1>2, TopCall
<1> DEFINE n == Len(stack) - 1
           rest == Front(stack)
           call == [rest[n] EXCEPT !.cwd = Top.cwd]
<1>4. stack' = [rest EXCEPT ![n].cwd = Top.cwd]
  BY DEF Return
<1>5. n \in 1..Len(stack) /\ n \in 1..n /\ n \in Nat \ {0} /\ n < Len(stack) /\ n \in 0..Len(stack)
  <2>1. Len(stack) \in Nat \ {0, 1}
    BY <1>3
  <2> HIDE DEF rest, call
  <2> QED  BY <2>1
<1>6. /\ rest \in Seq(Calls) /\ Len(rest) = n
      /\ \A k \in 1..n : rest[k] = stack[k]
  <2> HIDE DEF n
  <2> QED  BY <1>2, <1>5, PrefixIn DEF Front, n
<1>7. call \in Calls /\ call = [stack[n] EXCEPT !.cwd = Top.cwd] /\ stack[n] \in Calls
  BY <1>3, <1>5, <1>6 DEF Calls
<1>8. stack' = [rest EXCEPT ![n] = call]
  BY <1>4
<1> HIDE DEF rest, call
<1>9. /\ stack' \in Seq(Calls) /\ Len(stack') = n
      /\ \A k \in 1..n : stack'[k] = IF k = n THEN call ELSE rest[k]
  BY <1>5, <1>6, <1>7, <1>8, ExceptSeq
<1>10. stack'[n] = call /\ \A k \in 1..(n - 1) : stack'[k] = stack[k]
  BY <1>5, <1>6, <1>9
<1> QED  BY <1>5, <1>7, <1>9, <1>10

LEMMA ReturnStep ==
  ASSUME IInv, Return
  PROVE  IInv'
<1>1. /\ phase = "serve" /\ phase' = phase /\ stack # <<>>
      /\ UNCHANGED <<buildVars, loadVars, goal, follow>>
  BY DEF Return, Walking
<1>2. Calling
  BY DEF IInv
<1>3. /\ Len(stack) \in Nat \ {0} /\ Top \in Calls
      /\ Top.cwd \in DOMAIN tree \union {<<>>}
  BY <1>1, <1>2, TopCall
<1>4. CASE Len(stack) = 1
  <2>1. stack' = <<>> /\ result' = Top.cwd
    BY <1>4 DEF Return
  <2> QED  BY <1>1, <1>3, <2>1, EndStep
<1>5. CASE Len(stack) # 1
  <2> DEFINE n == Len(stack) - 1
  <2>1. /\ n \in Nat \ {0} /\ stack' \in Seq(Calls) /\ Len(stack') = n
        /\ \A k \in 1..(n - 1) : stack'[k] = stack[k]
        /\ stack'[n] = [stack[n] EXCEPT !.cwd = Top.cwd]
        /\ stack[n] \in Calls
    BY <1>5, ReturnTo
  <2>2. result' = result
    BY <1>5 DEF Return
  <2>3. stack'[n].cwd = Top.cwd
    BY <2>1 DEF Calls
  <2>4. ASSUME NEW k \in 1..Len(stack') PROVE stack'[k].cwd \in DOMAIN tree \union {<<>>}
    <3>1. k \in 1..(n - 1) \/ k = n
      BY <2>1
    <3>2. CASE k \in 1..(n - 1)
      <4>1. k \in 1..Len(stack)
        BY <1>3, <3>2
      <4> QED  BY <1>2, <2>1, <3>2, <4>1 DEF Calling
    <3> QED  BY <1>3, <2>3, <3>1, <3>2
  <2>5. Len(stack') <= MaxStack
    BY <1>2, <1>3, <2>1, ImageAssumption DEF Calling
  <2> HIDE DEF n
  <2>6. Calling'
    BY <1>1, <1>2, <2>1, <2>2, <2>4, <2>5 DEF Calling, loadVars
  <2> QED  BY <1>1, <2>6, CallRest
<1> QED  BY <1>4, <1>5

-----------------------------------------------------------------------------

LEMMA IInvHolds == Spec => []IInv
<1>1. IInv /\ [Next]_vars => IInv'
  <2> SUFFICES ASSUME IInv, [Next]_vars PROVE IInv'
    OBVIOUS
  <2>1. ASSUME NEW p \in todo, SkipEntry(p) \/ LeaveOut(p) \/ WriteEntry(p) PROVE IInv'
    BY <2>1, SkipStep, LeaveOutStep, WriteStep
  <2>2. CASE StartUp
    BY <2>2, StartUpStep
  <2>3. CASE Put \/ Drop \/ PanicBelowFile \/ Serve
    BY <2>3, PutStep, DropStep, PanicStep, ServeStep
  <2>4. ASSUME NEW p \in Goals, NEW f \in BOOLEAN, Ask(p, f) PROVE IInv'
    BY <2>4, AskStep
  <2>5. CASE NotExist
    BY <2>5, EndStep DEF NotExist, Walking
  <2>6. CASE FetchNode
    BY <2>5, <2>6, FollowStep, OverflowStep, EnterStep, ReturnStep DEF FetchNode
  <2>7. CASE UNCHANGED vars
    <3>1. UNCHANGED <<phase, disk, start, skip, failing, todo, archive, next, tree, goal, follow, stack, result>>
      BY <2>7 DEF vars, buildVars, loadVars, callVars
    <3>2. Load' = Load /\ Calling' = Calling
      BY <3>1 DEF Load, Given, IsTree, IsDir, Calling
    <3>3. Loaded' = Loaded /\ Unique' = Unique /\ (\A i : InOrder(i)' = InOrder(i))
      BY <3>1 DEF Loaded, Unique, InOrder, At
    <3>4. Kept' = Kept
      BY <3>1, <3>3 DEF Kept
    <3>5. FromDisk' = FromDisk
      BY <3>1, <3>3 DEF FromDisk, Written, Gone, Unwanted, Named, LostWith, OnImage
    <3> QED  BY <3>1, <3>2, <3>4, <3>5 DEF IInv, Cause
  <2> QED  BY <2>1, <2>2, <2>3, <2>4, <2>6, <2>7 DEF Next
<1> QED  BY InitIInv, <1>1, PTL DEF Spec

\* The types, and a tree in which every node is in a directory, for any image.
THEOREM ImageTypes == Spec => []TypeOK
<1>1. IInv => TypeOK
  BY DEF IInv, Load, Calling, IsTree, TypeOK
<1> QED  BY <1>1, IInvHolds, PTL

\* Of any archive the image keeps the entries that follow their directories, and
\* of one that has each name once no others.
THEOREM ImageKeepsEntries == Spec => []EntriesKept
<1>1. IInv => EntriesKept
  <2> SUFFICES ASSUME IInv, phase = "serve" PROVE EntriesKept
    BY DEF EntriesKept
  <2>1. archive \in Seq(Entries) /\ next = Len(archive) + 1 /\ IsTree /\ Kept
    BY DEF IInv, Load
  <2>2. Len(archive) \in Nat /\ DOMAIN archive = 1..Len(archive)
    BY <2>1, LenProperties
  <2>3. Loaded = DOMAIN archive
    BY <2>1, <2>2 DEF Loaded
  <2>4. ASSUME NEW p \in DOMAIN tree
        PROVE  \E j \in DOMAIN archive :
                 archive[j] = Entry(p, tree[p]) /\ \A k \in At(p) : k <= j
    BY <2>1, <2>3 DEF Kept, At
  <2> QED  BY <2>1, <2>3, <2>4 DEF EntriesKept, IsTree, Kept, Unique
<1> QED  BY <1>1, IInvHolds, PTL

\* For any disk, names to skip and failures, createfs from / or . and NewVirtualFS
\* give the disk without what -k names, and lose no more than ImageIsDisk says.
THEOREM ImageIsTheDisk == Spec => []ImageIsDisk
<1>1. IInv => ImageIsDisk
  <2> SUFFICES ASSUME IInv, phase = "serve", disk # <<>>, start = <<>>
               PROVE  /\ \A p \in DOMAIN tree : OnImage(p, tree[p])
                      /\ \A p \in DOMAIN disk \ DOMAIN tree : Gone(p)
    BY DEF ImageIsDisk, OnImage, Gone
  <2>1. archive \in Seq(Entries) /\ next = Len(archive) + 1 /\ Kept /\ Written
    BY DEF IInv, Load, FromDisk
  <2>2. Loaded = DOMAIN archive /\ todo = {}
    <3>1. Len(archive) \in Nat /\ DOMAIN archive = 1..Len(archive)
      BY <2>1, LenProperties
    <3> QED  BY <2>1, <3>1 DEF Loaded, Written
  <2>3. ASSUME NEW p \in DOMAIN tree
        PROVE  OnImage(p, tree[p])
    <3>1. PICK j \in DOMAIN archive : archive[j] = Entry(p, tree[p])
      BY <2>1, <2>2 DEF Kept
    <3>2. archive[j].path = p /\ archive[j].node = tree[p]
      BY <3>1 DEF Entry
    <3>3. OnImage(archive[j].path, archive[j].node)
      BY <2>1 DEF Written
    <3> QED  BY <3>2, <3>3
  <2>4. ASSUME NEW p \in DOMAIN disk \ DOMAIN tree
        PROVE  Gone(p)
    BY <2>1, <2>2 DEF Written
  <2> QED  BY <2>3, <2>4
<1> QED  BY <1>1, IInvHolds, PTL

-----------------------------------------------------------------------------
(* A tree as paths.                                                        *)

LEMMA PathIsTarget ==
  ASSUME NEW p \in Seq(Names)
  PROVE  p \in Targets
<1> QED  BY SeqMonotonic DEF Targets

LEMMA LinksOnNat ==
  ASSUME NEW t, NEW p \in Targets
  PROVE  Len(p) \in Nat /\ LinksOn(t, p) \in SUBSET (1..Len(p)) /\ LinksOn(t, p) \in SUBSET Nat
<1>1. Len(p) \in Nat
  BY LenProperties DEF Targets
<1> QED  BY <1>1 DEF LinksOn

\* No link has anything below it.
LEMMA NodeHasNoLinks ==
  ASSUME NEW t, Closed(t), NEW p, p \in DOMAIN t \union {<<>>}
  PROVE  LinksOn(t, p) = {}
<1>1. CASE p = <<>>
  BY <1>1 DEF LinksOn
<1>2. CASE p \in DOMAIN t
  <2>1. \A n \in 1..(Len(p) - 1) : t[SubSeq(p, 1, n)].kind # "link"
    BY <1>2, PrefixDirs
  <2> QED  BY <2>1 DEF LinksOn, LinkIn
<1> QED  BY <1>1, <1>2

\* A path beyond one that is not there, or that is a file, is not there.
LEMMA NothingBelow ==
  ASSUME NEW t, Closed(t), NEW q \in Targets, NEW s \in Targets, s # <<>>, q # <<>>,
         ~(q \in DOMAIN t /\ t[q].kind = "dir")
  PROVE  q \o s \notin DOMAIN t
<1> SUFFICES ASSUME q \o s \in DOMAIN t PROVE FALSE
  OBVIOUS
<1>1. /\ Len(q) \in Nat \ {0} /\ Len(s) \in Nat \ {0}
      /\ Len(q \o s) = Len(q) + Len(s)
  BY ConcatProperties, EmptySeq DEF Targets
<1>2. SubSeq(q \o s, 1, Len(q)) = SubSeq(q, 1, Len(q))
  BY <1>1, PrefixOfConcat DEF Targets
<1>3. SubSeq(q, 1, Len(q)) = q
  BY SubSeqFull DEF Targets
<1>4. Len(q) \in 1..(Len(q \o s) - 1)
  BY <1>1
<1> QED  BY <1>2, <1>3, <1>4, PrefixDirs

-----------------------------------------------------------------------------
(* Rewriting.                                                              *)

LEMMA RewriteFirst ==
  ASSUME NEW t, NEW p \in Targets, NEW n \in LinksOn(t, p),
         \A k \in LinksOn(t, p) : n <= k
  PROVE  Rewrite(t, p) = t[SubSeq(p, 1, n)].to \o SubSeq(p, n + 1, Len(p))
<1> DEFINE m == CHOOSE m \in LinksOn(t, p) : \A k \in LinksOn(t, p) : m <= k
<1>1. m \in LinksOn(t, p) /\ \A k \in LinksOn(t, p) : m <= k
  OBVIOUS
<1>2. Rewrite(t, p) = t[SubSeq(p, 1, m)].to \o SubSeq(p, m + 1, Len(p))
  BY DEF Rewrite
<1> HIDE DEF m
<1>3. m \in Nat /\ n \in Nat
  BY <1>1, LinksOnNat
<1>4. m <= n /\ n <= m
  BY <1>1
<1>5. m = n
  BY <1>3, <1>4
<1> QED  BY <1>2, <1>5

LEMMA RewriteType ==
  ASSUME NEW t, Closed(t), NEW p \in Targets
  PROVE  Rewrite(t, p) \in Targets
<1>1. CASE LinksOn(t, p) = {}
  BY <1>1 DEF Rewrite
<1>2. CASE LinksOn(t, p) # {}
  <2>1. PICK n \in LinksOn(t, p) : \A k \in LinksOn(t, p) : n <= k
    BY <1>2, LinksOnNat, LeastOfSet
  <2>2. n \in 1..(Len(p) - 1) /\ Len(p) \in Nat /\ SubSeq(p, 1, n) \in DOMAIN t
    BY LinksOnNat DEF LinksOn, LinkIn
  <2>3. t[SubSeq(p, 1, n)].to \in Targets
    BY <2>2 DEF Closed, Nodes
  <2>4. \A i \in (n + 1)..Len(p) : p[i] \in Names \union {Up}
    BY <2>2, ElementOfSeq DEF Targets
  <2>5. SubSeq(p, n + 1, Len(p)) \in Targets
    BY <2>2, <2>4, SubSeqProperties DEF Targets
  <2>6. Rewrite(t, p) = t[SubSeq(p, 1, n)].to \o SubSeq(p, n + 1, Len(p))
    BY <2>1, RewriteFirst
  <2> QED  BY <2>3, <2>5, <2>6, ConcatProperties DEF Targets
<1> QED  BY <1>1, <1>2

\* What is behind a path is still there when a link on it has been rewritten.
LEMMA RewriteBefore ==
  ASSUME NEW t, Closed(t), NEW p \in Targets, NEW s \in Targets, LinksOn(t, p) # {}
  PROVE  LinksOn(t, p \o s) # {} /\ Rewrite(t, p \o s) = Rewrite(t, p) \o s
<1>1. PICK n \in LinksOn(t, p) : \A k \in LinksOn(t, p) : n <= k
  BY LinksOnNat, LeastOfSet
<1>2. /\ Len(p) \in Nat /\ Len(s) \in Nat /\ Len(p \o s) = Len(p) + Len(s) /\ p \o s \in Targets
      /\ n \in 1..(Len(p) - 1) /\ LinkIn(t, SubSeq(p, 1, n))
  BY LinksOnNat, ConcatProperties DEF LinksOn, Targets
<1>3. \A k \in 0..Len(p) : SubSeq(p \o s, 1, k) = SubSeq(p, 1, k)
  BY PrefixOfConcat DEF Targets
<1>4. n \in LinksOn(t, p \o s)
  <2>1. n \in 0..Len(p) /\ n \in 1..(Len(p \o s) - 1)
    BY <1>2
  <2>2. LinkIn(t, SubSeq(p \o s, 1, n))
    BY <1>2, <1>3, <2>1
  <2> QED  BY <2>1, <2>2 DEF LinksOn
<1>5. ASSUME NEW k \in LinksOn(t, p \o s) PROVE n <= k
  <2>1. k \in 1..(Len(p) + Len(s) - 1) /\ LinkIn(t, SubSeq(p \o s, 1, k))
    BY <1>2 DEF LinksOn
  <2>2. CASE k <= Len(p) - 1
    <3>1. k \in 0..Len(p) /\ k \in 1..(Len(p) - 1)
      BY <1>2, <2>1, <2>2
    <3>2. k \in LinksOn(t, p)
      BY <1>3, <2>1, <3>1 DEF LinksOn
    <3> QED  BY <1>1, <3>2
  <2>3. CASE ~(k <= Len(p) - 1)
    BY <1>2, <2>1, <2>3
  <2> QED  BY <2>2, <2>3
<1> DEFINE to == t[SubSeq(p, 1, n)].to
           rest == SubSeq(p, n + 1, Len(p))
<1>6. Rewrite(t, p) = to \o rest
  BY <1>1, RewriteFirst
<1>7. Rewrite(t, p \o s) = to \o SubSeq(p \o s, n + 1, Len(p \o s))
  <2>1. n \in 0..Len(p)
    BY <1>2
  <2>2. SubSeq(p \o s, 1, n) = SubSeq(p, 1, n)
    BY <1>3, <2>1
  <2>3. p \o s \in Targets
    BY <1>2
  <2>4. Rewrite(t, p \o s) = t[SubSeq(p \o s, 1, n)].to \o SubSeq(p \o s, n + 1, Len(p \o s))
    BY <1>4, <1>5, <2>3, RewriteFirst
  <2> QED  BY <2>2, <2>4
<1>8. to \in Targets
  BY <1>2 DEF Closed, Nodes, LinkIn
<1>9. rest \in Targets
  <2>1. \A i \in (n + 1)..Len(p) : p[i] \in Names \union {Up}
    BY <1>2, ElementOfSeq DEF Targets
  <2> QED  BY <1>2, <2>1, SubSeqProperties DEF Targets
<1>10. SubSeq(p \o s, n + 1, Len(p \o s)) = rest \o s
  BY <1>2, RestOfConcat DEF Targets
<1> HIDE DEF to, rest
<1>11. (to \o rest) \o s = to \o (rest \o s)
  BY <1>8, <1>9, ConcatAssociative DEF Targets
<1> QED  BY <1>4, <1>6, <1>7, <1>10, <1>11

\* The rewritings of p, one after the other: the recursive function exists, as
\* its approximations up to any number do and agree.
LEMMA RewritingsStep ==
  ASSUME NEW t, NEW p
  PROVE  /\ Rewritings(t, p)[0] = p
         /\ \A n \in Nat : Rewritings(t, p)[n + 1] = Rewrite(t, Rewritings(t, p)[n])
<1> DEFINE Fits(g, n) == \A i \in 0..n : g[i] = IF i = 0 THEN p ELSE Rewrite(t, g[i - 1])
           S == {n \in Nat : \E g : Fits(g, n)}
<1>1. 0 \in S
  <2>1. Fits([i \in {0} |-> p], 0)
    OBVIOUS
  <2> QED  BY <2>1
<1>2. ASSUME NEW n \in Nat, n \in S PROVE n + 1 \in S
  <2>1. PICK g : Fits(g, n)
    BY <1>2
  <2> DEFINE h == [i \in 0..(n + 1) |-> IF i = n + 1 THEN Rewrite(t, g[n]) ELSE g[i]]
  <2>2. \A i \in 0..n : h[i] = g[i]
    OBVIOUS
  <2>3. h[n + 1] = Rewrite(t, g[n])
    OBVIOUS
  <2> HIDE DEF h
  <2>4. ASSUME NEW i \in 0..(n + 1) PROVE h[i] = IF i = 0 THEN p ELSE Rewrite(t, h[i - 1])
    <3>1. CASE i = n + 1
      <4>1. i # 0 /\ i - 1 = n /\ n \in 0..n
        BY <3>1
      <4> QED  BY <2>2, <2>3, <3>1, <4>1
    <3>2. CASE i \in 0..n
      <4>1. i # 0 => i - 1 \in 0..n
        BY <3>2
      <4>2. h[i] = g[i] /\ (i # 0 => h[i - 1] = g[i - 1])
        BY <2>2, <3>2, <4>1
      <4> QED  BY <2>1, <3>2, <4>2
    <3> QED  BY <3>1, <3>2
  <2>5. Fits(h, n + 1)
    BY <2>4
  <2> QED  BY <2>5
<1> HIDE DEF S
<1>3. \A n \in Nat : \E g : Fits(g, n)
  BY <1>1, <1>2, InductionOnSet DEF S
<1>4. ASSUME NEW g, NEW h, NEW m \in Nat, NEW n \in Nat, m <= n, Fits(g, m), Fits(h, n)
      PROVE  \A i \in 0..m : g[i] = h[i]
  <2> DEFINE Q == {i \in Nat : i <= m => g[i] = h[i]}
  <2>1. 0 \in Q
    BY <1>4
  <2>2. ASSUME NEW i \in Nat, i \in Q PROVE i + 1 \in Q
    <3> SUFFICES ASSUME i + 1 <= m PROVE g[i + 1] = h[i + 1]
      OBVIOUS
    <3>1. i + 1 \in 0..m /\ i + 1 \in 0..n /\ i + 1 # 0 /\ i + 1 - 1 = i /\ i <= m
      BY <1>4
    <3>2. g[i] = h[i]
      BY <2>2, <3>1
    <3>3. g[i + 1] = Rewrite(t, g[i]) /\ h[i + 1] = Rewrite(t, h[i])
      BY <1>4, <3>1
    <3> QED  BY <3>2, <3>3
  <2> HIDE DEF Q
  <2>3. \A i \in Nat : i \in Q
    BY <2>1, <2>2, InductionOnSet
  <2> QED  BY <2>3 DEF Q
<1> DEFINE g(n) == CHOOSE g : Fits(g, n)
           r == [n \in Nat |-> g(n)[n]]
<1>5. \A n \in Nat : Fits(g(n), n)
  BY <1>3
<1> HIDE DEF g
<1>6. r = [n \in Nat |-> IF n = 0 THEN p ELSE Rewrite(t, r[n - 1])]
  <2>1. ASSUME NEW n \in Nat PROVE r[n] = IF n = 0 THEN p ELSE Rewrite(t, r[n - 1])
    <3>1. CASE n = 0
      BY <1>5, <3>1
    <3>2. CASE n # 0
      <4>1. n - 1 \in Nat /\ n - 1 <= n /\ n - 1 \in 0..(n - 1) /\ n \in 0..n
        BY <3>2
      <4>2. g(n - 1)[n - 1] = g(n)[n - 1]
        BY <1>4, <1>5, <4>1
      <4>3. g(n)[n] = Rewrite(t, g(n)[n - 1])
        BY <1>5, <3>2, <4>1
      <4>4. r[n] = g(n)[n] /\ r[n - 1] = g(n - 1)[n - 1]
        BY <4>1
      <4> QED  BY <3>2, <4>2, <4>3, <4>4
    <3> QED  BY <3>1, <3>2
  <2>2. [n \in Nat |-> r[n]] = [n \in Nat |-> IF n = 0 THEN p ELSE Rewrite(t, r[n - 1])]
    BY <2>1
  <2> QED  BY <2>2
<1> DEFINE f == CHOOSE f : f = [n \in Nat |-> IF n = 0 THEN p ELSE Rewrite(t, f[n - 1])]
<1>7. f = [n \in Nat |-> IF n = 0 THEN p ELSE Rewrite(t, f[n - 1])]
  <2> HIDE DEF r
  <2> QED  BY <1>6
<1>8. Rewritings(t, p) = f
  BY DEF Rewritings
<1> HIDE DEF f
<1>9. \A n \in Nat : f[n + 1] = Rewrite(t, f[n])
  <2> TAKE n \in Nat
  <2>1. n + 1 \in Nat /\ n + 1 # 0 /\ n + 1 - 1 = n
    OBVIOUS
  <2>2. f[n + 1] = IF n + 1 = 0 THEN p ELSE Rewrite(t, f[n + 1 - 1])
    BY <1>7, <2>1
  <2> QED  BY <2>1, <2>2
<1>10. f[0] = p
  BY <1>7
<1> QED  BY <1>8, <1>9, <1>10

LEMMA RewritingsType ==
  ASSUME NEW t, Closed(t), NEW p \in Targets
  PROVE  \A n \in Nat : Rewritings(t, p)[n] \in Targets
<1> DEFINE S == {n \in Nat : Rewritings(t, p)[n] \in Targets}
<1>1. 0 \in S
  BY RewritingsStep
<1>2. ASSUME NEW n \in Nat, n \in S PROVE n + 1 \in S
  BY <1>2, RewritingsStep, RewriteType
<1> HIDE DEF S
<1>3. \A n \in Nat : n \in S
  BY <1>1, <1>2, InductionOnSet
<1> QED  BY <1>3 DEF S

\* The rewriting can be interrupted.
LEMMA RewritingsSum ==
  ASSUME NEW t, NEW p, NEW m \in Nat, NEW q, Rewritings(t, p)[m] = q
  PROVE  \A n \in Nat : Rewritings(t, p)[m + n] = Rewritings(t, q)[n]
<1> DEFINE S == {n \in Nat : Rewritings(t, p)[m + n] = Rewritings(t, q)[n]}
<1>1. 0 \in S
  BY RewritingsStep
<1>2. ASSUME NEW n \in Nat, n \in S PROVE n + 1 \in S
  <2>1. Rewritings(t, p)[m + n] = Rewritings(t, q)[n]
    BY <1>2
  <2>2. m + n \in Nat /\ m + (n + 1) = (m + n) + 1
    OBVIOUS
  <2>3. Rewritings(t, p)[(m + n) + 1] = Rewrite(t, Rewritings(t, p)[m + n])
    BY <2>2, RewritingsStep
  <2>4. Rewritings(t, q)[n + 1] = Rewrite(t, Rewritings(t, q)[n])
    BY RewritingsStep
  <2> QED  BY <2>1, <2>2, <2>3, <2>4
<1> HIDE DEF S
<1>3. \A n \in Nat : n \in S
  BY <1>1, <1>2, InductionOnSet
<1> QED  BY <1>3 DEF S

\* A path without links stays what it is.
LEMMA RewritingsEnd ==
  ASSUME NEW t, NEW p, LinksOn(t, p) = {}
  PROVE  \A n \in Nat : Rewritings(t, p)[n] = p
<1> DEFINE S == {n \in Nat : Rewritings(t, p)[n] = p}
<1>1. 0 \in S
  BY RewritingsStep
<1>2. ASSUME NEW n \in Nat, n \in S PROVE n + 1 \in S
  <2>1. Rewrite(t, p) = p
    BY DEF Rewrite
  <2> QED  BY <1>2, <2>1, RewritingsStep
<1> HIDE DEF S
<1>3. \A n \in Nat : n \in S
  BY <1>1, <1>2, InductionOnSet
<1> QED  BY <1>3 DEF S

\* A rewriting that has still a link after n steps has had one all the time.
LEMMA LinksBefore ==
  ASSUME NEW t, NEW p, NEW n \in Nat, LinksOn(t, Rewritings(t, p)[n]) # {},
         NEW m \in 0..n
  PROVE  LinksOn(t, Rewritings(t, p)[m]) # {}
<1> SUFFICES ASSUME LinksOn(t, Rewritings(t, p)[m]) = {} PROVE FALSE
  OBVIOUS
<1>1. m \in Nat /\ n - m \in Nat /\ m + (n - m) = n
  OBVIOUS
<1>2. Rewritings(t, p)[n] = Rewritings(t, Rewritings(t, p)[m])[n - m]
  <2>1. Rewritings(t, p)[m + (n - m)] = Rewritings(t, Rewritings(t, p)[m])[n - m]
    BY <1>1, RewritingsSum
  <2> QED  BY <1>1, <2>1
<1>3. Rewritings(t, Rewritings(t, p)[m])[n - m] = Rewritings(t, p)[m]
  BY <1>1, RewritingsEnd
<1> QED  BY <1>2, <1>3

\* What is behind a path is still there after as many rewritings as it has.
LEMMA RewritingsBefore ==
  ASSUME NEW t, Closed(t), NEW p \in Targets, NEW s \in Targets, NEW n \in Nat,
         \A m \in 0..(n - 1) : LinksOn(t, Rewritings(t, p)[m]) # {}
  PROVE  Rewritings(t, p \o s)[n] = Rewritings(t, p)[n] \o s
<1> DEFINE S == {k \in Nat : k <= n => Rewritings(t, p \o s)[k] = Rewritings(t, p)[k] \o s}
<1>1. 0 \in S
  BY RewritingsStep
<1>2. ASSUME NEW k \in Nat, k \in S PROVE k + 1 \in S
  <2> SUFFICES ASSUME k + 1 <= n PROVE Rewritings(t, p \o s)[k + 1] = Rewritings(t, p)[k + 1] \o s
    OBVIOUS
  <2> DEFINE q == Rewritings(t, p)[k]
  <2>1. Rewritings(t, p \o s)[k] = q \o s
    BY <1>2
  <2>2. k \in 0..(n - 1)
    OBVIOUS
  <2>3. q \in Targets /\ LinksOn(t, q) # {}
    BY <2>2, RewritingsType
  <2>4. Rewritings(t, p)[k + 1] = Rewrite(t, q)
    BY RewritingsStep
  <2>5. Rewritings(t, p \o s)[k + 1] = Rewrite(t, q \o s)
    <3> DEFINE w == p \o s
    <3> HIDE DEF w, q
    <3>1. Rewritings(t, w)[k + 1] = Rewrite(t, Rewritings(t, w)[k])
      BY RewritingsStep
    <3> QED  BY <2>1, <3>1 DEF w
  <2> HIDE DEF q
  <2>6. Rewrite(t, q \o s) = Rewrite(t, q) \o s
    BY <2>3, RewriteBefore
  <2> QED  BY <2>4, <2>5, <2>6
<1> HIDE DEF S
<1>3. \A k \in Nat : k \in S
  BY <1>1, <1>2, InductionOnSet
<1> QED  BY <1>3 DEF S

-----------------------------------------------------------------------------
(* What a rewriting comes to.                                              *)

\* The rewriting of p comes to q, and has links until then.
Reaches(t, p, q) == \E k \in Nat :
  /\ Rewritings(t, p)[k] = q
  /\ \A m \in 0..(k - 1) : LinksOn(t, Rewritings(t, p)[m]) # {}

LastsIn(t, p, n) == LinksOn(t, Rewritings(t, p)[n]) # {}

\* The rewriting of p ends at a path that is not in the tree.
Fails(t, p) == \E q \in Targets :
  /\ Reaches(t, p, q) /\ LinksOn(t, q) = {}
  /\ q \notin DOMAIN t /\ q # <<>>

LEMMA ReachesSelf ==
  ASSUME NEW t, NEW p
  PROVE  Reaches(t, p, p)
<1>1. Rewritings(t, p)[0] = p /\ 0..(0 - 1) = {}
  BY RewritingsStep
<1> QED  BY <1>1 DEF Reaches

LEMMA ReachesOne ==
  ASSUME NEW t, NEW p, LinksOn(t, p) # {}
  PROVE  Reaches(t, p, Rewrite(t, p))
<1>1. Rewritings(t, p)[0] = p /\ 0..(1 - 1) = {0} /\ 0 + 1 = 1
  BY RewritingsStep
<1>2. Rewritings(t, p)[1] = Rewrite(t, p)
  <2>1. Rewritings(t, p)[0 + 1] = Rewrite(t, Rewritings(t, p)[0])
    BY RewritingsStep
  <2> QED  BY <1>1, <2>1
<1> QED  BY <1>1, <1>2 DEF Reaches

LEMMA ReachesType ==
  ASSUME NEW t, Closed(t), NEW p \in Targets, NEW q, Reaches(t, p, q)
  PROVE  q \in Targets
<1> QED  BY RewritingsType DEF Reaches

LEMMA ReachesReaches ==
  ASSUME NEW t, NEW p, NEW q, NEW r, Reaches(t, p, q), Reaches(t, q, r)
  PROVE  Reaches(t, p, r)
<1>1. PICK k \in Nat : /\ Rewritings(t, p)[k] = q
                       /\ \A m \in 0..(k - 1) : LinksOn(t, Rewritings(t, p)[m]) # {}
  BY DEF Reaches
<1>2. PICK j \in Nat : /\ Rewritings(t, q)[j] = r
                       /\ \A m \in 0..(j - 1) : LinksOn(t, Rewritings(t, q)[m]) # {}
  BY DEF Reaches
<1>3. \A n \in Nat : Rewritings(t, p)[k + n] = Rewritings(t, q)[n]
  BY <1>1, RewritingsSum
<1>4. Rewritings(t, p)[k + j] = r /\ k + j \in Nat
  BY <1>2, <1>3
<1>5. ASSUME NEW m \in 0..(k + j - 1) PROVE LinksOn(t, Rewritings(t, p)[m]) # {}
  <2>1. CASE m <= k - 1
    BY <1>1, <2>1
  <2>2. CASE ~(m <= k - 1)
    <3>1. m - k \in 0..(j - 1) /\ m - k \in Nat /\ k + (m - k) = m
      BY <2>2
    <3>2. Rewritings(t, p)[k + (m - k)] = Rewritings(t, q)[m - k]
      BY <1>3, <3>1
    <3> QED  BY <1>2, <3>1, <3>2
  <2> QED  BY <2>1, <2>2
<1> DEFINE l == k + j
<1>6. l \in Nat /\ Rewritings(t, p)[l] = r
  BY <1>4
<1>7. \A m \in 0..(l - 1) : LinksOn(t, Rewritings(t, p)[m]) # {}
  BY <1>5
<1> HIDE DEF l
<1> QED  BY <1>6, <1>7 DEF Reaches

LEMMA ReachesBehind ==
  ASSUME NEW t, Closed(t), NEW p \in Targets, NEW q, NEW s \in Targets, Reaches(t, p, q)
  PROVE  Reaches(t, p \o s, q \o s)
<1>1. PICK k \in Nat : /\ Rewritings(t, p)[k] = q
                       /\ \A m \in 0..(k - 1) : LinksOn(t, Rewritings(t, p)[m]) # {}
  BY DEF Reaches
<1>2. ASSUME NEW n \in 0..k PROVE Rewritings(t, p \o s)[n] = Rewritings(t, p)[n] \o s
  <2>1. n \in Nat /\ \A m \in 0..(n - 1) : m \in 0..(k - 1)
    OBVIOUS
  <2>2. \A m \in 0..(n - 1) : LinksOn(t, Rewritings(t, p)[m]) # {}
    BY <1>1, <2>1
  <2> QED  BY <2>1, <2>2, RewritingsBefore
<1>3. ASSUME NEW m \in 0..(k - 1) PROVE LinksOn(t, Rewritings(t, p \o s)[m]) # {}
  <2>1. m \in Nat /\ m \in 0..k
    OBVIOUS
  <2> DEFINE w == Rewritings(t, p)[m]
  <2>2. w \in Targets /\ LinksOn(t, w) # {}
    BY <1>1, <2>1, RewritingsType
  <2>3. Rewritings(t, p \o s)[m] = w \o s
    BY <1>2, <2>1
  <2> HIDE DEF w
  <2>4. LinksOn(t, w \o s) # {}
    BY <2>2, RewriteBefore
  <2> QED  BY <2>3, <2>4
<1>4. Rewritings(t, p \o s)[k] = q \o s
  <2>1. k \in 0..k
    OBVIOUS
  <2>2. Rewritings(t, p \o s)[k] = Rewritings(t, p)[k] \o s
    BY <1>2, <2>1
  <2> QED  BY <1>1, <2>2
<1> QED  BY <1>3, <1>4 DEF Reaches

LEMMA LastsShorter ==
  ASSUME NEW t, NEW p, NEW n \in Nat, NEW m \in 0..n, LastsIn(t, p, n)
  PROVE  LastsIn(t, p, m)
<1> QED  BY LinksBefore DEF LastsIn

LEMMA ReachesLasts ==
  ASSUME NEW t, NEW p, NEW q, Reaches(t, p, q), NEW n \in Nat, LastsIn(t, q, n)
  PROVE  LastsIn(t, p, n)
<1>1. PICK k \in Nat : Rewritings(t, p)[k] = q
  BY DEF Reaches
<1>2. Rewritings(t, p)[k + n] = Rewritings(t, q)[n]
  BY <1>1, RewritingsSum
<1>3. LastsIn(t, p, k + n) /\ k + n \in Nat /\ n \in 0..(k + n)
  BY <1>2 DEF LastsIn
<1> QED  BY <1>3, LastsShorter

LEMMA ReachesFails ==
  ASSUME NEW t, NEW p, NEW q, Reaches(t, p, q), Fails(t, q)
  PROVE  Fails(t, p)
<1> QED  BY ReachesReaches DEF Fails

LEMMA ReachesEnd ==
  ASSUME NEW t, NEW p, NEW q, Reaches(t, p, q), LinksOn(t, q) = {}, NEW n \in Nat
  PROVE  Rewritings(t, p)[n] = q \/ LastsIn(t, p, n)
<1>1. PICK k \in Nat : /\ Rewritings(t, p)[k] = q
                       /\ \A m \in 0..(k - 1) : LinksOn(t, Rewritings(t, p)[m]) # {}
  BY DEF Reaches
<1>2. CASE n <= k - 1
  BY <1>1, <1>2 DEF LastsIn
<1>3. CASE ~(n <= k - 1)
  <2>1. n - k \in Nat /\ k + (n - k) = n
    BY <1>3
  <2>2. Rewritings(t, p)[k + (n - k)] = Rewritings(t, q)[n - k]
    BY <1>1, <2>1, RewritingsSum
  <2>3. Rewritings(t, q)[n - k] = q
    BY <2>1, RewritingsEnd
  <2> QED  BY <2>1, <2>2, <2>3
<1> QED  BY <1>2, <1>3

LEMMA LastsBehind ==
  ASSUME NEW t, Closed(t), NEW p \in Targets, NEW s \in Targets, NEW n \in Nat, LastsIn(t, p, n)
  PROVE  LastsIn(t, p \o s, n)
<1> DEFINE w == Rewritings(t, p)[n]
<1>1. \A m \in 0..(n - 1) : LinksOn(t, Rewritings(t, p)[m]) # {}
  <2>1. \A m \in 0..(n - 1) : m \in 0..n
    OBVIOUS
  <2> QED  BY <2>1, LinksBefore DEF LastsIn
<1>2. Rewritings(t, p \o s)[n] = w \o s
  BY <1>1, RewritingsBefore
<1>3. w \in Targets /\ LinksOn(t, w) # {}
  BY RewritingsType DEF LastsIn
<1> HIDE DEF w
<1>4. LinksOn(t, w \o s) # {}
  BY <1>3, RewriteBefore
<1> QED  BY <1>2, <1>4 DEF LastsIn

LEMMA FailsBehind ==
  ASSUME NEW t, Closed(t), NEW p \in Targets, NEW s \in Targets, Fails(t, p)
  PROVE  Fails(t, p \o s)
<1>1. CASE s = <<>>
  <2>1. p \o s = p
    BY <1>1, ConcatEmptySeq DEF Targets
  <2> QED  BY <2>1
<1>2. CASE s # <<>>
  <2>1. PICK q \in Targets : /\ Reaches(t, p, q) /\ LinksOn(t, q) = {}
                             /\ q \notin DOMAIN t /\ q # <<>>
    BY DEF Fails
  <2>2. Reaches(t, p \o s, q \o s)
    BY <2>1, ReachesBehind
  <2>3. /\ q \o s \in Targets /\ Len(q \o s) = Len(q) + Len(s)
        /\ Len(q) \in Nat \ {0} /\ Len(s) \in Nat \ {0}
    BY <1>2, <2>1, ConcatProperties, EmptySeq DEF Targets
  <2>4. q \o s \notin DOMAIN t
    BY <1>2, <2>1, NothingBelow
  <2>5. q \o s # <<>>
    BY <2>3
  <2>6. ASSUME NEW n \in LinksOn(t, q \o s) PROVE FALSE
    <3> DEFINE w == SubSeq(q \o s, 1, n)
    <3>1. n \in 1..(Len(q \o s) - 1) /\ LinkIn(t, w)
      BY DEF LinksOn
    <3>2. CASE n <= Len(q)
      <4>1. n \in 0..Len(q)
        BY <2>3, <3>1, <3>2
      <4>2. w = SubSeq(q, 1, n)
        BY <4>1, PrefixOfConcat DEF Targets
      <4>3. CASE n = Len(q)
        <5>1. w = q
          BY <4>2, <4>3, SubSeqFull DEF Targets
        <5> QED  BY <2>1, <3>1, <5>1 DEF LinkIn
      <4>4. CASE n # Len(q)
        <5>1. n \in 1..(Len(q) - 1)
          BY <2>3, <3>1, <4>1, <4>4
        <5>2. n \in LinksOn(t, q)
          BY <3>1, <4>2, <5>1 DEF LinksOn
        <5> QED  BY <2>1, <5>2
      <4> QED  BY <4>3, <4>4
    <3>3. CASE ~(n <= Len(q))
      <4>1. n \in 0..Len(q \o s) /\ Len(q) \in 0..n /\ Len(q) \in 1..(n - 1) /\ Len(q) \in 0..Len(q)
        BY <2>3, <3>1, <3>3
      <4>2. Len(w) = n /\ SubSeq(w, 1, Len(q)) = SubSeq(q \o s, 1, Len(q))
        BY <2>3, <4>1, PrefixIn, PrefixOfPrefix DEF Targets
      <4>3. SubSeq(q \o s, 1, Len(q)) = q
        BY <4>1, PrefixOfConcat, SubSeqFull DEF Targets
      <4> HIDE DEF w
      <4>4. w \in DOMAIN t /\ Len(q) \in 1..(Len(w) - 1)
        BY <3>1, <4>1, <4>2 DEF LinkIn
      <4>5. SubSeq(w, 1, Len(q)) \in DOMAIN t
        BY <4>4, PrefixDirs
      <4> QED  BY <2>1, <4>2, <4>3, <4>5
    <3> QED  BY <3>2, <3>3
  <2> QED  BY <2>2, <2>3, <2>4, <2>5, <2>6 DEF Fails
<1> QED  BY <1>1, <1>2

\* One step of the rewriting, where a lookup comes to a link with names behind it.
LEMMA LinkBehind ==
  ASSUME NEW t, Closed(t), NEW c \in DOMAIN t, LinkIn(t, c), NEW s \in Targets, s # <<>>
  PROVE  /\ LinksOn(t, c \o s) # {}
         /\ t[c].to \in Targets
         /\ Rewrite(t, c \o s) = t[c].to \o s
<1>1. /\ c \in Seq(Names) /\ c \in Targets /\ t[c].to \in Targets
      /\ Len(c) \in Nat \ {0} /\ Len(s) \in Nat \ {0}
  BY EmptySeq, PathIsTarget DEF Closed, FullPaths, Nodes, Targets
<1>2. Len(c \o s) = Len(c) + Len(s) /\ c \o s \in Targets
  BY <1>1, ConcatProperties DEF Targets
<1>3. \A n \in 0..Len(c) : SubSeq(c \o s, 1, n) = SubSeq(c, 1, n)
  BY <1>1, PrefixOfConcat DEF Targets
<1>4. SubSeq(c \o s, 1, Len(c)) = c
  <2>1. Len(c) \in 0..Len(c)
    BY <1>1
  <2>2. SubSeq(c, 1, Len(c)) = c
    BY <1>1, SubSeqFull
  <2> QED  BY <1>3, <2>1, <2>2
<1>5. Len(c) \in LinksOn(t, c \o s)
  <2>1. Len(c) \in 1..(Len(c \o s) - 1)
    BY <1>1, <1>2
  <2> QED  BY <1>4, <2>1 DEF LinksOn
<1>6. ASSUME NEW k \in LinksOn(t, c \o s) PROVE Len(c) <= k
  <2> SUFFICES ASSUME ~(Len(c) <= k) PROVE FALSE
    OBVIOUS
  <2>1. k \in 1..(Len(c \o s) - 1) /\ LinkIn(t, SubSeq(c \o s, 1, k))
    BY DEF LinksOn
  <2>2. k \in 1..(Len(c) - 1) /\ k \in 0..Len(c)
    BY <1>1, <1>2, <2>1
  <2>3. LinkIn(t, SubSeq(c, 1, k))
    BY <1>3, <2>1, <2>2
  <2> QED  BY <2>2, <2>3, PrefixDirs DEF LinkIn
<1>7. Rewrite(t, c \o s) = t[SubSeq(c \o s, 1, Len(c))].to \o SubSeq(c \o s, Len(c) + 1, Len(c \o s))
  BY <1>2, <1>5, <1>6, RewriteFirst
<1>8. SubSeq(c \o s, Len(c) + 1, Len(c \o s)) = s
  <2>1. Len(c) \in 0..Len(c)
    BY <1>1
  <2>2. SubSeq(c \o s, Len(c) + 1, Len(c \o s)) = SubSeq(c, Len(c) + 1, Len(c)) \o s
    BY <1>1, <2>1, RestOfConcat DEF Targets
  <2>3. SubSeq(c, Len(c) + 1, Len(c)) = <<>>
    BY <1>1, SubSeqEmpty
  <2>4. <<>> \o s = s
    BY ConcatEmptySeq DEF Targets
  <2> QED  BY <2>2, <2>3, <2>4
<1> QED  BY <1>1, <1>4, <1>5, <1>7, <1>8

LEMMA LinkReaches ==
  ASSUME NEW t, Closed(t), NEW c \in DOMAIN t, LinkIn(t, c), NEW s \in Targets, s # <<>>
  PROVE  /\ \A q : Reaches(t, t[c].to, q) => Reaches(t, c \o s, q \o s)
         /\ \A n \in Nat : LastsIn(t, t[c].to, n) => LastsIn(t, c \o s, n + 1)
         /\ Fails(t, t[c].to) => Fails(t, c \o s)
<1> DEFINE p == c \o s
           to == t[c].to
<1>1. to \in Targets /\ Rewrite(t, p) = to \o s /\ LinksOn(t, p) # {}
  BY LinkBehind
<1>2. Reaches(t, p, to \o s)
  BY <1>1, ReachesOne
<1> HIDE DEF p, to
<1>3. ASSUME NEW q, Reaches(t, to, q) PROVE Reaches(t, p, q \o s)
  <2>1. Reaches(t, to \o s, q \o s)
    BY <1>1, <1>3, ReachesBehind
  <2> QED  BY <1>2, <2>1, ReachesReaches
<1>4. ASSUME NEW n \in Nat, LastsIn(t, to, n) PROVE LastsIn(t, p, n + 1)
  <2>1. LastsIn(t, to \o s, n)
    BY <1>1, <1>4, LastsBehind
  <2>2. Rewritings(t, p)[0 + 1] = Rewrite(t, Rewritings(t, p)[0]) /\ Rewritings(t, p)[0] = p
    BY RewritingsStep
  <2>3. Rewritings(t, p)[1] = to \o s
    BY <1>1, <2>2
  <2>4. Rewritings(t, p)[1 + n] = Rewritings(t, to \o s)[n]
    <3> DEFINE q == to \o s
               m == 1
    <3>1. m \in Nat /\ Rewritings(t, p)[m] = q
      BY <2>3
    <3> HIDE DEF q, m
    <3>2. Rewritings(t, p)[m + n] = Rewritings(t, q)[n]
      BY <3>1, RewritingsSum
    <3> QED  BY <3>2 DEF q, m
  <2>5. 1 + n = n + 1
    OBVIOUS
  <2> QED  BY <2>1, <2>4, <2>5 DEF LastsIn
<1>5. Fails(t, to) => Fails(t, p)
  <2>1. Fails(t, to) => Fails(t, to \o s)
    BY <1>1, FailsBehind
  <2> QED  BY <1>2, <2>1, ReachesFails
<1> QED  BY <1>3, <1>4, <1>5 DEF p, to

\* Where a lookup finds no child, there is no node, and the rewriting has ended
\* unless the lookup is at a link.
LEMMA NoChild ==
  ASSUME NEW t, Closed(t), NEW c, c \in DOMAIN t \union {<<>>}, c \in Seq(Names),
         NEW s \in Targets, s # <<>>, Append(c, Head(s)) \notin DOMAIN t
  PROVE  /\ ~LinkIn(t, c) => LinksOn(t, c \o s) = {}
         /\ c \o s \notin DOMAIN t /\ c \o s \in Targets /\ c \o s # <<>>
<1> DEFINE p == c \o s
<1>1. c \in Targets /\ Len(c) \in Nat /\ Len(s) \in Nat \ {0}
  BY EmptySeq, LenProperties, PathIsTarget DEF Targets
<1>2. Len(p) = Len(c) + Len(s) /\ p \in Targets
      /\ \A i \in 1..(Len(c) + Len(s)) : p[i] = IF i <= Len(c) THEN c[i] ELSE s[i - Len(c)]
  BY <1>1, ConcatProperties DEF Targets
<1>3. p # <<>>
  BY <1>1, <1>2
<1>4. SubSeq(p, 1, Len(c) + 1) = Append(c, Head(s))
  <2> DEFINE a == SubSeq(p, 1, Len(c) + 1)
             b == Append(c, Head(s))
  <2>1. Len(c) + 1 \in 0..Len(p)
    BY <1>1, <1>2
  <2> HIDE DEF p
  <2>2. a \in Targets /\ Len(a) = Len(c) + 1 /\ \A i \in 1..(Len(c) + 1) : a[i] = p[i]
    BY <1>2, <2>1, PrefixIn DEF Targets
  <2>3. Head(s) \in Names \union {Up} /\ Head(s) = s[1]
    BY <1>1, HeadTailProperties DEF Targets
  <2>4. b \in Targets /\ Len(b) = Len(c) + 1 /\ \A i \in 1..Len(c) : b[i] = c[i]
        /\ b[Len(c) + 1] = Head(s)
    BY <1>1, <2>3, AppendProperties DEF Targets
  <2>5. ASSUME NEW i \in 1..(Len(c) + 1) PROVE a[i] = b[i]
    <3>1. i \in 1..(Len(c) + Len(s)) /\ i \in Nat
      BY <1>1
    <3>2. CASE i <= Len(c)
      <4>1. i \in 1..Len(c)
        BY <1>1, <3>2
      <4> QED  BY <1>2, <2>2, <2>4, <3>1, <3>2, <4>1
    <3>3. CASE ~(i <= Len(c))
      <4>1. i = Len(c) + 1 /\ i - Len(c) = 1
        BY <1>1, <3>3
      <4>2. p[i] = s[1]
        BY <1>2, <3>1, <3>3, <4>1
      <4> QED  BY <2>2, <2>3, <2>4, <4>1, <4>2
    <3> QED  BY <3>2, <3>3
  <2> HIDE DEF a, b
  <2>6. a = b
    BY <2>2, <2>4, <2>5, SeqEqual DEF Targets
  <2> QED  BY <2>6 DEF a, b
<1> HIDE DEF p
<1>5. ASSUME NEW n \in 1..Len(p), n > Len(c) PROVE SubSeq(p, 1, n) \notin DOMAIN t
  <2> DEFINE w == SubSeq(p, 1, n)
  <2>1. n \in 0..Len(p) /\ Len(c) + 1 \in 0..n
    BY <1>1, <1>2, <1>5
  <2>2. Len(w) = n /\ SubSeq(w, 1, Len(c) + 1) = SubSeq(p, 1, Len(c) + 1)
    BY <1>2, <2>1, PrefixIn, PrefixOfPrefix DEF Targets
  <2> HIDE DEF w
  <2> SUFFICES ASSUME w \in DOMAIN t PROVE FALSE
    BY DEF w
  <2>3. CASE n = Len(c) + 1
    BY <1>4, <2>3 DEF w
  <2>4. CASE n # Len(c) + 1
    <3>1. Len(c) + 1 \in 1..(Len(w) - 1)
      BY <1>1, <1>2, <2>1, <2>2, <2>4
    <3>2. SubSeq(w, 1, Len(c) + 1) \in DOMAIN t
      BY <3>1, PrefixDirs
    <3> QED  BY <1>4, <2>2, <3>2
  <2> QED  BY <2>3, <2>4
<1>6. p \notin DOMAIN t
  <2>1. Len(p) \in 1..Len(p) /\ Len(p) > Len(c)
    BY <1>1, <1>2
  <2>2. SubSeq(p, 1, Len(p)) = p
    BY <1>2, SubSeqFull DEF Targets
  <2> QED  BY <1>5, <2>1, <2>2
<1>7. ASSUME ~LinkIn(t, c), NEW n \in LinksOn(t, p) PROVE FALSE
  <2>1. n \in 1..Len(p) /\ LinkIn(t, SubSeq(p, 1, n))
    BY <1>1, <1>2 DEF LinksOn
  <2>2. CASE n > Len(c)
    BY <1>5, <2>1, <2>2 DEF LinkIn
  <2>3. CASE ~(n > Len(c))
    <3>1. n \in 0..Len(c) /\ Len(c) > 0 /\ c # <<>>
      BY <1>1, <1>2, <2>1, <2>3
    <3>2. SubSeq(p, 1, n) = SubSeq(c, 1, n)
      BY <1>1, <3>1, PrefixOfConcat DEF Targets, p
    <3>3. CASE n = Len(c)
      <4>1. SubSeq(c, 1, n) = c
        BY <3>3, SubSeqFull
      <4> QED  BY <1>7, <2>1, <3>2, <4>1
    <3>4. CASE n # Len(c)
      <4>1. n \in 1..(Len(c) - 1) /\ c \in DOMAIN t
        BY <1>1, <1>2, <2>1, <3>1, <3>4
      <4> QED  BY <2>1, <3>2, <4>1, PrefixDirs DEF LinkIn
    <3> QED  BY <3>3, <3>4
  <2> QED  BY <2>2, <2>3
<1> QED  BY <1>2, <1>3, <1>6, <1>7 DEF p

-----------------------------------------------------------------------------
(* The calls of a lookup that follows links.                               *)

\* What call i has to do: the path that was asked for, or the target of the
\* link the call before it is at.
From(t, g, calls, i) == IF i = 1 THEN g ELSE t[calls[i - 1].cwd].to

\* Call i has come to a rewriting of its path, and what the rewriting of that
\* path does, that of the whole one does, the links on the way counted.
Sound(t, g, calls, i) ==
  /\ Reaches(t, From(t, g, calls, i), calls[i].cwd \o calls[i].names)
  /\ \A n \in Nat : LastsIn(t, From(t, g, calls, i), n) => LastsIn(t, g, n + i - 1)
  /\ Fails(t, From(t, g, calls, i)) => Fails(t, g)

\* All calls but the innermost wait at a link, which has names behind it.
Waits(t, call) == call.via /\ LinkIn(t, call.cwd) /\ call.names # <<>>

Chain(t, g, calls) ==
  /\ \A i \in 1..Len(calls) : Sound(t, g, calls, i)
  /\ \A i \in 1..(Len(calls) - 1) : Waits(t, calls[i])
  /\ calls # <<>> => LET c == calls[Len(calls)] IN c.via => ~LinkIn(t, c.cwd)

LEMMA SoundKept ==
  ASSUME NEW t, NEW g, NEW old, NEW new, NEW i \in Nat \ {0}, Sound(t, g, old, i),
         i # 1 => new[i - 1].cwd = old[i - 1].cwd,
         new[i].cwd \o new[i].names = old[i].cwd \o old[i].names
  PROVE  Sound(t, g, new, i)
<1>1. From(t, g, new, i) = From(t, g, old, i)
  BY DEF From
<1> QED  BY <1>1 DEF Sound

LEMMA ChainAsk ==
  ASSUME NEW t, NEW g \in Targets, NEW new, Len(new) = 1,
         new[1].cwd = <<>>, new[1].names = g, ~new[1].via
  PROVE  Chain(t, g, new)
<1>1. <<>> \o g = g
  BY ConcatEmptySeq DEF Targets
<1>2. From(t, g, new, 1) = g
  BY DEF From
<1>3. Reaches(t, g, g)
  BY ReachesSelf
<1>4. \A n \in Nat : n + 1 - 1 = n
  OBVIOUS
<1>5. Sound(t, g, new, 1)
  BY <1>1, <1>2, <1>3, <1>4 DEF Sound
<1> QED  BY <1>5 DEF Chain

LEMMA ChainEnter ==
  ASSUME NEW t, NEW g, NEW old, NEW new, NEW n \in Nat \ {0}, Len(old) = n, Len(new) = n,
         Chain(t, g, old), \A k \in 1..(n - 1) : new[k] = old[k],
         new[n].cwd \o new[n].names = old[n].cwd \o old[n].names, ~new[n].via
  PROVE  Chain(t, g, new)
<1>1. ASSUME NEW i \in 1..n PROVE Sound(t, g, new, i)
  <2>1. Sound(t, g, old, i)
    BY DEF Chain
  <2>2. i \in Nat \ {0} /\ (i # n => i \in 1..(n - 1)) /\ (i # 1 => i - 1 \in 1..(n - 1))
    OBVIOUS
  <2> QED  BY <2>1, <2>2, SoundKept
<1>2. \A i \in 1..(n - 1) : Waits(t, new[i])
  BY DEF Chain
<1> QED  BY <1>1, <1>2 DEF Chain

LEMMA ChainFollow ==
  ASSUME NEW t, Closed(t), NEW g, NEW old, NEW new, NEW n \in Nat \ {0},
         Len(old) = n, Len(new) = n + 1,
         Chain(t, g, old), \A k \in 1..(n - 1) : new[k] = old[k],
         LinkIn(t, old[n].cwd), old[n].names \in Targets, old[n].names # <<>>,
         new[n].cwd = old[n].cwd, new[n].names = old[n].names, new[n].via,
         new[n + 1].cwd = <<>>, new[n + 1].names = t[old[n].cwd].to, ~new[n + 1].via
  PROVE  Chain(t, g, new)
<1> DEFINE c == old[n].cwd
           s == old[n].names
           to == t[c].to
           from == From(t, g, old, n)
<1>1. ASSUME NEW i \in 1..n PROVE Sound(t, g, new, i)
  <2>1. Sound(t, g, old, i)
    BY DEF Chain
  <2>2. i \in Nat \ {0} /\ (i # n => i \in 1..(n - 1)) /\ (i # 1 => i - 1 \in 1..(n - 1))
    OBVIOUS
  <2> QED  BY <2>1, <2>2, SoundKept
<1>2. c \in DOMAIN t /\ to \in Targets
  BY DEF LinkIn, Closed, Nodes
<1>3. From(t, g, new, n + 1) = to
  <2>1. n + 1 # 1 /\ n + 1 - 1 = n
    OBVIOUS
  <2> QED  BY <2>1 DEF From
<1>4. new[n + 1].cwd \o new[n + 1].names = to
  BY <1>2, ConcatEmptySeq DEF Targets
<1>5. /\ Reaches(t, from, c \o s)
      /\ \A m \in Nat : LastsIn(t, from, m) => LastsIn(t, g, m + n - 1)
      /\ Fails(t, from) => Fails(t, g)
  <2>1. Sound(t, g, old, n)
    BY DEF Chain
  <2> QED  BY <2>1 DEF Sound
<1>6. /\ \A m \in Nat : LastsIn(t, to, m) => LastsIn(t, c \o s, m + 1)
      /\ Fails(t, to) => Fails(t, c \o s)
  BY <1>2, LinkReaches
<1> HIDE DEF c, s, to, from
<1>7. ASSUME NEW m \in Nat, LastsIn(t, to, m) PROVE LastsIn(t, g, m + (n + 1) - 1)
  <2>1. LastsIn(t, c \o s, m + 1) /\ m + 1 \in Nat /\ (m + 1) + n - 1 = m + (n + 1) - 1
    BY <1>6, <1>7
  <2>2. LastsIn(t, from, m + 1)
    BY <1>5, <2>1, ReachesLasts
  <2>3. LastsIn(t, g, (m + 1) + n - 1)
    BY <1>5, <2>1, <2>2
  <2> QED  BY <2>1, <2>3
<1>8. Fails(t, to) => Fails(t, g)
  BY <1>5, <1>6, ReachesFails
<1>9. Sound(t, g, new, n + 1)
  BY <1>3, <1>4, <1>7, <1>8, ReachesSelf DEF Sound
<1>10. \A i \in 1..(n + 1) : Sound(t, g, new, i)
  <2>1. \A i \in 1..(n + 1) : i \in 1..n \/ i = n + 1
    OBVIOUS
  <2> QED  BY <1>1, <1>9, <2>1
<1>11. ASSUME NEW i \in 1..n PROVE Waits(t, new[i])
  <2>1. CASE i = n
    BY <2>1 DEF Waits
  <2>2. CASE i # n
    <3>1. i \in 1..(n - 1)
      BY <2>2
    <3> QED  BY <3>1 DEF Chain
  <2> QED  BY <2>1, <2>2
<1>12. n + 1 - 1 = n
  OBVIOUS
<1> QED  BY <1>10, <1>11, <1>12 DEF Chain

LEMMA ChainReturn ==
  ASSUME NEW t, Closed(t), NEW g, NEW old, NEW new, NEW n \in Nat \ {0},
         Len(old) = n + 1, Len(new) = n,
         Chain(t, g, old), \A k \in 1..(n - 1) : new[k] = old[k],
         old[n].names \in Targets, old[n + 1].cwd \in Targets, old[n + 1].names = <<>>,
         new[n].cwd = old[n + 1].cwd, new[n].names = old[n].names, ~LinkIn(t, new[n].cwd)
  PROVE  Chain(t, g, new)
<1> DEFINE c == old[n].cwd
           s == old[n].names
           to == t[c].to
           d == old[n + 1].cwd
           from == From(t, g, old, n)
<1>1. ASSUME NEW i \in 1..(n - 1) PROVE Sound(t, g, new, i)
  <2>1. Sound(t, g, old, i)
    BY DEF Chain
  <2>2. i \in Nat \ {0} /\ (i # 1 => i - 1 \in 1..(n - 1))
    OBVIOUS
  <2> QED  BY <2>1, <2>2, SoundKept
<1>2. c \in DOMAIN t /\ LinkIn(t, c) /\ s # <<>>
  <2>1. Waits(t, old[n])
    <3>1. n \in 1..(Len(old) - 1)
      OBVIOUS
    <3> QED  BY <3>1 DEF Chain
  <2> QED  BY <2>1 DEF Waits, LinkIn
<1>3. Reaches(t, to, d)
  <2>1. Sound(t, g, old, n + 1) /\ n + 1 # 1 /\ n + 1 - 1 = n
    BY DEF Chain
  <2>2. d \o <<>> = d
    BY ConcatEmptySeq DEF Targets
  <2> QED  BY <2>1, <2>2 DEF Sound, From
<1>4. /\ Reaches(t, from, c \o s)
      /\ \A m \in Nat : LastsIn(t, from, m) => LastsIn(t, g, m + n - 1)
      /\ Fails(t, from) => Fails(t, g)
  <2>1. Sound(t, g, old, n)
    BY DEF Chain
  <2> QED  BY <2>1 DEF Sound
<1>5. Reaches(t, c \o s, d \o s)
  BY <1>2, <1>3, LinkReaches
<1>6. From(t, g, new, n) = from
  <2>1. n # 1 => n - 1 \in 1..(n - 1)
    OBVIOUS
  <2> QED  BY <2>1 DEF From
<1>7. new[n].cwd \o new[n].names = d \o s
  OBVIOUS
<1> HIDE DEF c, s, to, d, from
<1>8. Reaches(t, from, d \o s)
  BY <1>4, <1>5, ReachesReaches
<1>9. Sound(t, g, new, n)
  BY <1>4, <1>6, <1>7, <1>8 DEF Sound
<1>10. \A i \in 1..n : Sound(t, g, new, i)
  <2>1. \A i \in 1..n : i \in 1..(n - 1) \/ i = n
    OBVIOUS
  <2> QED  BY <1>1, <1>9, <2>1
<1>11. \A i \in 1..(n - 1) : Waits(t, new[i])
  <2>1. \A i \in 1..(n - 1) : i \in 1..(Len(old) - 1)
    OBVIOUS
  <2> QED  BY <2>1 DEF Chain
<1> QED  BY <1>10, <1>11 DEF Chain

-----------------------------------------------------------------------------
(* Lookups and the reference for them.                                     *)

\* Before the image serves nothing has been asked for.
Idle == phase \in {"build", "load"} => goal = <<>> /\ ~follow

\* The calls of a lookup that follows links are at a rewriting of the path, or
\* the rewriting does not end.
Following ==
  phase = "serve" /\ follow /\ Plain => Lasts(goal, MaxRewrites) \/ Chain(tree, goal, stack)

\* One that does not follow links is one call.
Straight ==
  phase = "serve" /\ ~follow /\ stack # <<>> =>
    Len(stack) = 1 /\ stack[1].cwd \o stack[1].names = goal

\* What is added to IInv.
Lookup == Idle /\ Following /\ Straight /\ LookupsResolve /\ DownHasCause

LEMMA TreeClosed ==
  ASSUME Load
  PROVE  Closed(tree)
<1> SUFFICES ASSUME NEW p \in DOMAIN tree
             PROVE  /\ p \in FullPaths /\ tree[p] \in Nodes
                    /\ Len(p) > 1 => Front(p) \in DOMAIN tree /\ tree[Front(p)].kind = "dir"
  BY DEF Closed
<1>1. p \in FullPaths /\ tree[p] \in Nodes /\ IsDir(Front(p))
  BY DEF Load, IsTree
<1>2. Len(p) > 1 => Front(p) # <<>>
  <2>1. Len(Front(p)) = Len(p) - 1 /\ Len(p) \in Nat
    BY <1>1, FrontOf, FullLen
  <2>2. Len(<<>>) = 0
    BY EmptySeq
  <2> QED  BY <2>1, <2>2
<1> QED  BY <1>1, <1>2 DEF IsDir

\* The properties of a tree and a goal that stay are the same in the next state.
LEMMA SameLookup ==
  ASSUME tree' = tree, goal' = goal
  PROVE  /\ Plain' = Plain
         /\ \A n \in Nat : Lasts(goal, n)' = Lasts(goal, n)
         /\ Resolved(goal)' = Resolved(goal)
         /\ NodeAt(goal)' = NodeAt(goal) /\ NodeAt(Resolved(goal))' = NodeAt(Resolved(goal))
<1> QED  BY DEF Plain, IsLink, Lasts, Resolved, NodeAt

LEMMA GoalTarget ==
  ASSUME NEW p \in Goals
  PROVE  p \in Targets
<1>1. p \in Seq(Names)
  BY ImageAssumption DEF Goals
<1> QED  BY <1>1, PathIsTarget

\* The child and the names behind it are the path that was left.
LEMMA ChildBehind ==
  ASSUME NEW c \in Targets, NEW s \in Targets, s # <<>>
  PROVE  Append(c, Head(s)) \o Tail(s) = c \o s
<1> DEFINE A == Names \union {Up}
<1>1. c \in Seq(A) /\ s \in Seq(A) /\ Len(s) \in Nat \ {0}
  BY EmptySeq DEF Targets
<1> HIDE DEF A
<1>2. Head(s) \in A /\ Tail(s) \in Seq(A) /\ <<Head(s)>> \in Seq(A) /\ Head(s) = s[1]
  BY <1>1, HeadTailProperties
<1>3. Append(c, Head(s)) = c \o <<Head(s)>>
  BY <1>1, <1>2, AppendIsConcat
<1>4. <<Head(s)>> \o Tail(s) = s
  <2>1. 1 \in 1..Len(s) /\ Len(s) \in 1..Len(s)
    BY <1>1
  <2>2. SubSeq(s, 1, Len(s)) = <<s[1]>> \o SubSeq(s, 1 + 1, Len(s))
    BY <1>1, <2>1, SubSeqRecursiveFirst
  <2>3. SubSeq(s, 1, Len(s)) = s /\ Tail(s) = SubSeq(s, 2, Len(s)) /\ 1 + 1 = 2
    BY <1>1, SubSeqFull, TailIsSubSeq
  <2> QED  BY <1>2, <2>2, <2>3
<1>5. (c \o <<Head(s)>>) \o Tail(s) = c \o (<<Head(s)>> \o Tail(s))
  BY <1>1, <1>2, ConcatAssociative
<1> QED  BY <1>3, <1>4, <1>5

\* What the steps of a lookup start from.
LEMMA TopLookup ==
  ASSUME IInv, Lookup, phase = "serve", stack # <<>>
  PROVE  LET n == Len(stack) IN
         /\ n \in Nat \ {0} /\ Top = stack[n] /\ Top \in Calls
         /\ Top.cwd \in DOMAIN tree \union {<<>>}
         /\ Top.cwd \in Seq(Names) /\ Top.cwd \in Targets /\ Top.names \in Targets
         /\ Closed(tree) /\ goal \in Targets
         /\ follow /\ Plain /\ ~Lasts(goal, MaxRewrites) => Chain(tree, goal, stack)
<1>1. Load /\ Calling
  BY DEF IInv
<1>2. /\ Len(stack) \in Nat \ {0} /\ Top = stack[Len(stack)] /\ Top \in Calls
      /\ Top.cwd \in DOMAIN tree \union {<<>>}
  BY <1>1, TopCall
<1>3. Top.cwd \in Seq(Names) /\ Top.names \in Targets
  BY <1>2 DEF Calls
<1>4. Top.cwd \in Targets
  BY <1>3, PathIsTarget
<1>5. goal \in Targets
  BY <1>1, GoalTarget DEF Calling
<1> QED  BY <1>1, <1>2, <1>3, <1>4, <1>5, TreeClosed DEF Lookup, Following

\* A step of a lookup that goes on.
LEMMA GoesOn ==
  ASSUME Lookup, phase = "serve", phase' = "serve", tree' = tree, goal' = goal, follow' = follow,
         stack' # <<>>,
         follow /\ Plain /\ ~Lasts(goal, MaxRewrites) => Chain(tree, goal, stack'),
         ~follow => Len(stack') = 1 /\ stack'[1].cwd \o stack'[1].names = goal
  PROVE  Lookup'
<1>1. Plain' = Plain /\ Lasts(goal, MaxRewrites)' = Lasts(goal, MaxRewrites)
  BY SameLookup, ImageAssumption
<1>2. Chain(tree, goal, stack)' <=> Chain(tree, goal, stack')
  OBVIOUS
<1>3. Following'
  BY <1>1, <1>2 DEF Following
<1>4. Straight' /\ Idle' /\ LookupsResolve' /\ DownHasCause'
  BY DEF Straight, Idle, LookupsResolve, DownHasCause
<1> QED  BY <1>3, <1>4 DEF Lookup

\* A lookup that ends, with the node the reference has.
LEMMA Ends ==
  ASSUME phase' = "serve", tree' = tree, goal' = goal, follow' = follow, stack' = <<>>,
         follow /\ Plain /\ ~Lasts(goal, MaxRewrites) => result' = NodeAt(Resolved(goal)),
         ~follow => result' = NodeAt(goal)
  PROVE  Lookup'
<1>1. /\ Plain' = Plain /\ Lasts(goal, MaxRewrites)' = Lasts(goal, MaxRewrites)
      /\ NodeAt(goal)' = NodeAt(goal) /\ NodeAt(Resolved(goal))' = NodeAt(Resolved(goal))
  BY SameLookup, ImageAssumption
<1>2. LookupsResolve'
  BY <1>1 DEF LookupsResolve
<1>3. Len(stack') = 0 /\ 1..0 = {} /\ 1..(0 - 1) = {}
  BY EmptySeq
<1>4. Chain(tree, goal, stack)'
  BY <1>3 DEF Chain
<1>5. Following' /\ Straight' /\ Idle' /\ DownHasCause'
  BY <1>4 DEF Following, Straight, Idle, DownHasCause
<1> QED  BY <1>2, <1>5 DEF Lookup

LEMMA AskLookup ==
  ASSUME IInv, Lookup, NEW p \in Goals, NEW f \in BOOLEAN, Ask(p, f)
  PROVE  Lookup'
<1>1. /\ phase' = "serve" /\ goal' = p /\ follow' = f /\ stack' = <<Call(p)>> /\ p \in Targets
  BY GoalTarget DEF Ask
<1>2. /\ Len(stack') = 1 /\ stack'[1].cwd = <<>> /\ stack'[1].names = p /\ ~stack'[1].via
      /\ stack' # <<>>
  BY <1>1 DEF Call
<1>3. Chain(tree', p, stack')
  BY <1>1, <1>2, ChainAsk
<1>4. Chain(tree, goal, stack)'
  BY <1>1, <1>3
<1>5. stack'[1].cwd \o stack'[1].names = p
  BY <1>1, <1>2, ConcatEmptySeq DEF Targets
<1> QED  BY <1>1, <1>2, <1>4, <1>5 DEF Lookup, Following, Straight, Idle, LookupsResolve, DownHasCause

LEMMA EnterLookup ==
  ASSUME IInv, Lookup, Enter
  PROVE  Lookup'
<1> DEFINE n == Len(stack)
<1>1. /\ phase = "serve" /\ phase' = "serve" /\ stack # <<>> /\ Top.names # <<>>
      /\ UNCHANGED <<tree, goal, follow>>
  BY DEF Enter, Walking, loadVars
<1>2. /\ n \in Nat \ {0} /\ Top = stack[n]
      /\ Top.cwd \in Targets /\ Top.names \in Targets
      /\ follow /\ Plain /\ ~Lasts(goal, MaxRewrites) => Chain(tree, goal, stack)
  BY <1>1, TopLookup
<1>3. /\ Len(stack') = n /\ \A k \in 1..(n - 1) : stack'[k] = stack[k]
      /\ stack'[n] = [cwd |-> Child, names |-> Tail(Top.names), via |-> FALSE]
  BY EnterTo
<1>4. stack'[n].cwd \o stack'[n].names = stack[n].cwd \o stack[n].names
  <2>1. Child \o Tail(Top.names) = Top.cwd \o Top.names
    BY <1>1, <1>2, ChildBehind DEF Child
  <2>2. stack'[n].cwd = Child /\ stack'[n].names = Tail(Top.names)
    BY <1>3
  <2>3. stack[n].cwd = Top.cwd /\ stack[n].names = Top.names
    BY <1>2
  <2> QED  BY <2>1, <2>2, <2>3
<1>5. ASSUME Chain(tree, goal, stack) PROVE Chain(tree, goal, stack')
  <2>1. Len(stack) = n /\ ~stack'[n].via
    BY <1>3
  <2> HIDE DEF n
  <2> QED  BY <1>2, <1>3, <1>4, <1>5, <2>1, ChainEnter
<1>6. stack' # <<>>
  BY <1>2, <1>3, EmptySeq
<1>7. ~follow => Len(stack') = 1 /\ stack'[1].cwd \o stack'[1].names = goal
  BY <1>1, <1>3, <1>4 DEF Lookup, Straight
<1> QED  BY <1>1, <1>2, <1>5, <1>6, <1>7, GoesOn

LEMMA FollowLookup ==
  ASSUME IInv, Lookup, Follow
  PROVE  Lookup'
<1> DEFINE n == Len(stack)
<1>1. /\ phase = "serve" /\ phase' = "serve" /\ stack # <<>> /\ AtLink
      /\ UNCHANGED <<tree, goal, follow>>
  BY DEF Follow, Walking, loadVars
<1>2. /\ n \in Nat \ {0} /\ Top = stack[n] /\ Top \in Calls /\ Top.names \in Targets
      /\ Closed(tree)
      /\ follow /\ Plain /\ ~Lasts(goal, MaxRewrites) => Chain(tree, goal, stack)
  BY <1>1, TopLookup
<1>3. /\ Len(stack') = n + 1 /\ \A k \in 1..(n - 1) : stack'[k] = stack[k]
      /\ stack'[n] = [Top EXCEPT !.via = TRUE]
      /\ stack'[n + 1] = Call(NamesOf(tree[Top.cwd]))
  BY FollowTo
<1>4. LinkIn(tree, Top.cwd) /\ Top.names # <<>> /\ follow
  BY <1>1 DEF AtLink, IsLink
<1>5. ASSUME Plain, Chain(tree, goal, stack) PROVE Chain(tree, goal, stack')
  <2>1. NamesOf(tree[Top.cwd]) = tree[Top.cwd].to
    BY <1>4, <1>5 DEF Plain, IsLink, LinkIn, NamesOf
  <2>2. /\ stack'[n].cwd = Top.cwd /\ stack'[n].names = Top.names /\ stack'[n].via
        /\ stack'[n + 1].cwd = <<>> /\ stack'[n + 1].names = tree[Top.cwd].to /\ ~stack'[n + 1].via
    BY <1>2, <1>3, <2>1 DEF Call, Calls
  <2> QED  BY <1>2, <1>3, <1>4, <1>5, <2>2, ChainFollow
<1>6. stack' # <<>>
  <2>1. Len(stack') # 0
    BY <1>2, <1>3
  <2> QED  BY <2>1, EmptySeq
<1> QED  BY <1>1, <1>2, <1>4, <1>5, <1>6, GoesOn

\* The stack is full: each of its calls has taken a rewriting.
LEMMA OverflowLookup ==
  ASSUME IInv, Lookup, Overflow
  PROVE  Lookup'
<1> DEFINE n == Len(stack)
<1>1. /\ phase = "serve" /\ phase' = "down" /\ stack # <<>> /\ AtLink /\ n = MaxStack
      /\ UNCHANGED <<tree, goal, follow, stack>>
  BY DEF Overflow, Walking, loadVars
<1>2. /\ n \in Nat \ {0} /\ Top = stack[n] /\ Top.names \in Targets
      /\ Closed(tree)
      /\ follow /\ Plain /\ ~Lasts(goal, MaxRewrites) => Chain(tree, goal, stack)
  BY <1>1, TopLookup
<1>3. LinkIn(tree, Top.cwd) /\ Top.cwd \in DOMAIN tree /\ Top.names # <<>> /\ follow
  BY <1>1 DEF AtLink, IsLink, LinkIn
<1>4. n - 1 \in Nat /\ n - 1 \in 0..MaxRewrites /\ MaxRewrites \in Nat
  BY <1>1, <1>2, ImageAssumption
<1>5. ASSUME Plain PROVE Lasts(goal, n - 1)
  <2>1. CASE Lasts(goal, MaxRewrites)
    <3>1. LastsIn(tree, goal, MaxRewrites)
      BY <2>1 DEF Lasts, LastsIn
    <3>2. LastsIn(tree, goal, n - 1)
      BY <1>4, <3>1, LastsShorter
    <3> QED  BY <3>2 DEF Lasts, LastsIn
  <2>2. CASE ~Lasts(goal, MaxRewrites)
    <3> DEFINE p == Top.cwd \o Top.names
               from == From(tree, goal, stack, n)
    <3>1. Sound(tree, goal, stack, n)
      <4>1. Chain(tree, goal, stack) /\ n \in 1..Len(stack)
        BY <1>2, <1>3, <1>5, <2>2
      <4> QED  BY <4>1 DEF Chain
    <3>2. Reaches(tree, from, p) /\ \A m \in Nat : LastsIn(tree, from, m) => LastsIn(tree, goal, m + n - 1)
      BY <1>2, <3>1 DEF Sound
    <3>3. LinksOn(tree, p) # {}
      BY <1>2, <1>3, LinkBehind
    <3>4. Rewritings(tree, p)[0] = p
      BY RewritingsStep
    <3> HIDE DEF p, from
    <3>5. LastsIn(tree, p, 0)
      BY <3>3, <3>4 DEF LastsIn
    <3>6. LastsIn(tree, from, 0)
      BY <3>2, <3>5, ReachesLasts
    <3>7. LastsIn(tree, goal, 0 + n - 1) /\ 0 + n - 1 = n - 1
      BY <1>2, <3>2, <3>6
    <3> QED  BY <3>7 DEF Lasts, LastsIn
  <2> QED  BY <2>1, <2>2
<1>6. Plain' = Plain /\ Lasts(goal, n - 1)' = Lasts(goal, n - 1)
  BY <1>1, <1>4 DEF Plain, IsLink, Resolved, Lasts
<1>7. DownHasCause'
  BY <1>1, <1>5, <1>6 DEF DownHasCause
<1> QED  BY <1>1, <1>7 DEF Lookup, Following, Straight, Idle, LookupsResolve

LEMMA NotExistLookup ==
  ASSUME IInv, Lookup, NotExist
  PROVE  Lookup'
<1> DEFINE n == Len(stack)
           p == Top.cwd \o Top.names
<1>1. /\ phase = "serve" /\ phase' = "serve" /\ stack # <<>> /\ Top.names # <<>> /\ ~AtLink
      /\ Append(Top.cwd, Head(Top.names)) \notin DOMAIN tree
      /\ stack' = <<>> /\ result' = NoNode /\ UNCHANGED <<tree, goal, follow>>
  BY DEF NotExist, Walking, loadVars, Child
<1>2. /\ n \in Nat \ {0} /\ Top = stack[n] /\ Top.names \in Targets
      /\ Top.cwd \in DOMAIN tree \union {<<>>} /\ Top.cwd \in Seq(Names)
      /\ Closed(tree) /\ goal \in Targets
      /\ follow /\ Plain /\ ~Lasts(goal, MaxRewrites) => Chain(tree, goal, stack)
  BY <1>1, TopLookup
<1>3. /\ ~LinkIn(tree, Top.cwd) => LinksOn(tree, p) = {}
      /\ p \notin DOMAIN tree /\ p \in Targets /\ p # <<>>
  BY <1>1, <1>2, NoChild
<1>4. ASSUME follow, Plain, ~Lasts(goal, MaxRewrites) PROVE NodeAt(Resolved(goal)) = NoNode
  <2>1. Chain(tree, goal, stack)
    BY <1>2, <1>4
  <2>2. ~LinkIn(tree, Top.cwd)
    <3>1. Top.via => ~LinkIn(tree, Top.cwd)
      BY <1>1, <1>2, <2>1 DEF Chain
    <3> QED  BY <1>1, <1>4, <3>1 DEF AtLink, IsLink
  <2>3. Sound(tree, goal, stack, n)
    BY <1>2, <2>1 DEF Chain
  <2>4. Reaches(tree, From(tree, goal, stack, n), p)
        /\ (Fails(tree, From(tree, goal, stack, n)) => Fails(tree, goal))
    BY <1>2, <2>3 DEF Sound
  <2> HIDE DEF p
  <2>5. Fails(tree, goal)
    BY <1>3, <2>2, <2>4 DEF Fails
  <2>6. PICK q \in Targets : /\ Reaches(tree, goal, q) /\ LinksOn(tree, q) = {}
                             /\ q \notin DOMAIN tree /\ q # <<>>
    BY <2>5 DEF Fails
  <2>7. Rewritings(tree, goal)[MaxRewrites] = q
    <3>1. ~LastsIn(tree, goal, MaxRewrites)
      BY <1>4 DEF Lasts, LastsIn
    <3> QED  BY <2>6, <3>1, ReachesEnd, ImageAssumption
  <2> QED  BY <2>6, <2>7 DEF Resolved, NodeAt
<1>5. ASSUME ~follow PROVE NodeAt(goal) = NoNode
  <2>1. goal = p
    BY <1>1, <1>2, <1>5 DEF Lookup, Straight
  <2> HIDE DEF p
  <2> QED  BY <1>3, <2>1 DEF NodeAt
<1> QED  BY <1>1, <1>4, <1>5, Ends

LEMMA ReturnLookup ==
  ASSUME IInv, Lookup, Return
  PROVE  Lookup'
<1> DEFINE top == Len(stack)
<1>1. /\ phase = "serve" /\ phase' = "serve" /\ stack # <<>> /\ Top.names = <<>>
      /\ UNCHANGED <<tree, goal, follow>>
  BY DEF Return, Walking, loadVars
<1>2. /\ top \in Nat \ {0} /\ Top = stack[top] /\ Top \in Calls
      /\ Top.cwd \in DOMAIN tree \union {<<>>} /\ Top.cwd \in Targets
      /\ Closed(tree) /\ goal \in Targets
      /\ follow /\ Plain /\ ~Lasts(goal, MaxRewrites) => Chain(tree, goal, stack)
  BY <1>1, TopLookup
<1>3. LinksOn(tree, Top.cwd) = {} /\ Top.cwd \o Top.names = Top.cwd
  BY <1>1, <1>2, NodeHasNoLinks, ConcatEmptySeq DEF Targets
<1>4. Chain(tree, goal, stack) => Reaches(tree, From(tree, goal, stack, top), Top.cwd)
  <2>1. Chain(tree, goal, stack) => Sound(tree, goal, stack, top)
    BY <1>2 DEF Chain
  <2> QED  BY <1>2, <1>3, <2>1 DEF Sound
<1>5. CASE top = 1
  <2>1. stack' = <<>> /\ result' = Top.cwd
    BY <1>5 DEF Return
  <2>2. ASSUME follow, Plain, ~Lasts(goal, MaxRewrites) PROVE Top.cwd = NodeAt(Resolved(goal))
    <3>1. Reaches(tree, goal, Top.cwd)
      BY <1>2, <1>4, <1>5, <2>2 DEF From
    <3>2. ~LastsIn(tree, goal, MaxRewrites)
      BY <2>2 DEF Lasts, LastsIn
    <3>3. Resolved(goal) = Top.cwd
      BY <1>3, <3>1, <3>2, ReachesEnd, ImageAssumption DEF Resolved
    <3> QED  BY <1>2, <3>3 DEF NodeAt
  <2>3. ASSUME ~follow PROVE Top.cwd = NodeAt(goal)
    <3>1. Top.cwd = goal
      BY <1>1, <1>2, <1>3, <1>5, <2>3 DEF Lookup, Straight
    <3> QED  BY <1>2, <3>1 DEF NodeAt
  <2> QED  BY <1>1, <2>1, <2>2, <2>3, Ends
<1>6. CASE top # 1
  <2> DEFINE n == top - 1
  <2>1. /\ n \in Nat \ {0} /\ Len(stack') = n
        /\ \A k \in 1..(n - 1) : stack'[k] = stack[k]
        /\ stack'[n] = [stack[n] EXCEPT !.cwd = Top.cwd]
        /\ stack[n] \in Calls
    BY <1>6, ReturnTo
  <2>2. stack'[n].cwd = Top.cwd /\ stack'[n].names = stack[n].names /\ stack[n].names \in Targets
    BY <2>1 DEF Calls
  <2>3. follow
    BY <1>1, <1>6 DEF Lookup, Straight
  <2>4. top = n + 1 /\ n \in 1..(Len(stack) - 1)
    BY <1>2, <2>1
  <2>5. ASSUME Plain, ~Lasts(goal, MaxRewrites) PROVE Chain(tree, goal, stack')
    <3> DEFINE to == tree[stack[n].cwd].to
    <3>1. Chain(tree, goal, stack)
      BY <1>2, <2>3, <2>5
    <3>2. LinkIn(tree, stack[n].cwd)
      BY <2>4, <3>1 DEF Chain, Waits
    <3>3. From(tree, goal, stack, top) = to
      BY <1>6, <2>1 DEF From
    <3>4. ~LastsIn(tree, to, MaxRewrites)
      <4> SUFFICES ASSUME LastsIn(tree, to, MaxRewrites) PROVE FALSE
        OBVIOUS
      <4>1. MaxRewrites \in Nat /\ MaxRewrites + top - 1 \in Nat
            /\ MaxRewrites \in 0..(MaxRewrites + top - 1)
        BY <1>2, ImageAssumption
      <4>2. Sound(tree, goal, stack, top)
        BY <1>2, <3>1 DEF Chain
      <4>3. LastsIn(tree, goal, MaxRewrites + top - 1)
        BY <3>3, <4>1, <4>2 DEF Sound
      <4>4. LastsIn(tree, goal, MaxRewrites)
        BY <4>1, <4>3, LastsShorter
      <4> QED  BY <2>5, <4>4 DEF Lasts, LastsIn
    <3>5. Resolved(to) = Top.cwd
      <4>1. Reaches(tree, to, Top.cwd)
        BY <1>4, <3>1, <3>3
      <4> QED  BY <1>3, <3>4, <4>1, ReachesEnd, ImageAssumption DEF Resolved
    <3>6. ~LinkIn(tree, Top.cwd)
      BY <2>5, <3>2, <3>5 DEF Plain, IsLink, LinkIn
    <3> HIDE DEF n, to
    <3> QED  BY <1>1, <1>2, <2>1, <2>2, <2>4, <3>1, <3>6, ChainReturn
  <2>6. stack' # <<>>
    BY <2>1, EmptySeq
  <2> QED  BY <1>1, <2>3, <2>5, <2>6, GoesOn
<1> QED  BY <1>5, <1>6

\* Until the image is there, no lookup is made.
LEMMA BuildLookup ==
  ASSUME IInv, Lookup, IInv', phase \in {"build", "load"}, UNCHANGED callVars
  PROVE  Lookup'
<1>1. /\ stack = <<>> /\ result = <<>> /\ goal = <<>> /\ ~follow
      /\ UNCHANGED <<goal, follow, stack, result>>
  BY DEF IInv, Calling, Lookup, Idle, callVars
<1>2. NodeAt(goal)' = <<>>
  BY <1>1 DEF NodeAt
<1>3. LookupsResolve'
  BY <1>1, <1>2 DEF LookupsResolve
<1>4. DownHasCause'
  BY <1>1 DEF IInv, Cause, DownHasCause
<1> QED  BY <1>1, <1>3, <1>4 DEF Lookup, Idle, Following, Straight

LEMMA LookupHolds == Spec => []Lookup
<1>1. Init => Lookup
  BY DEF Init, Lookup, Idle, Following, Straight, LookupsResolve, DownHasCause
<1>2. IInv /\ Lookup /\ [Next]_vars /\ IInv' => Lookup'
  <2> SUFFICES ASSUME IInv, Lookup, [Next]_vars, IInv' PROVE Lookup'
    OBVIOUS
  <2>1. ASSUME NEW p \in todo, SkipEntry(p) \/ LeaveOut(p) \/ WriteEntry(p) PROVE Lookup'
    BY <2>1, BuildLookup DEF SkipEntry, LeaveOut, WriteEntry, Visit
  <2>2. CASE StartUp
    BY <2>2, BuildLookup DEF StartUp
  <2>3. CASE Put \/ Drop \/ PanicBelowFile \/ Serve
    BY <2>3, BuildLookup DEF Put, Drop, PanicBelowFile, Serve, CreateNode
  <2>4. ASSUME NEW p \in Goals, NEW f \in BOOLEAN, Ask(p, f) PROVE Lookup'
    BY <2>4, AskLookup
  <2>5. CASE FetchNode
    BY <2>5, FollowLookup, OverflowLookup, EnterLookup, NotExistLookup, ReturnLookup DEF FetchNode
  <2>6. CASE UNCHANGED vars
    <3>1. UNCHANGED <<phase, archive, tree, goal, follow, stack, result>>
      BY <2>6 DEF vars, buildVars, loadVars, callVars
    <3>2. Following' = Following /\ LookupsResolve' = LookupsResolve /\ DownHasCause' = DownHasCause
      BY <3>1 DEF Following, LookupsResolve, DownHasCause, Plain, IsLink, Lasts, Resolved, NodeAt
    <3> QED  BY <3>1, <3>2 DEF Lookup, Idle, Straight
  <2> QED  BY <2>1, <2>2, <2>3, <2>4, <2>5, <2>6 DEF Next
<1> QED  BY <1>1, <1>2, IInvHolds, PTL DEF Spec

\* A lookup that follows links finds the node that rewriting its path finds, if
\* that comes to its end, for any image whose links are absolute and lead to no
\* links; one that does not finds the node at its path, for any image.
THEOREM LookupsFindTheNode == Spec => []LookupsResolve
<1> QED  BY LookupHolds, PTL DEF Lookup

\* The process goes down for two reasons only: an archive with an entry below a
\* file or a link, and a path that takes as many rewritings as the stack has room
\* for, whatever that room is.
THEOREM DownForTwoReasons == Spec => []DownHasCause
<1> QED  BY LookupHolds, PTL DEF Lookup
=============================================================================
