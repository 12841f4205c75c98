------------------------------- MODULE Paths -------------------------------
(***************************************************************************)
(* Paths as sequences of names, the names numbered in the order of the     *)
(* walks over a tree (afero.Walk, filepath.Walk), and the test             *)
(* strings.HasPrefix on the text of two paths.                             *)
(***************************************************************************)
EXTENDS Integers, Sequences, SequencesExt

CONSTANT Prefixed   \* pairs of names of which the first begins the second

\* A directory comes before what is in it, and siblings by name.
Before(p, q) == \E i \in 1..Len(q) :
  /\ \A j \in 1..(i - 1) : j <= Len(p) /\ p[j] = q[j]
  /\ i <= Len(p) => p[i] < q[i]

Walk(paths) == SetToSortSeq(paths, Before)

Below(p, d) == Len(d) < Len(p) /\ IsPrefix(d, p)

\* The text of p begins with the text of d: also that of a sibling of d.
TextPrefix(p, d) ==
  /\ Len(d) <= Len(p)
  /\ \A i \in 1..(Len(d) - 1) : p[i] = d[i]
  /\ d = <<>> \/ p[Len(d)] = Last(d) \/ <<Last(d), p[Len(d)]>> \in Prefixed
=============================================================================
