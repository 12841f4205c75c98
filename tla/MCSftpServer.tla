---------------------------- MODULE MCSftpServer ----------------------------
(* Instances of SftpServer for TLC.                                        *)
EXTENDS SftpServer, TLC

CONSTANTS s1, s2, file, img, sub

OneSession  == {s1}
TwoSessions == {s1, s2}
OneFile     == {file}
OneImage    == {img}
OneDir      == {sub}
AppendOnly  == {"append"}
NoAppend    == Modes \ {"append"}
Lens12      == {1, 2}

\* Nothing tells two sessions apart.
SessionSymmetry == Permutations(Sessions)
=============================================================================
