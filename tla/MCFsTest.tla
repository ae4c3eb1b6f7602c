------------------------------ MODULE MCFsTest ------------------------------
(* FsTest for TLC.                                                         *)
EXTENDS FsTest

F(name, len) == [name |-> name, len |-> len]

\* An empty image; a file of every length; two files around the ends of the
\* direct blocks; so many files that the entries of the root end inside, at the
\* end of and beyond its first and second block; a name as long as an entry; a
\* file that is too long.
Lists ==
  {<<>>} \cup {<<F("README", n)>> : n \in 0 .. 12}
  \cup {<<F("README", m), F("_rm", n)>> : m \in {0, 7, 8}, n \in {1, 9}}
  \cup {[i \in 1 .. n |-> F("f" \o ToString(i), i % 2)] : n \in 2 .. 6}
  \cup {<<F("_12345678901234", 2)>>, <<F("README", 25)>>}
=============================================================================
