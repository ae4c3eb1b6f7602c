----------------------------- MODULE MCFileIO ------------------------------
(* FileIO for TLC.                                                         *)
EXTENDS FileIO, TLC

CONSTANTS p1, p2

\* Without contents, and with contents that tell the processes apart.
NoByte == [p \in {p1, p2} |-> Zero]
OwnByte == (p1 :> 1) @@ (p2 :> 2)

\* Two files with transfers of more than a block, and one file with transfers
\* that are not aligned to blocks.
Transfers == {[files |-> {1, 2}, lens |-> {6}], [files |-> {1}, lens |-> {1, 4}]}
TwoFiles == {[files |-> {1, 2}, lens |-> {1, 3}]}

ProcSymmetry == Permutations({p1, p2})
=============================================================================
