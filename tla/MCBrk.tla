------------------------------- MODULE MCBrk --------------------------------
(* Brk for TLC.                                                            *)
EXTENDS Brk, TLC

\* The sets of flags of a call.
AllFlags == {{}, {BRK_CONTIGUOUS}, {BRK_SUPERPAGE}}

\* Heaps of four pages can be a superpage.
HeapBound == [kernel |-> 0, pages |-> 3, bytes |-> 3, any |-> 4]

\* The calls of the first two are not counted.
CallBound == [kernel |-> 1, pages |-> 1, bytes |-> 6, any |-> 5]

ProcSymmetry == Permutations(Proc)
=============================================================================
