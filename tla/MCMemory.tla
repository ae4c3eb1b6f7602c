----------------------------- MODULE MCMemory ------------------------------
(* Memory for TLC.                                                         *)
EXTENDS Memory

\* A program of one page.
OnePage == << <<1, 1>> >>
=============================================================================
