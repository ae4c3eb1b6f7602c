----------------------------- MODULE MCSysFile -----------------------------
(* SysFile for TLC.                                                        *)
EXTENDS SysFile, TLC

Absolute(elems) == [abs |-> TRUE, elems |-> elems]
Relative(elems) == [abs |-> FALSE, elems |-> elems]

\* Two names in the root and one a level down.
LinkPaths == {Absolute(<<"a">>), Absolute(<<"b">>), Absolute(<<"a", "b">>)}

\* The root, from the root, from the current directory, and "..".
DirPaths == {Absolute(<<>>), Absolute(<<"a">>), Relative(<<"b">>), Relative(<<"..">>)}

Files == [Calls |-> {"create", "mkdir", "close", "unlink", "link"},
          Path |-> LinkPaths, NINODE |-> 3]
Dirs == [Calls |-> {"mkdir", "unlink", "chdir"}, Path |-> DirPaths, NINODE |-> 3]
SmallCache == [Calls |-> {"mkdir", "create", "open", "close", "unlink"},
               Path |-> LinkPaths, NINODE |-> 2]
Workloads == {Files, Dirs, SmallCache}

ProcSymmetry == Permutations(Proc)
=============================================================================
