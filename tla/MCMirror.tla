------------------------------- MODULE MCMirror -------------------------------
(* A small instance of Mirror: two directories, two files and two names.      *)
EXTENDS Mirror, TLC

CONSTANTS x1, x2, d1, d2, f1, f2

MCName == {x1, x2}
MCDirNode == {d1, d2}
MCFileNode == {f1, f2}

Symmetry == Permutations(MCName) \cup Permutations(MCDirNode) \cup Permutations(MCFileNode)

\* The user renames only when the child has caught up, but creates, writes and
\* deletes while events are pending; nothing leaves the source, and nothing
\* changes while the child is between copying a directory and watching it.
PatientRenames ==
    ({"idle"} \X {"create", "write", "delete", "rename"})
    \cup ({"pending"} \X {"create", "write", "delete"})

\* The user waits for the child every time, but also moves directories out of
\* the source and back.
PatientMoves == {"idle"} \X {"create", "write", "delete", "rename", "moveout"}
=============================================================================
