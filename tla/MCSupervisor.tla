----------------------------- MODULE MCSupervisor -----------------------------
(* A small instance of Supervisor: a table of MaxJobs slots, one identifier   *)
(* more than slots so that the table can overflow and identifiers are reused, *)
(* as many backups outside the source, and one inside it.                     *)
EXTENDS Supervisor, TLC

CONSTANTS s1, d1, d2, d3, d4, p1, p2, p3

MCDst == {d1, d2, d3, d4}
MCInside == {<<s1, d4>>}
MCPid == {p1, p2, p3}

Symmetry == Permutations(MCPid) \cup Permutations({d1, d2, d3})

\* For liveness (no symmetry): two children, one source and two backups.
LiveDst == {d1, d2}
LivePid == {p1, p2}
=============================================================================
