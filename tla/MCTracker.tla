----------------------------- MODULE MCTracker -----------------------------
(* Small instances of Tracker. *)
EXTENDS Tracker, TLC

CONSTANTS i1, i2, p1, p2, t1, t2, t3

MCInode == {i1, i2}
MCPid   == {p1, p2}
MCTuple == {t1, t2, t3}

\* Processes are interchangeable, and so are inodes;
\* t1 is a TCP tuple, the others are UDP.
Symmetry == Permutations(MCInode) \cup Permutations(MCPid)
=============================================================================
