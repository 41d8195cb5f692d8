----------------------------- MODULE MCStartup ------------------------------
(* Values of the constants of Startup for TLC.                             *)
EXTENDS Startup, TLC

\* Who connects.
MCClients == Workers \cup Tools

\* A new database, one made by version 2 or 5, and one made by version 7 that
\* version 8 upgraded.  A database of version 1 comes about when the creation
\* of a new one is interrupted.
MCHistories == {{0}, {2}, {5}, {7, 8}}

\* Neither workers nor pids are told apart.
MCSymmetry == Permutations(Workers) \cup Permutations(Pids)
=============================================================================
