---------------------------- MODULE MCLogCleanup ----------------------------
(* Two runs of the dispatcher that may overlap, and two PIDs. *)
EXTENDS LogCleanup, TLC

CONSTANTS d1, d2, p1, p2

MCDispatcher == {d1, d2}
MCPid == {p1, p2}

\* The log of one earlier run that crashed; task logs are left behind by the runs.
MCLeftovers == { {<<p, "main">>} : p \in MCPid }

Alike == Permutations(MCDispatcher) \cup Permutations(MCPid)
=============================================================================
