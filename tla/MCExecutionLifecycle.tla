------------------------ MODULE MCExecutionLifecycle ------------------------
(* A backend that says an interim and a final message and completes, one that *)
(* gives both at once (Claude), and one that says nothing.                     *)
EXTENDS ExecutionLifecycle

CONSTANTS interim, final

Says(m) == [message |-> m, complete |-> FALSE]
Completes == [message |-> NoMessage, complete |-> TRUE]
SaysAndCompletes(m) == [message |-> m, complete |-> TRUE]

MCScripts ==
    { <<Says(interim), Says(final), Completes>>, <<SaysAndCompletes(final)>>, <<>> }
=============================================================================
