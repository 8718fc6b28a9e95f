------------------------- MODULE MCParallelExecutor -------------------------
(* Small plans for ParallelExecutor, each the layering topologicalSort      *)
(* gives its dependencies.                                                  *)
EXTENDS ParallelExecutor

CONSTANTS a, b, c, d

MCTask == {a, b, c, d}
MCRunCodes == {0, 2}
MCCancelKinds == {"cancelled", "deadline"}

NoDeps == [t \in MCTask |-> {}]

\* a fan-out and fan-in, and a wide first layer where a task waits for two of three
Diamond == [deps   |-> [NoDeps EXCEPT ![b] = {a}, ![c] = {a}, ![d] = {b, c}],
            layers |-> <<<<a>>, <<b, c>>, <<d>>>>]
Wide    == [deps   |-> [NoDeps EXCEPT ![d] = {a, b}],
            layers |-> <<<<a, b, c>>, <<d>>>>]
TwoLanes == [deps   |-> [NoDeps EXCEPT ![c] = {a}, ![d] = {b}],
             layers |-> <<<<a, b>>, <<c, d>>>>]

MCPlans == {Diamond, Wide, TwoLanes}
=============================================================================
