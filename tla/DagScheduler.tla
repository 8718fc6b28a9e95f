---------------------------- MODULE DagScheduler ----------------------------
(* What a parallel run promises to the author of its task file, without     *)
(* layers, goroutines, slots or channels: a task starts once every task it  *)
(* depends on has succeeded, a task with a failed dependency never starts,  *)
(* and every task ends with exactly one verdict.                            *)
CONSTANT Task

VARIABLES deps,    \* task -> the tasks it depends on
          status,  \* task -> "pending", "running", "ok" or "failed"
          stopped  \* the run has been cancelled or has timed out

dagVars == <<deps, status, stopped>>

Status == {"pending", "running", "ok", "failed"}

Init ==
    /\ deps \in [Task -> SUBSET Task]
    /\ status = [t \in Task |-> "pending"]
    /\ stopped = FALSE

Start(t) ==
    /\ status[t] = "pending"
    /\ \A d \in deps[t] : status[d] = "ok"
    /\ status' = [status EXCEPT ![t] = "running"]
    /\ UNCHANGED <<deps, stopped>>

Finish(t) ==
    /\ status[t] = "running"
    /\ \E verdict \in {"ok", "failed"} : status' = [status EXCEPT ![t] = verdict]
    /\ UNCHANGED <<deps, stopped>>

\* A task that will never start: a dependency failed, or the run was stopped.
Drop(t) ==
    /\ status[t] = "pending"
    /\ stopped \/ \E d \in deps[t] : status[d] = "failed"
    /\ status' = [status EXCEPT ![t] = "failed"]
    /\ UNCHANGED <<deps, stopped>>

Stop ==
    /\ ~stopped
    /\ stopped' = TRUE
    /\ UNCHANGED <<deps, status>>

Next == Stop \/ \E t \in Task : Start(t) \/ Finish(t) \/ Drop(t)

Spec == Init /\ [][Next]_dagVars

\* Every task gets its verdict.
AllDecided == \A t \in Task : status[t] \in {"ok", "failed"}

=============================================================================
