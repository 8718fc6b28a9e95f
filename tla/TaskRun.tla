------------------------------- MODULE TaskRun -------------------------------
(* What the run of one task's backend promises the goroutine that calls it: *)
(* from the call on it listens for signals under a context of its own, the  *)
(* process is started under a live context only, and it has been reaped     *)
(* when the run returns, with a code that says how the context ended. The   *)
(* detailed run, ExecutionLifecycle, implements this, and ParallelRun puts  *)
(* one of these behind every task of the executor.                          *)
EXTENDS Integers

CONSTANTS OwnCodes,   \* codes a run under a live context may return
          FailCodes,  \* codes of a run that started no process
          CtxEnds,    \* how the context may end: a subset of {"timeout", "cancelled"}
          NoCode      \* the code of a run that has not returned

VARIABLE state   \* the run: its phase, its context and its code

Called == [phase |-> "open", ctx |-> "live", code |-> NoCode]

Listens(r) == r.phase \in {"open", "backend", "ended"}

ContextEnds(r, how) == IF Listens(r) /\ r.ctx = "live" THEN {[r EXCEPT !.ctx = how]} ELSE {}

BackendStarts(r) ==
    IF r.phase = "open" /\ r.ctx = "live" THEN {[r EXCEPT !.phase = "backend"]} ELSE {}

BackendEnds(r) == IF r.phase = "backend" THEN {[r EXCEPT !.phase = "ended"]} ELSE {}

\* A run that started no process fails, whatever became of its context.
Codes(r) ==
    CASE r.phase = "open"                          -> FailCodes
      [] r.phase = "ended" /\ r.ctx = "timeout"    -> {124}
      [] r.phase = "ended" /\ r.ctx = "cancelled"  -> {130}
      [] r.phase = "ended" /\ r.ctx = "live"       -> OwnCodes
      [] OTHER                                     -> {}

Returns(r) == {[phase |-> "returned", ctx |-> r.ctx, code |-> code] : code \in Codes(r)}

Steps(r) ==
    BackendStarts(r) \cup BackendEnds(r) \cup Returns(r)
        \cup UNION {ContextEnds(r, how) : how \in CtxEnds}

Init == state = Called

Next == state' \in Steps(state)

Spec == Init /\ [][Next]_state
=============================================================================
