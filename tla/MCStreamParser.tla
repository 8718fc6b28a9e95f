--------------------------- MODULE MCStreamParser ---------------------------
(* Up to three lines: the events of a Codex and of a Claude session, with and *)
(* without a text, lines that are blank or do not decode, and sizes on both   *)
(* sides of the buffer (2 bytes) and of the limit (4 bytes).                  *)
EXTENDS StreamParser

CONSTANTS m1, m2, id1, id2

NoEvent == [type |-> "other", thread |-> None, item |-> None, text |-> None,
            subtype |-> None, session |-> None, result |-> None]

Says(m) == [NoEvent EXCEPT !.type = "item.completed", !.item = "agent_message", !.text = m]
Result(m, id) == [NoEvent EXCEPT !.type = "result", !.subtype = "other", !.result = m,
                                 !.session = id]

Events ==
    { [NoEvent EXCEPT !.type = "thread.started", !.thread = id1],
      [NoEvent EXCEPT !.type = "thread.completed", !.thread = id2],
      [NoEvent EXCEPT !.type = "turn.completed"],
      [NoEvent EXCEPT !.type = "item.completed", !.item = "other", !.text = m1],
      Says(None), Says(m1), Says(m2),
      [NoEvent EXCEPT !.type = "system", !.subtype = "init", !.session = id1],
      [NoEvent EXCEPT !.type = "system", !.subtype = "other", !.session = id2],
      Result(None, id2), Result(m1, id1), Result(m2, id1),
      [NoEvent EXCEPT !.type = "error"] }

EventLine(e, size) == [kind |-> "event", event |-> e, size |-> size]

MCLines ==
    { EventLine(e, 1) : e \in Events }
        \cup { EventLine(e, size) : e \in {Says(m1), Result(m2, id1)}, size \in {2, 3, 4, 5, 6} }
        \cup { [kind |-> "blank", event |-> NoEvent, size |-> 0],
               [kind |-> "garbage", event |-> NoEvent, size |-> 3] }
=============================================================================
