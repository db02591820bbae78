--------------------------- MODULE MCTaskService ---------------------------
(***************************************************************************)
(* Small instances of TaskService.  Each set of calls is one scenario; the *)
(* sessions make its calls in any order, any number of times.              *)
(***************************************************************************)
EXTENDS TaskService

CONSTANTS ana, bia, x1, x2, x3, a, b, k1, k2, k3, k4

MCCall(op, key, user) ==
    [op |-> op, key |-> key, user |-> user, query |-> None, task |-> None,
     title |-> None, decision |-> "none"]
ById(op, key, user, x) == [MCCall(op, key, user) EXCEPT !.task = x]
ByQuery(op, key, user, q) == [MCCall(op, key, user) EXCEPT !.query = q]
Titled(c, title) == [c EXCEPT !.title = title]
Decide(key, user, how) == [MCCall("resolve", key, user) EXCEPT !.decision = how]

ActiveRow(u, title) == [owner |-> u, title |-> title, status |-> "active"]

\* One task, two requests to delete it, a completion racing them: sessions that
\* wait for each other for the same key, the same row and one request.
DeletionSeed == [x \in TaskId |-> ActiveRow(ana, a)]
DeletionCalls ==
    {ById("delete", k1, ana, x1), ByQuery("delete", k2, ana, a),
     ById("complete", k3, ana, x1),
     Decide(k1, ana, "confirm"), Decide(k2, ana, "confirm")}

\* And every decision on one of them, a stranger's too, who knows its id.
DecisionCalls ==
    DeletionCalls \cup {Decide(k1, ana, "cancel"), Decide(k1, ana, "other"),
                        Decide(k1, bia, "confirm")}

\* Two users and every command, by query and by id; one deletion is confirmed.
CommandSeed ==
    [x \in TaskId |-> IF x = x1 THEN ActiveRow(ana, a)
                      ELSE IF x = x2 THEN ActiveRow(bia, a) ELSE FreeRow]
CommandCalls ==
    {Titled(MCCall("create", k1, ana), a), Titled(ByQuery("update", k2, ana, a), b),
     ByQuery("complete", k3, ana, None), Titled(ById("update", k3, bia, x1), b),
     Titled(ById("update", k4, bia, x2), b), ByQuery("delete", k2, bia, a),
     ById("complete", k1, bia, x2), Decide(k2, bia, "confirm")}
=============================================================================
