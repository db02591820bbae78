--------------------------- MODULE MCConversation ---------------------------
(***************************************************************************)
(* Small instances of Conversation: two tasks with different titles.       *)
(***************************************************************************)
EXTENDS Conversation, TLC

CONSTANTS terminal, chat, x1, x2, a, b

Channels == [th \in Thread |-> IF th = chat THEN "telegram" ELSE "cli"]
Titles == [x \in TaskId |-> IF x = x1 THEN a ELSE b]
Listings == {<<x1, x2>>}

Says(decision, topic, number, titles) ==
    [decision |-> decision, topic |-> topic, number |-> number, titles |-> titles]
Yes == Says("confirm", "task", 0, {})
Plan == Says("none", "planning", 0, {})
\* "the first", "number 3 is a", "both a and b".
First == Says("none", "task", 1, {})
ThirdOrA == Says("none", "task", 3, {a})
AAndB == Says("none", "task", 0, {a, b})
Texts == {Yes, Plan, First, ThirdOrA, AAndB}
FewTexts == {Yes, Plan, First}

Update(title, description, priority) ==
    [f \in Field |-> CASE f = "title" -> title [] f = "description" -> description
                      [] f = "priority" -> priority]
\* An update that can be stored, and one that cannot.
Updates == {Update("new", "keep", "new"), Update("keep", "keep", "new")}
FewUpdates == {Update("new", "keep", "new")}

\* Turns, and requests, are alike.
Alike == Permutations(Proc) \cup Permutations(Request)
=============================================================================
