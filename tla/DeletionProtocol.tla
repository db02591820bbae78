-------------------------- MODULE DeletionProtocol --------------------------
(***************************************************************************)
(* What the deletion service promises, without transactions: a task leaves *)
(* the system only when a pending request for it is confirmed, and a       *)
(* request is resolved once, in one of four ways.  TaskService implements  *)
(* this specification (Protocol in that module).                           *)
(***************************************************************************)
CONSTANTS TaskId, Request, NoTask

VARIABLES
    present,  \* the tasks that exist
    gone,     \* the tasks that were deleted; their ids are never used again
    status,   \* of each request
    target    \* the task a request is about

pvars == <<present, gone, status, target>>

Init ==
    /\ present \in SUBSET TaskId
    /\ gone = {}
    /\ status = [r \in Request |-> "none"]
    /\ target = [r \in Request |-> NoTask]

Add(x) ==
    /\ x \notin present \cup gone
    /\ present' = present \cup {x}
    /\ UNCHANGED <<gone, status, target>>

\* The request is made while the task exists, at the latest a moment ago.
Ask(r, x) ==
    /\ status[r] = "none"
    /\ x \in present \cup gone
    /\ status' = [status EXCEPT ![r] = "pending"]
    /\ target' = [target EXCEPT ![r] = x]
    /\ UNCHANGED <<present, gone>>

Resolve(r, how) ==
    /\ status[r] = "pending"
    /\ status' = [status EXCEPT ![r] = how]
    /\ UNCHANGED target

Cancel(r) == Resolve(r, "cancelled") /\ UNCHANGED <<present, gone>>
Expire(r) == Resolve(r, "expired") /\ UNCHANGED <<present, gone>>

\* A confirmation that finds nothing to delete uses the request up as well.
Fail(r) == Resolve(r, "consumed") /\ UNCHANGED <<present, gone>>

Execute(r) ==
    /\ Resolve(r, "consumed")
    /\ present' = present \ {target[r]}
    /\ gone' = gone \cup {target[r]}

Next ==
    \/ \E x \in TaskId : Add(x)
    \/ \E r \in Request :
         \/ \E x \in TaskId : Ask(r, x)
         \/ Cancel(r) \/ Expire(r) \/ Fail(r) \/ Execute(r)

Spec == Init /\ [][Next]_pvars
=============================================================================
