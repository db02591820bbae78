-------------------------- MODULE GraphCheckpoint --------------------------
(***************************************************************************)
(* app/graph/checkpoint.py over graph_checkpoint_repository.py: a turn     *)
(* reads the checkpoint of its thread in one transaction, runs the Graph   *)
(* with no transaction open, and saves in another one.  Turns of the same  *)
(* thread overlap (two webhook requests, a webhook and a terminal); the    *)
(* version a turn has read decides whether its save is accepted.           *)
(*                                                                         *)
(* What the Graph does to a continuation is the relation Turn.             *)
(***************************************************************************)
EXTENDS Naturals

CONSTANTS
    Thread, User,
    Linked,      \* the users with a row from the start: those of linked chats
    Proc,        \* turns that may run at the same time
    State,       \* GraphContinuationState
    Fresh,       \* the continuation of a thread without a checkpoint
    Turn,        \* the pairs of continuations before and after a turn
    MaxVersion,  \* bound: no turn begins on a thread at this version
    None

ASSUME StateAssumption == Fresh \in State /\ Turn \subseteq State \X State
ASSUME NoneAssumption == None \notin User
ASSUME LinkedAssumption == Linked \subseteq User
ASSUME VersionAssumption == MaxVersion \in Nat

\* A graph_checkpoints row.  Version 0 stands for no row, and for the
\* expected_version None of a turn that found none.
Checkpoint == [user : User, version : Nat \ {0}, state : State]
NoCheckpoint == [user |-> None, version |-> 0, state |-> Fresh]

PC == {"idle", "read", "run", "select", "insert", "inserted", "update", "conflict"}
Invocation == [pc : PC, thread : Thread, user : User, expected : Nat,
               basis : State, next : State]
NoInvocation == [pc |-> "idle"]

VARIABLES
    users,        \* the users table
    checkpoints,  \* the graph_checkpoints table
    turns
vars == <<users, checkpoints, turns>>

Init ==
    /\ users = Linked
    /\ checkpoints = [th \in Thread |-> NoCheckpoint]
    /\ turns = [p \in Proc |-> NoInvocation]

-----------------------------------------------------------------------------

Begin(p, th, u) ==
    /\ turns[p].pc = "idle"
    /\ checkpoints[th].version < MaxVersion
    /\ turns' = [turns EXCEPT ![p] = [pc |-> "read", thread |-> th, user |-> u,
                    expected |-> 0, basis |-> Fresh, next |-> Fresh]]
    /\ UNCHANGED <<users, checkpoints>>

AnyReader(p) == TRUE  \* mutant: get_for_thread forgets user_id
OwnThread(p) == checkpoints[turns[p].thread].user = turns[p].user

\* get_for_thread: the checkpoint of another user's thread is not found.
GetCheckpoint(p) ==
    LET row == checkpoints[turns[p].thread] IN
    /\ turns[p].pc = "read"
    /\ turns' = [turns EXCEPT ![p].pc = "run",
                    ![p].expected = IF OwnThread(p) THEN row.version ELSE 0,
                    ![p].basis = IF OwnThread(p) THEN row.state ELSE Fresh]
    /\ UNCHANGED <<users, checkpoints>>

\* The Graph runs on the continuation that was read; its commands commit, and
\* every command sees to it that its user has a row.
RunGraph(p) ==
    /\ turns[p].pc = "run"
    /\ \E turn \in Turn :
         /\ turn[1] = turns[p].basis
         /\ turns' = [turns EXCEPT ![p].pc = "select", ![p].next = turn[2]]
    /\ users' \in {users, users \cup {turns[p].user}}
    /\ UNCHANGED checkpoints

\* A raised exception or a crash: the transaction, if any, is rolled back.
Abandon(p) ==
    /\ turns[p].pc # "idle"
    /\ turns' = [turns EXCEPT ![p] = NoInvocation]
    /\ UNCHANGED <<users, checkpoints>>

NoForUpdate(th) == FALSE  \* mutant: SELECT without FOR UPDATE
Locked(th) == \E p \in Proc : turns[p].pc = "update" /\ turns[p].thread = th
Inserting(th) == \E p \in Proc : turns[p].pc = "inserted" /\ turns[p].thread = th

SameRowExists(p) == checkpoints[turns[p].thread].version # 0  \* mutant: version not compared
NextVersion(p) ==  \* mutant: compared with the version that is about to be written
    /\ turns[p].expected # 0
    /\ checkpoints[turns[p].thread].version = turns[p].expected + 1
SameVersion(p) == /\ turns[p].expected # 0
                  /\ checkpoints[turns[p].thread].version = turns[p].expected

\* SELECT ... FOR UPDATE waits for the lock and then sees the committed row;
\* an uncommitted insert is not seen.  A checkpoint of another user raises the
\* ownership error, and another version than the one read the conflict.
SelectForUpdate(p) ==
    LET row == checkpoints[turns[p].thread] IN
    /\ turns[p].pc = "select"
    /\ ~Locked(turns[p].thread)
    /\ \/ /\ row.version = 0 /\ turns[p].expected = 0
          /\ turns' = [turns EXCEPT ![p].pc = "insert"]
       \/ /\ row.version # 0 /\ OwnThread(p) /\ SameVersion(p)
          /\ turns' = [turns EXCEPT ![p].pc = "update"]
       \/ /\ row.version # 0 /\ ~OwnThread(p)
          /\ turns' = [turns EXCEPT ![p] = NoInvocation]
       \/ /\ ~(row.version = 0 /\ turns[p].expected = 0)
          /\ row.version # 0 => OwnThread(p)
          /\ ~SameVersion(p)
          /\ turns' = [turns EXCEPT ![p].pc = "conflict"]
    /\ UNCHANGED <<users, checkpoints>>

\* Mutant: the insert is retried until the thread has no checkpoint.
InsertWhenAbsent(p) ==
    /\ turns[p].pc = "insert"
    /\ ~Inserting(turns[p].thread) /\ checkpoints[turns[p].thread].version = 0
    /\ turns' = [turns EXCEPT ![p].pc = "inserted"]
    /\ UNCHANGED <<users, checkpoints>>

\* Mutant: an upsert takes the thread over.
InsertOrReplace(p) ==
    /\ turns[p].pc = "insert"
    /\ ~Inserting(turns[p].thread)
    /\ turns' = [turns EXCEPT ![p].pc = "inserted"]
    /\ UNCHANGED <<users, checkpoints>>

\* The INSERT, in a savepoint: waits for an uncommitted insert of the same
\* thread, and violates the primary key if that one was committed, and the
\* foreign key if the user has no row.  Either is taken for a conflict.
InsertCheckpoint(p) ==
    /\ turns[p].pc = "insert"
    /\ ~Inserting(turns[p].thread)
    /\ LET accepted == checkpoints[turns[p].thread].version = 0 /\ turns[p].user \in users
       IN turns' = [turns EXCEPT ![p].pc = IF accepted THEN "inserted" ELSE "conflict"]
    /\ UNCHANGED <<users, checkpoints>>

SavedRow(p) == [user |-> turns[p].user, version |-> turns[p].expected + 1,
                state |-> turns[p].next]

CommitSave(p) ==
    /\ turns[p].pc \in {"inserted", "update"}
    /\ checkpoints' = [checkpoints EXCEPT ![turns[p].thread] = SavedRow(p)]
    /\ turns' = [turns EXCEPT ![p] = NoInvocation]
    /\ UNCHANGED users

\* The caller is told of the conflict.
ReportConflict(p) ==
    /\ turns[p].pc = "conflict"
    /\ turns' = [turns EXCEPT ![p] = NoInvocation]
    /\ UNCHANGED <<users, checkpoints>>

Step(p) == \/ GetCheckpoint(p) \/ RunGraph(p) \/ SelectForUpdate(p)
           \/ InsertCheckpoint(p) \/ CommitSave(p) \/ ReportConflict(p)

Next ==
    \E p \in Proc : \/ Step(p) \/ Abandon(p)
                    \/ \E th \in Thread, u \in User : Begin(p, th, u)

Spec == Init /\ [][Next]_vars

\* Lock waiters are served in order, and a running turn goes on.
FairSpec == Spec /\ \A p \in Proc : SF_vars(Step(p))

-----------------------------------------------------------------------------
(* Properties *)

\* Every variable holds what the table and the runner can hold.
TypeOK ==
    /\ Linked \subseteq users /\ users \subseteq User
    /\ checkpoints \in [Thread -> Checkpoint \cup {NoCheckpoint}]
    /\ turns \in [Proc -> Invocation \cup {NoInvocation}]
    /\ \A p \in Proc : turns[p] # NoInvocation => turns[p].pc # "idle"

\* No turn is lost and none is mixed with another: overlapping turns have the
\* effect of turns taken one after the other.
Serial == INSTANCE SerialTurns WITH
    owner <- [th \in Thread |-> checkpoints[th].user],
    continuation <- [th \in Thread |-> checkpoints[th].state],
    turnsTaken <- [th \in Thread |-> checkpoints[th].version]
ImplementsSerialTurns == Serial!Spec

\* A thread keeps its first user, also when two users open it together, and
\* only that user's turns move it on, each by one version.
ThreadKeepsItsUser ==
    [][\A th \in Thread : checkpoints'[th] # checkpoints[th] =>
          /\ checkpoints[th].user \in {None, checkpoints'[th].user}
          /\ checkpoints'[th].version = checkpoints[th].version + 1
          /\ \E p \in Proc : /\ turns[p] # turns'[p] /\ turns[p].thread = th
                             /\ turns[p].user = checkpoints'[th].user]_vars

\* A turn never runs on what another user said: what it knows beyond a fresh
\* conversation comes from its own user's thread.
OnlyOwnContinuation ==
    \A p \in Proc : turns[p] # NoInvocation /\ turns[p].basis # Fresh
        => checkpoints[turns[p].thread].user = turns[p].user

\* What a conflict tells the caller, that another turn has moved the thread on
\* since it was read, is true; for a user whose chat is linked, and as the
\* documentation of GraphCheckpointConflictError has it, for everyone.
StaleTurn(p) == checkpoints[turns[p].thread].version # turns[p].expected
LinkedConflictsAreReal ==
    \A p \in Proc : turns[p].pc = "conflict" /\ turns[p].user \in Linked => StaleTurn(p)
ConflictsAreReal == \A p \in Proc : turns[p].pc = "conflict" => StaleTurn(p)

\* Every turn that is not interrupted is saved or refused: no two saves wait
\* for each other.
EveryTurnEnds == \A p \in Proc : turns[p].pc # "idle" ~> turns[p].pc = "idle"

-----------------------------------------------------------------------------
(* The inductive invariant *)

\* Two turns never write the same thread together.
SavesExclude ==
    \A p, q \in Proc :
        /\ turns[p].pc \in {"update", "inserted"} /\ turns[q].pc \in {"update", "inserted"}
        /\ turns[p].thread = turns[q].thread
        => p = q

\* The version identifies the continuation: while the checkpoint still has the
\* version a turn has read, it has the state and the user the turn has read.
BasisOK(turn) ==
    LET row == checkpoints[turn.thread] IN
    /\ turn.expected = 0 => turn.basis = Fresh
    /\ turn.expected # 0 => row.user = turn.user /\ turn.expected <= row.version
    /\ turn.expected # 0 /\ turn.expected = row.version => row.state = turn.basis

\* How far the save has come.
SaveOK(turn) ==
    LET row == checkpoints[turn.thread] IN
    /\ turn.pc = "read" => turn.expected = 0 /\ turn.basis = Fresh
    /\ turn.pc \in {"select", "insert", "inserted", "update"} => <<turn.basis, turn.next>> \in Turn
    /\ turn.pc \in {"insert", "inserted"} => turn.expected = 0
    /\ turn.pc = "inserted" => row = NoCheckpoint
    /\ turn.pc = "conflict" /\ turn.user \in Linked => row.version # turn.expected
    /\ turn.pc = "update" => /\ turn.expected # 0 /\ turn.expected = row.version
                             /\ row.user = turn.user

Inv ==
    /\ TypeOK
    /\ SavesExclude
    /\ \A p \in Proc : turns[p] # NoInvocation => BasisOK(turns[p]) /\ SaveOK(turns[p])
=============================================================================
