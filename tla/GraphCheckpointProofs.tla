----------------------- MODULE GraphCheckpointProofs -----------------------
(***************************************************************************)
(* Proofs about GraphCheckpoint for any threads, users, turns and number   *)
(* of processes.                                                           *)
(***************************************************************************)
EXTENDS GraphCheckpoint, TLAPS

-----------------------------------------------------------------------------
(* The invariant *)

LEMMA InvInit == Init => Inv
  BY LinkedAssumption DEF Init, Inv, TypeOK, SavesExclude, NoInvocation

\* A step of p that leaves the checkpoints alone keeps the invariant if it
\* keeps it for p: what the others know is about the checkpoints.
LEMMA QuietTable ==
    ASSUME Inv, NEW p \in Proc, UNCHANGED checkpoints,
           Linked \subseteq users', users' \subseteq User,
           NEW turn \in Invocation \cup {NoInvocation},
           turns' = [turns EXCEPT ![p] = turn],
           turn # NoInvocation => turn.pc # "idle" /\ BasisOK(turn) /\ SaveOK(turn),
           turn.pc \in {"update", "inserted"} =>
               \A q \in Proc \ {p} : turns[q].pc \in {"update", "inserted"}
                                        => turns[q].thread # turn.thread
    PROVE  Inv'
  <1>1. /\ turns'[p] = turn
        /\ \A q \in Proc \ {p} : turns'[q] = turns[q]
    BY DEF Inv, TypeOK
  <1>2. TypeOK'
    BY <1>1 DEF Inv, TypeOK
  <1>3. SavesExclude'
    BY <1>1 DEF Inv, SavesExclude
  <1>4. ASSUME NEW q \in Proc
        PROVE  (turns[q] # NoInvocation => BasisOK(turns[q]) /\ SaveOK(turns[q]))'
    <2>1. CASE q = p
      BY <1>1, <2>1 DEF BasisOK, SaveOK
    <2>2. CASE q # p
      BY <1>1, <2>2 DEF Inv, BasisOK, SaveOK
    <2> QED
      BY <2>1, <2>2
  <1> QED
    BY <1>2, <1>3, <1>4 DEF Inv

LEMMA Quiet ==
    ASSUME Inv, NEW p \in Proc, UNCHANGED <<users, checkpoints>>,
           NEW turn \in Invocation \cup {NoInvocation},
           turns' = [turns EXCEPT ![p] = turn],
           turn # NoInvocation => turn.pc # "idle" /\ BasisOK(turn) /\ SaveOK(turn),
           turn.pc \in {"update", "inserted"} =>
               \A q \in Proc \ {p} : turns[q].pc \in {"update", "inserted"}
                                        => turns[q].thread # turn.thread
    PROVE  Inv'
  <1>1. Linked \subseteq users' /\ users' \subseteq User
    BY DEF Inv, TypeOK
  <1> QED
    BY <1>1, QuietTable

LEMMA IdleTurn == NoInvocation \notin Invocation /\ NoInvocation.pc = "idle"
  BY DEF NoInvocation, Invocation

\* A running turn has all its fields.
LEMMA Running ==
    ASSUME Inv, NEW p \in Proc, turns[p].pc # "idle"
    PROVE  /\ turns[p] \in Invocation /\ turns[p] # NoInvocation
           /\ BasisOK(turns[p]) /\ SaveOK(turns[p])
  BY DEF Inv, TypeOK, NoInvocation

LEMMA BeginInv ==
    ASSUME Inv, NEW p \in Proc, NEW th \in Thread, NEW u \in User, Begin(p, th, u)
    PROVE  Inv'
  <1> DEFINE turn == [pc |-> "read", thread |-> th, user |-> u, expected |-> 0,
                      basis |-> Fresh, next |-> Fresh]
  <1>1. turn \in Invocation
    BY StateAssumption DEF Invocation, PC
  <1>2. BasisOK(turn) /\ SaveOK(turn)
    BY DEF BasisOK, SaveOK
  <1> QED
    BY <1>1, <1>2, Quiet DEF Begin

LEMMA AbandonInv == ASSUME Inv, NEW p \in Proc, Abandon(p) PROVE Inv'
  BY Quiet, IdleTurn DEF Abandon

LEMMA GetCheckpointInv == ASSUME Inv, NEW p \in Proc, GetCheckpoint(p) PROVE Inv'
  <1> DEFINE row == checkpoints[turns[p].thread]
             turn == [turns[p] EXCEPT !.pc = "run",
                        !.expected = IF OwnThread(p) THEN row.version ELSE 0,
                        !.basis = IF OwnThread(p) THEN row.state ELSE Fresh]
  <1>1. turns[p] \in Invocation /\ turns[p].pc = "read"
    BY Running DEF GetCheckpoint
  <1>2. row \in Checkpoint \cup {NoCheckpoint}
    BY <1>1 DEF Inv, TypeOK, Invocation
  <1>3. OwnThread(p) => row \in Checkpoint
    BY <1>1, <1>2, NoneAssumption DEF OwnThread, NoCheckpoint, Invocation
  <1>4. turn \in Invocation
    BY <1>1, <1>3, StateAssumption DEF Invocation, PC, Checkpoint
  <1>5. BasisOK(turn) /\ SaveOK(turn)
    BY <1>1, <1>3 DEF BasisOK, SaveOK, OwnThread, Checkpoint, Invocation
  <1>6. turns' = [turns EXCEPT ![p] = turn] /\ UNCHANGED <<users, checkpoints>>
    BY <1>1 DEF GetCheckpoint, Inv, TypeOK
  <1>7. turn.pc = "run" /\ turn # NoInvocation
    BY <1>1, <1>4, IdleTurn DEF Invocation
  <1> HIDE DEF turn
  <1> QED
    BY <1>4, <1>5, <1>6, <1>7, Quiet

LEMMA RunGraphInv == ASSUME Inv, NEW p \in Proc, RunGraph(p) PROVE Inv'
  <1>1. turns[p] \in Invocation /\ turns[p].pc = "run" /\ BasisOK(turns[p]) /\ SaveOK(turns[p])
    BY Running DEF RunGraph
  <1>2. PICK step \in Turn : /\ step[1] = turns[p].basis
                             /\ turns' = [turns EXCEPT ![p].pc = "select", ![p].next = step[2]]
                             /\ UNCHANGED checkpoints
                             /\ users' \in {users, users \cup {turns[p].user}}
    BY DEF RunGraph
  <1> DEFINE turn == [turns[p] EXCEPT !.pc = "select", !.next = step[2]]
  <1>3. step \in State \X State
    BY StateAssumption
  <1>4. turn \in Invocation
    BY <1>1, <1>3 DEF Invocation, PC
  <1>5. <<turn.basis, turn.next>> \in Turn
    BY <1>1, <1>2, <1>3 DEF Invocation
  <1>6. BasisOK(turn) /\ SaveOK(turn)
    BY <1>1, <1>5 DEF BasisOK, SaveOK, Invocation
  <1>7. turns' = [turns EXCEPT ![p] = turn]
    BY <1>2 DEF Inv, TypeOK
  <1>8. turn.pc = "select" /\ turn # NoInvocation
    BY <1>1, <1>4, IdleTurn DEF Invocation
  <1>9. Linked \subseteq users' /\ users' \subseteq User
    BY <1>1, <1>2 DEF Inv, TypeOK, Invocation
  <1> HIDE DEF turn
  <1> QED
    BY <1>2, <1>4, <1>6, <1>7, <1>8, <1>9, QuietTable

LEMMA SelectForUpdateInv == ASSUME Inv, NEW p \in Proc, SelectForUpdate(p) PROVE Inv'
  <1> DEFINE row == checkpoints[turns[p].thread]
  <1>1. turns[p] \in Invocation /\ turns[p].pc = "select" /\ BasisOK(turns[p]) /\ SaveOK(turns[p])
    BY Running DEF SelectForUpdate
  <1>2. UNCHANGED <<users, checkpoints>>
    BY DEF SelectForUpdate
  <1>3. CASE row.version = 0 /\ turns[p].expected = 0 /\ turns' = [turns EXCEPT ![p].pc = "insert"]
    <2> DEFINE turn == [turns[p] EXCEPT !.pc = "insert"]
    <2>1. turn \in Invocation /\ turn # NoInvocation /\ turn.pc = "insert"
      BY <1>1, IdleTurn DEF Invocation, PC
    <2>2. BasisOK(turn) /\ SaveOK(turn)
      BY <1>1, <1>3 DEF BasisOK, SaveOK, Invocation
    <2>3. turns' = [turns EXCEPT ![p] = turn]
      BY <1>3 DEF Inv, TypeOK
    <2> HIDE DEF turn
    <2> QED
      BY <1>2, <2>1, <2>2, <2>3, Quiet
  <1>4. CASE row.version # 0 /\ OwnThread(p) /\ SameVersion(p)
             /\ turns' = [turns EXCEPT ![p].pc = "update"]
    <2> DEFINE turn == [turns[p] EXCEPT !.pc = "update"]
    <2>1. turn \in Invocation /\ turn # NoInvocation /\ turn.pc = "update"
          /\ turn.thread = turns[p].thread
      BY <1>1, IdleTurn DEF Invocation, PC
    <2>2. BasisOK(turn) /\ SaveOK(turn)
      BY <1>1, <1>4 DEF BasisOK, SaveOK, Invocation, OwnThread, SameVersion
    <2>3. turns' = [turns EXCEPT ![p] = turn]
      BY <1>4 DEF Inv, TypeOK
    <2>4. \A q \in Proc \ {p} : turns[q].pc \in {"update", "inserted"}
                                  => turns[q].thread # turns[p].thread
      <3>1. \A q \in Proc : turns[q].pc = "update" => turns[q].thread # turns[p].thread
        BY DEF SelectForUpdate, Locked
      <3>2. ASSUME NEW q \in Proc, turns[q].pc = "inserted" PROVE turns[q].thread # turns[p].thread
        <4>1. SaveOK(turns[q])
          BY <3>2, Running
        <4>2. checkpoints[turns[q].thread].version = 0
          BY <3>2, <4>1 DEF SaveOK, NoCheckpoint
        <4> QED
          BY <1>4, <4>2
      <3> QED
        BY <3>1, <3>2
    <2> HIDE DEF turn
    <2> QED
      BY <1>2, <2>1, <2>2, <2>3, <2>4, Quiet
  <1>5. CASE turns' = [turns EXCEPT ![p] = NoInvocation]
    BY <1>2, <1>5, Quiet, IdleTurn
  <1>6. CASE /\ ~(row.version = 0 /\ turns[p].expected = 0) /\ ~SameVersion(p)
             /\ turns' = [turns EXCEPT ![p].pc = "conflict"]
    <2> DEFINE turn == [turns[p] EXCEPT !.pc = "conflict"]
    <2>1. turn \in Invocation /\ turn # NoInvocation /\ turn.pc = "conflict"
      BY <1>1, IdleTurn DEF Invocation, PC
    <2>2. BasisOK(turn) /\ SaveOK(turn)
      BY <1>1, <1>6 DEF BasisOK, SaveOK, Invocation, SameVersion
    <2>3. turns' = [turns EXCEPT ![p] = turn]
      BY <1>6 DEF Inv, TypeOK
    <2> HIDE DEF turn
    <2> QED
      BY <1>2, <2>1, <2>2, <2>3, Quiet
  <1> QED
    BY <1>3, <1>4, <1>5, <1>6 DEF SelectForUpdate

LEMMA InsertCheckpointInv == ASSUME Inv, NEW p \in Proc, InsertCheckpoint(p) PROVE Inv'
  <1> DEFINE row == checkpoints[turns[p].thread]
  <1>1. turns[p] \in Invocation /\ turns[p].pc = "insert" /\ BasisOK(turns[p]) /\ SaveOK(turns[p])
    BY Running DEF InsertCheckpoint
  <1>2. UNCHANGED <<users, checkpoints>>
    BY DEF InsertCheckpoint
  <1>3. CASE row.version = 0 /\ turns[p].user \in users
    <2> DEFINE turn == [turns[p] EXCEPT !.pc = "inserted"]
    <2>1. turn \in Invocation /\ turn # NoInvocation /\ turn.pc = "inserted"
          /\ turn.thread = turns[p].thread
      BY <1>1, IdleTurn DEF Invocation, PC
    <2>2. row = NoCheckpoint
      BY <1>1, <1>3 DEF Inv, TypeOK, Checkpoint, Invocation
    <2>3. BasisOK(turn) /\ SaveOK(turn)
      BY <1>1, <2>2 DEF BasisOK, SaveOK, Invocation
    <2>4. turns' = [turns EXCEPT ![p] = turn]
      BY <1>3 DEF InsertCheckpoint, Inv, TypeOK
    <2>5. \A q \in Proc \ {p} : turns[q].pc \in {"update", "inserted"}
                                  => turns[q].thread # turns[p].thread
      <3>1. \A q \in Proc : turns[q].pc = "inserted" => turns[q].thread # turns[p].thread
        BY DEF InsertCheckpoint, Inserting
      <3>2. ASSUME NEW q \in Proc, turns[q].pc = "update" PROVE turns[q].thread # turns[p].thread
        <4>1. checkpoints[turns[q].thread].version # 0
          BY <3>2, Running DEF SaveOK
        <4> QED
          BY <1>3, <4>1
      <3> QED
        BY <3>1, <3>2
    <2> HIDE DEF turn
    <2> QED
      BY <1>2, <2>1, <2>3, <2>4, <2>5, Quiet
  <1>4. CASE ~(row.version = 0 /\ turns[p].user \in users)
    <2> DEFINE turn == [turns[p] EXCEPT !.pc = "conflict"]
    <2>1. turn \in Invocation /\ turn # NoInvocation /\ turn.pc = "conflict"
      BY <1>1, IdleTurn DEF Invocation, PC
    <2>2. Linked \subseteq users /\ turns[p].expected = 0
      BY <1>1 DEF Inv, TypeOK, SaveOK
    <2>3. BasisOK(turn) /\ SaveOK(turn)
      BY <1>1, <1>4, <2>2 DEF BasisOK, SaveOK, Invocation
    <2>4. turns' = [turns EXCEPT ![p] = turn]
      BY <1>4 DEF InsertCheckpoint, Inv, TypeOK
    <2> HIDE DEF turn
    <2> QED
      BY <1>2, <2>1, <2>3, <2>4, Quiet
  <1> QED
    BY <1>3, <1>4

\* What a save does to the row: the version goes up by one, and the owner, if
\* there was one, stays.
LEMMA SavedRowOK ==
    ASSUME Inv, NEW p \in Proc, CommitSave(p)
    PROVE  /\ turns[p] \in Invocation
           /\ SavedRow(p) \in Checkpoint
           /\ SavedRow(p).version = checkpoints[turns[p].thread].version + 1
           /\ checkpoints[turns[p].thread].user \in {None, SavedRow(p).user}
           /\ <<checkpoints[turns[p].thread].state, SavedRow(p).state>> \in Turn
           /\ \A q \in Proc \ {p} : turns[q].pc \in {"update", "inserted"}
                                       => turns[q].thread # turns[p].thread
  <1>1. turns[p] \in Invocation /\ turns[p].pc \in {"inserted", "update"}
        /\ BasisOK(turns[p]) /\ SaveOK(turns[p])
    BY Running DEF CommitSave
  <1>2. SavedRow(p) \in Checkpoint
    BY <1>1 DEF SavedRow, Checkpoint, Invocation
  <1>3. CASE turns[p].pc = "inserted"
    BY <1>1, <1>2, <1>3 DEF BasisOK, SaveOK, SavedRow, NoCheckpoint, Inv, SavesExclude
  <1>4. CASE turns[p].pc = "update"
    BY <1>1, <1>2, <1>4 DEF BasisOK, SaveOK, SavedRow, Inv, SavesExclude
  <1> QED
    BY <1>1, <1>3, <1>4

LEMMA CommitSaveInv == ASSUME Inv, NEW p \in Proc, CommitSave(p) PROVE Inv'
  <1> DEFINE th == turns[p].thread
             row == checkpoints[th]
  <1>1. /\ turns[p] \in Invocation /\ th \in Thread
        /\ SavedRow(p) \in Checkpoint /\ SavedRow(p).version = row.version + 1
        /\ row.user \in {None, SavedRow(p).user}
        /\ \A q \in Proc \ {p} : turns[q].pc \in {"update", "inserted"} => turns[q].thread # th
    BY SavedRowOK DEF Invocation
  <1>2. /\ checkpoints' = [checkpoints EXCEPT ![th] = SavedRow(p)]
        /\ turns' = [turns EXCEPT ![p] = NoInvocation]
        /\ UNCHANGED users
    BY DEF CommitSave
  <1>3. /\ turns'[p] = NoInvocation
        /\ \A q \in Proc \ {p} : turns'[q] = turns[q]
        /\ checkpoints'[th] = SavedRow(p)
        /\ \A other \in Thread \ {th} : checkpoints'[other] = checkpoints[other]
    BY <1>1, <1>2 DEF Inv, TypeOK
  <1>4. TypeOK'
    BY <1>1, <1>2, IdleTurn DEF Inv, TypeOK
  <1>5. SavesExclude'
    BY <1>3, IdleTurn DEF Inv, SavesExclude
  <1>6. ASSUME NEW q \in Proc \ {p}, turns[q] # NoInvocation
        PROVE  BasisOK(turns[q])' /\ SaveOK(turns[q])'
    <2>1. turns[q] \in Invocation /\ turns[q].thread \in Thread /\ BasisOK(turns[q]) /\ SaveOK(turns[q])
      BY <1>6 DEF Inv, TypeOK, Invocation
    <2>2. CASE turns[q].thread # th
      BY <1>3, <2>1, <2>2 DEF BasisOK, SaveOK
    <2>3. CASE turns[q].thread = th
      <3>1. turns[q].pc \notin {"update", "inserted"}
        BY <1>1, <2>3
      <3>3. row.version \in Nat /\ turns[q].expected \in Nat
        BY <1>1, <2>1 DEF Inv, TypeOK, Checkpoint, NoCheckpoint, Invocation
      <3>4. turns[q].expected # 0 => row.user = turns[q].user /\ turns[q].user \in User
        BY <2>1, <2>3 DEF BasisOK, Invocation
      <3>5. turns[q].expected # 0 => SavedRow(p).user = turns[q].user
        BY <1>1, <3>4, NoneAssumption
      <3>6. BasisOK(turns[q])'
        BY <1>1, <1>3, <2>1, <2>3, <3>3, <3>5 DEF BasisOK
      <3>7. SaveOK(turns[q])'
        BY <1>1, <1>3, <2>1, <2>3, <3>1, <3>3 DEF SaveOK, BasisOK
      <3> QED
        BY <3>6, <3>7
    <2> QED
      BY <2>2, <2>3
  <1> QED
    BY <1>3, <1>4, <1>5, <1>6 DEF Inv

LEMMA ReportConflictInv == ASSUME Inv, NEW p \in Proc, ReportConflict(p) PROVE Inv'
  BY Quiet, IdleTurn DEF ReportConflict

LEMMA InvNext == Inv /\ [Next]_vars => Inv'
  <1> SUFFICES ASSUME Inv, [Next]_vars PROVE Inv'
    OBVIOUS
  <1>1. CASE UNCHANGED vars
    BY <1>1 DEF vars, Inv, TypeOK, SavesExclude, BasisOK, SaveOK
  <1>2. ASSUME NEW p \in Proc, Step(p) PROVE Inv'
    BY <1>2, GetCheckpointInv, RunGraphInv, SelectForUpdateInv, InsertCheckpointInv,
       CommitSaveInv, ReportConflictInv DEF Step
  <1> QED
    BY <1>1, <1>2, AbandonInv, BeginInv DEF Next

\* The invariant of the runner: versions identify continuations.
THEOREM Invariance == Spec => []Inv
  BY InvInit, InvNext, PTL DEF Spec

\* The variables have the types of the table and of the runner.
THEOREM TypeCorrect == Spec => []TypeOK
  <1>1. Inv => TypeOK
    BY DEF Inv
  <1> QED
    BY <1>1, Invariance, PTL

\* get_for_thread keeps the users apart: no turn runs on another user's words.
THEOREM Isolation == Spec => []OnlyOwnContinuation
  <1>1. Inv => OnlyOwnContinuation
    BY DEF Inv, OnlyOwnContinuation, BasisOK
  <1> QED
    BY <1>1, Invariance, PTL

\* The conflict a linked user is told of is the one the exception names.
THEOREM RealConflicts == Spec => []LinkedConflictsAreReal
  <1>1. ASSUME Inv, NEW p \in Proc, turns[p].pc = "conflict", turns[p].user \in Linked
        PROVE  StaleTurn(p)
    BY <1>1, Running DEF SaveOK, StaleTurn
  <1>2. Inv => LinkedConflictsAreReal
    BY <1>1 DEF LinkedConflictsAreReal
  <1> QED
    BY <1>2, Invariance, PTL

-----------------------------------------------------------------------------
(* Steps *)

\* Only a save changes the table.
LEMMA OnlySavesWrite ==
    ASSUME Next PROVE UNCHANGED checkpoints \/ \E p \in Proc : CommitSave(p)
  BY DEF Next, Step, Begin, Abandon, GetCheckpoint, RunGraph, SelectForUpdate, InsertCheckpoint,
     ReportConflict

\* A thread keeps its first user, and only that user's turns move it on.
THEOREM Ownership == Spec => ThreadKeepsItsUser
  <1> DEFINE Kept == \A th \in Thread : checkpoints'[th] # checkpoints[th] =>
          /\ checkpoints[th].user \in {None, checkpoints'[th].user}
          /\ checkpoints'[th].version = checkpoints[th].version + 1
          /\ \E p \in Proc : /\ turns[p] # turns'[p] /\ turns[p].thread = th
                             /\ turns[p].user = checkpoints'[th].user
  <1>1. ASSUME Inv, NEW p \in Proc, CommitSave(p) PROVE Kept
    <2>1. /\ turns[p] \in Invocation /\ SavedRow(p).user = turns[p].user
          /\ SavedRow(p).version = checkpoints[turns[p].thread].version + 1
          /\ checkpoints[turns[p].thread].user \in {None, SavedRow(p).user}
      BY <1>1, SavedRowOK DEF SavedRow
    <2>2. \A th \in Thread : checkpoints'[th] =
             IF th = turns[p].thread THEN SavedRow(p) ELSE checkpoints[th]
      BY <1>1 DEF CommitSave, Inv, TypeOK
    <2>3. turns[p] # turns'[p]
      BY <1>1, IdleTurn DEF CommitSave, Inv, TypeOK
    <2> QED
      BY <2>1, <2>2, <2>3
  <1>2. Inv /\ [Next]_vars => [Kept]_vars
    BY <1>1, OnlySavesWrite DEF vars
  <1> QED
    BY <1>2, Invariance, PTL DEF Spec, ThreadKeepsItsUser

\* Overlapping turns have the effect of turns taken one after the other.
THEOREM Refinement == Spec => ImplementsSerialTurns
  <1>1. Init => Serial!Init
    BY DEF Init, Serial!Init, NoCheckpoint
  <1>2. ASSUME Inv, NEW p \in Proc, CommitSave(p) PROVE Serial!Next
    <2>1. /\ turns[p] \in Invocation
          /\ SavedRow(p).version = checkpoints[turns[p].thread].version + 1
          /\ SavedRow(p).user = turns[p].user /\ SavedRow(p).state = turns[p].next
          /\ checkpoints[turns[p].thread].user \in {None, turns[p].user}
          /\ <<checkpoints[turns[p].thread].state, turns[p].next>> \in Turn
      BY <1>2, SavedRowOK DEF SavedRow
    <2>2. PICK th \in Thread, u \in User, turn \in Turn :
             /\ th = turns[p].thread /\ u = turns[p].user
             /\ turn = <<checkpoints[turns[p].thread].state, turns[p].next>>
      BY <2>1 DEF Invocation
    <2>3. /\ checkpoints'[th] = SavedRow(p)
          /\ \A other \in Thread \ {th} : checkpoints'[other] = checkpoints[other]
      BY <1>2, <2>2 DEF CommitSave, Inv, TypeOK
    <2>4. Serial!Take(th, u, turn[2])
      BY <2>1, <2>2, <2>3 DEF Serial!Take
    <2> QED
      BY <2>4 DEF Serial!Next
  <1>3. UNCHANGED checkpoints => UNCHANGED Serial!svars
    BY DEF Serial!svars
  <1>4. Inv /\ [Next]_vars => [Serial!Next]_(Serial!svars)
    BY <1>2, <1>3, OnlySavesWrite DEF vars
  <1> QED
    BY <1>1, <1>4, Invariance, PTL DEF Spec, ImplementsSerialTurns, Serial!Spec
=============================================================================
