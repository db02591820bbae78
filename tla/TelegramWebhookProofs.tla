----------------------- MODULE TelegramWebhookProofs -----------------------
(***************************************************************************)
(* Proofs about TelegramWebhook for any updates, users, senders, requests  *)
(* and number of faults, whether posts overlap or not.                     *)
(***************************************************************************)
EXTENDS TelegramWebhook, TLAPS

-----------------------------------------------------------------------------
(* Requests *)

LEMMA IdlePost == NoPost \notin Post /\ NoPost.pc = "idle"
  BY DEF NoPost, Post

\* A request that is running has all its fields, and knows what it should.
LEMMA Running ==
    ASSUME Inv, NEW r \in Request, posts[r].pc # "idle"
    PROVE  posts[r] \in Post /\ posts[r] # NoPost /\ PostOK(posts[r])
  BY DEF Inv, TypeOK, NoPost

\* Going on changes the request's place and nothing else of it.
LEMMA GoesOn ==
    ASSUME Inv, NEW r \in Request, posts[r] \in Post, NEW pc \in PC \ {"idle"}, Goto(r, pc)
    PROVE  LET post == [posts[r] EXCEPT !.pc = pc] IN
           /\ posts' = [posts EXCEPT ![r] = post]
           /\ post \in Post /\ post # NoPost
           /\ post.pc = pc /\ post.update = posts[r].update
           /\ post.update \in Update
  BY IdlePost DEF Goto, Inv, TypeOK, Post

\* The same, with what stays of the other requests, for steps that write.
LEMMA GoesOnTo ==
    ASSUME Inv, NEW r \in Request, posts[r] \in Post, NEW pc \in PC \ {"idle"}, Goto(r, pc),
           NEW u, u = posts[r].update
    PROVE  \E post \in Post : /\ posts' = [posts EXCEPT ![r] = post]
                              /\ post.pc = pc /\ post.update = u /\ post # NoPost
                              /\ \A q \in Request \ {r} : posts'[q] = posts[q]
  <1> DEFINE post == [posts[r] EXCEPT !.pc = pc]
  <1>1. /\ posts' = [posts EXCEPT ![r] = post] /\ post \in Post /\ post # NoPost
        /\ post.pc = pc /\ post.update = u
    BY GoesOn
  <1>2. \A q \in Request \ {r} : posts'[q] = posts[q]
    BY <1>1 DEF Inv, TypeOK
  <1> QED
    BY <1>1, <1>2

\* The request's part of the type invariant.
LEMMA PostsTyped ==
    ASSUME Inv, NEW r \in Request, NEW post \in Post \cup {NoPost},
           posts' = [posts EXCEPT ![r] = post], post # NoPost => post.pc # "idle"
    PROVE  /\ posts' \in [Request -> Post \cup {NoPost}]
           /\ \A q \in Request : posts'[q] # NoPost => posts'[q].pc # "idle"
           /\ posts'[r] = post
           /\ \A q \in Request \ {r} : posts'[q] = posts[q]
  BY DEF Inv, TypeOK

\* A step of r about the update u keeps the invariant if it keeps it for u.
LEMMA AboutOneUpdate ==
    ASSUME Inv, NEW r \in Request, NEW u \in Update, NEW post \in Post \cup {NoPost},
           posts' = [posts EXCEPT ![r] = post],
           post # NoPost => post.update = u,
           post.pc \in {"turn", "graph", "save", "create"} =>
               \A q \in Request \ {r} : Turning(q) => posts[q].update # u,
           TypeOK',
           \A v \in Update \ {u} : /\ commands'[v] = commands[v] /\ sent'[v] = sent[v]
                                   /\ deliveries'[v] = deliveries[v]
                                   /\ v \in processed' <=> v \in processed,
           UpdateOK(u)',
           post # NoPost => PostOK(post)',
           \A q \in Request \ {r} : posts[q] # NoPost /\ posts[q].update = u => PostOK(posts[q])'
    PROVE  Inv'
  <1>1. posts'[r] = post /\ \A q \in Request \ {r} : posts'[q] = posts[q]
    BY DEF Inv, TypeOK
  <1>2. OneTurn'
    BY <1>1, IdlePost DEF Inv, OneTurn, Turning
  <1>3. ASSUME NEW v \in Update PROVE UpdateOK(v)'
    BY DEF Inv, UpdateOK
  <1>4. ASSUME NEW q \in Request, posts'[q] # NoPost PROVE PostOK(posts[q])'
    <2>1. CASE q = r
      BY <1>1, <1>4, <2>1 DEF PostOK
    <2>2. CASE q # r /\ posts[q].update = u
      BY <1>1, <1>4, <2>2 DEF PostOK
    <2>3. CASE q # r /\ posts[q].update # u
      <3>1. posts'[q] = posts[q] /\ posts[q].update \in Update /\ PostOK(posts[q])
        BY <1>1, <1>4, <2>3 DEF Inv, TypeOK, Post
      <3> QED
        BY <2>3, <3>1 DEF PostOK
    <2> QED
      BY <2>1, <2>2, <2>3
  <1> QED
    BY <1>2, <1>3, <1>4 DEF Inv

\* A step of r that leaves the update tables and the user alone.
LEMMA Quiet ==
    ASSUME Inv, NEW r \in Request, NEW post \in Post \cup {NoPost},
           posts' = [posts EXCEPT ![r] = post],
           post # NoPost => post.pc # "idle" /\ PostOK(post),
           post.pc \in {"turn", "graph", "save", "create"} =>
               Turning(r) /\ posts[r].update = post.update,
           UNCHANGED <<processed, deliveries, commands, sent>>,
           acknowledged' \subseteq Update,
           versions' \in [User -> Nat],
           faults' \in 0 .. MaxFaults
    PROVE  Inv'
  <1>1. posts'[r] = post /\ \A q \in Request \ {r} : posts'[q] = posts[q]
    BY DEF Inv, TypeOK
  <1>2. TypeOK'
    BY PostsTyped DEF Inv, TypeOK
  <1>3. OneTurn'
    BY <1>1, IdlePost DEF Inv, OneTurn, Turning
  <1>4. ASSUME NEW v \in Update PROVE UpdateOK(v)'
    BY DEF Inv, UpdateOK
  <1>5. ASSUME NEW q \in Request, posts'[q] # NoPost PROVE PostOK(posts[q])'
    <2>1. CASE q = r
      BY <1>1, <1>5, <2>1 DEF PostOK
    <2>2. CASE q # r
      BY <1>1, <1>5, <2>2 DEF Inv, PostOK
    <2> QED
      BY <2>1, <2>2
  <1> QED
    BY <1>2, <1>3, <1>4, <1>5 DEF Inv

-----------------------------------------------------------------------------
(* The steps that leave the update's tables alone *)

LEMMA InvInit == Init => Inv
  BY BoundsAssumption DEF Init, Inv, TypeOK, OneTurn, Turning, UpdateOK, NoPost, NoDelivery, Delivery

LEMMA FaultTyped == ASSUME Inv, NEW r \in Request, Fault(r) PROVE faults' \in 0 .. MaxFaults
  BY BoundsAssumption DEF Fault, Inv, TypeOK

LEMMA ReceiveInv ==
    ASSUME Inv, NEW r \in Request, NEW u \in Update, Receive(r, u)
    PROVE  Inv'
  <1> DEFINE post == [pc |-> IF u \in Buttons THEN "callback" ELSE "ingest",
                      update |-> u, expected |-> 0]
  <1>1. post \in Post /\ post.pc \in {"callback", "ingest"} /\ PostOK(post)
    BY DEF Post, PC, PostOK
  <1>2. posts' = [posts EXCEPT ![r] = post]
    BY DEF Receive
  <1>3. UNCHANGED <<acknowledged, processed, deliveries, versions, commands, sent, faults>>
    BY DEF Receive, tables
  <1> HIDE DEF post
  <1> QED
    BY <1>1, <1>2, <1>3, Quiet DEF Inv, TypeOK

\* The end of a request, with or without a fault.
LEMMA FailInv ==
    ASSUME Inv, NEW r \in Request, Fail(r),
           UNCHANGED <<processed, deliveries, commands, sent>>, UNCHANGED versions,
           UNCHANGED acknowledged, UNCHANGED faults \/ Fault(r)
    PROVE  Inv'
  <1>1. faults' \in 0 .. MaxFaults
    BY FaultTyped DEF Inv, TypeOK
  <1> QED
    BY <1>1, Quiet, IdlePost DEF Fail, Inv, TypeOK

\* The next place of a request that is not in its turn.
LEMMA PassInv ==
    ASSUME Inv, NEW r \in Request, posts[r] \in Post, NEW pc \in PC \ {"idle"}, Goto(r, pc),
           pc \notin {"turn", "graph", "save", "create"},
           PostOK([posts[r] EXCEPT !.pc = pc]),
           UNCHANGED <<processed, deliveries, commands, sent>>, UNCHANGED versions,
           UNCHANGED acknowledged, UNCHANGED faults
    PROVE  Inv'
  <1> DEFINE post == [posts[r] EXCEPT !.pc = pc]
  <1>1. post \in Post /\ post.pc = pc /\ posts' = [posts EXCEPT ![r] = post]
    BY GoesOn
  <1>2. PostOK(post)
    OBVIOUS
  <1> HIDE DEF post
  <1> QED
    BY <1>1, <1>2, Quiet DEF Inv, TypeOK

LEMMA AnswerCallbackInv == ASSUME Inv, NEW r \in Request, AnswerCallback(r) PROVE Inv'
  <1>1. posts[r] \in Post /\ UNCHANGED <<acknowledged, processed, deliveries, versions, commands, sent>>
    BY Running DEF AnswerCallback, At, tables
  <1>2. CASE Goto(r, "ingest") /\ UNCHANGED <<faults, interrupted>>
    BY <1>1, <1>2, PassInv DEF PC, PostOK, Post
  <1>3. CASE Fail(r) /\ Fault(r)
    BY <1>1, <1>3, FailInv
  <1> QED
    BY <1>2, <1>3 DEF AnswerCallback

LEMMA FindPendingInv == ASSUME Inv, NEW r \in Request, FindPending(r) PROVE Inv'
  <1>1. /\ posts[r] \in Post
        /\ UNCHANGED <<acknowledged, processed, deliveries, versions, commands, sent, faults>>
    BY Running DEF FindPending, tables
  <1>2. CASE deliveries[posts[r].update].status # "pending"
    <2>0. posts[r].update \in processed
      <3>1. posts[r].update \in Update /\ posts[r].pc \in {"duplicate", "retry"} /\ PostOK(posts[r])
        BY Running DEF FindPending, Post
      <3> QED
        BY <3>1 DEF PostOK, Inv, TypeOK, UpdateOK
    <2>1. Goto(r, "accept") /\ PostOK([posts[r] EXCEPT !.pc = "accept"])
      BY <1>1, <1>2, <2>0 DEF FindPending, PostOK, Post
    <2> QED
      BY <1>1, <2>1, PassInv DEF PC
  <1>3. CASE deliveries[posts[r].update].status = "pending" /\ At(r, "duplicate")
    <2>1. Goto(r, "retry") /\ PostOK([posts[r] EXCEPT !.pc = "retry"])
      BY <1>1, <1>3 DEF FindPending, PostOK, Post
    <2> QED
      BY <1>1, <2>1, PassInv DEF PC
  <1>4. CASE deliveries[posts[r].update].status = "pending" /\ ~At(r, "duplicate")
    <2>1. Goto(r, "attempt") /\ PostOK([posts[r] EXCEPT !.pc = "attempt"])
      BY <1>1, <1>4 DEF FindPending, PostOK, Post
    <2> QED
      BY <1>1, <2>1, PassInv DEF PC
  <1> QED
    BY <1>2, <1>3, <1>4

LEMMA CrashInv == ASSUME Inv, NEW r \in Request, Crash(r) PROVE Inv'
  BY FailInv DEF Crash, tables

LEMMA AcceptInv == ASSUME Inv, NEW r \in Request, Accept(r) PROVE Inv'
  <1>1. posts[r].update \in Update
    BY Running DEF Accept, At, Post
  <1>2. acknowledged' \subseteq Update
    BY <1>1 DEF Accept, Inv, TypeOK
  <1> QED
    BY <1>2, Quiet, IdlePost DEF Accept, tables, Inv, TypeOK

\* A turn is taken for a linked user.
LEMMA ThreadTyped == ASSUME Inv, NEW r \in Request, Turning(r) PROVE Thread(r) \in User
  <1>1. posts[r].update \in processed /\ posts[r].update \in Update
    BY Running DEF Turning, PostOK, Post
  <1> QED
    BY <1>1, SenderAssumption DEF Inv, UpdateOK, Thread

LEMMA GetCheckpointInv == ASSUME Inv, NEW r \in Request, GetCheckpoint(r) PROVE Inv'
  <1> DEFINE post == [posts[r] EXCEPT !.pc = "graph", !.expected = versions[Thread(r)]]
  <1>1. posts[r] \in Post /\ posts[r].pc = "turn" /\ PostOK(posts[r])
    BY Running DEF GetCheckpoint, At
  <1>2. Thread(r) \in User
    BY <1>1, ThreadTyped DEF Turning
  <1>3. post \in Post /\ post.pc = "graph" /\ post.update = posts[r].update
    BY <1>1, <1>2 DEF Post, PC, Inv, TypeOK
  <1>4. PostOK(post)
    BY <1>1, <1>3 DEF PostOK
  <1>5. posts' = [posts EXCEPT ![r] = post]
    BY DEF GetCheckpoint, Inv, TypeOK
  <1>6. Turning(r) /\ UNCHANGED <<acknowledged, processed, deliveries, versions, commands, sent, faults>>
    BY <1>1 DEF GetCheckpoint, tables, Turning
  <1> HIDE DEF post
  <1> QED
    BY <1>3, <1>4, <1>5, <1>6, Quiet DEF Inv, TypeOK

LEMMA SaveCheckpointInv == ASSUME Inv, NEW r \in Request, SaveCheckpoint(r) PROVE Inv'
  <1>1. posts[r] \in Post /\ posts[r].pc = "save" /\ PostOK(posts[r])
    BY Running DEF SaveCheckpoint, At
  <1>2. UNCHANGED <<acknowledged, processed, deliveries, commands, sent, faults>>
    BY DEF SaveCheckpoint
  <1>3. CASE versions' = [versions EXCEPT ![Thread(r)] = @ + 1] /\ Goto(r, "create")
    <2> DEFINE post == [posts[r] EXCEPT !.pc = "create"]
    <2>1. /\ post \in Post /\ post.pc = "create" /\ post.update = posts[r].update
          /\ posts' = [posts EXCEPT ![r] = post]
      BY <1>1, <1>3, GoesOn DEF PC
    <2>2. PostOK(post) /\ Turning(r)
      BY <1>1, <2>1 DEF PostOK, Turning
    <2>3. versions' \in [User -> Nat]
      BY <1>1, <1>3, ThreadTyped DEF Inv, TypeOK, Turning
    <2> HIDE DEF post
    <2> QED
      BY <1>2, <2>1, <2>2, <2>3, Quiet DEF Inv, TypeOK
  <1>4. CASE (Fail(r) \/ Raise(r)) /\ UNCHANGED versions
    BY <1>2, <1>4, FailInv DEF Raise
  <1> QED
    BY <1>3, <1>4 DEF SaveCheckpoint

-----------------------------------------------------------------------------
(* The steps that write *)

LEMMA IngestInv == ASSUME Inv, NEW r \in Request, Ingest(r) PROVE Inv'
  <1>1. PICK u \in Update : posts[r] \in Post /\ u = posts[r].update /\ posts[r].pc = "ingest"
    BY Running DEF Ingest, At, Post
  <1>2. UNCHANGED <<acknowledged, deliveries, versions, commands, sent, faults>>
    BY DEF Ingest
  <1>3. CASE Sender[u] = None /\ Goto(r, "accept") /\ UNCHANGED processed
    BY <1>1, <1>2, <1>3, PassInv DEF PC, PostOK, Post
  <1>4. CASE ~IsNew(u) /\ Goto(r, "duplicate") /\ UNCHANGED processed
    BY <1>1, <1>2, <1>4, PassInv DEF PC, PostOK, Post, IsNew
  <1>5. CASE Sender[u] # None /\ IsNew(u) /\ processed' = processed \cup {u} /\ Goto(r, "turn")
    <2>1. PICK post \in Post : /\ posts' = [posts EXCEPT ![r] = post]
                               /\ post.pc = "turn" /\ post.update = u /\ post # NoPost
                               /\ \A q \in Request \ {r} : posts'[q] = posts[q]
      BY <1>1, <1>5, GoesOnTo DEF PC
    <2>2. commands[u] = 0 /\ deliveries[u].status = "none" /\ sent[u] = 0
      BY <1>1, <1>5 DEF Inv, TypeOK, UpdateOK, IsNew, Delivery
    <2>3. \A q \in Request : Turning(q) => posts[q].update # u
      BY <1>5, Running DEF Turning, PostOK, IsNew
    <2>4. TypeOK'
      BY <1>1, <1>2, <1>5, <2>1, PostsTyped DEF Inv, TypeOK
    <2>5. UpdateOK(u)'
      BY <1>1, <1>2, <1>5, <2>2 DEF Inv, UpdateOK
    <2>6. PostOK(post)'
      BY <1>2, <1>5, <2>1, <2>2 DEF PostOK
    <2>7. ASSUME NEW q \in Request \ {r}, posts[q] # NoPost PROVE PostOK(posts[q])'
      BY <1>2, <1>5, <2>1, <2>7 DEF Inv, PostOK
    <2> QED
      BY <1>1, <1>2, <1>5, <2>1, <2>3, <2>4, <2>5, <2>6, <2>7, AboutOneUpdate
  <1> QED
    BY <1>1, <1>3, <1>4, <1>5 DEF Ingest

LEMMA RunGraphInv == ASSUME Inv, NEW r \in Request, RunGraph(r) PROVE Inv'
  <1>1. PICK u \in Update : /\ posts[r] \in Post /\ u = posts[r].update
                           /\ posts[r].pc = "graph" /\ PostOK(posts[r])
    BY Running DEF RunGraph, At, Post
  <1>2. UNCHANGED <<acknowledged, processed, deliveries, versions, sent>>
    BY DEF RunGraph
  <1>3. CASE commands' = [commands EXCEPT ![u] = @ + 1] /\ Goto(r, "save") /\ UNCHANGED <<faults, interrupted>>
    <2>1. PICK post \in Post : /\ posts' = [posts EXCEPT ![r] = post]
                               /\ post.pc = "save" /\ post.update = u /\ post # NoPost
                               /\ \A q \in Request \ {r} : posts'[q] = posts[q]
      BY <1>1, <1>3, GoesOnTo DEF PC
    <2>2. u \in processed /\ deliveries[u].status = "none" /\ commands[u] = 0
      BY <1>1 DEF PostOK
    <2>3. \A q \in Request \ {r} : Turning(q) => posts[q].update # u
      BY <1>1 DEF Inv, OneTurn, Turning
    <2>4. commands'[u] = 1 /\ commands' \in [Update -> Nat]
          /\ \A v \in Update \ {u} : commands'[v] = commands[v]
      BY <1>1, <1>3, <2>2 DEF Inv, TypeOK
    <2>5. TypeOK'
      BY <1>2, <1>3, <2>1, <2>4, PostsTyped DEF Inv, TypeOK
    <2>6. UpdateOK(u)'
      BY <1>1, <1>2, <2>2, <2>4 DEF Inv, UpdateOK
    <2>7. PostOK(post)'
      BY <1>2, <2>1, <2>2, <2>4 DEF PostOK
    <2>8. ASSUME NEW q \in Request \ {r}, posts[q] # NoPost, posts[q].update = u
          PROVE  PostOK(posts[q])'
      <3>1. ~Turning(q) /\ PostOK(posts[q])
        BY <2>3, <2>8 DEF Inv
      <3> QED
        BY <1>2, <2>1, <2>4, <2>8, <3>1 DEF PostOK, Turning
    <2> QED
      BY <1>1, <1>2, <2>1, <2>3, <2>4, <2>5, <2>6, <2>7, <2>8, AboutOneUpdate
  <1>4. CASE Fail(r) /\ Fault(r) /\ UNCHANGED commands
    BY <1>2, <1>4, FailInv
  <1>5. CASE Raise(r) /\ UNCHANGED <<commands, faults, interrupted>>
    BY <1>2, <1>5, FailInv DEF Raise
  <1> QED
    BY <1>1, <1>3, <1>4, <1>5 DEF RunGraph

\* A step that rewrites the pending row of an update.
LEMMA RowInv ==
    ASSUME Inv, NEW r \in Request, NEW u \in Update, NEW row \in Delivery,
           NEW post \in Post \cup {NoPost},
           posts' = [posts EXCEPT ![r] = post],
           post # NoPost => /\ post.update = u
                            /\ post.pc \in {"send", "delivered", "accept"}
                            /\ post.pc = "delivered" => sent[u] > 0,
           UpdatePending(u, row),
           deliveries[u].status # "none", row.status # "none",
           row.status = "delivered" => sent[u] > 0 /\ ~row.error,
           row.attempts >= deliveries[u].attempts,
           post # NoPost /\ post.pc \in {"send", "delivered"} => deliveries'[u].attempts > 0,
           UNCHANGED <<acknowledged, processed, versions, commands, sent, faults>>
    PROVE  Inv'
  <1>1. deliveries[u] \in Delivery
    BY DEF Inv, TypeOK
  <1>2. /\ deliveries'[u] \in Delivery /\ deliveries'[u].status # "none"
        /\ deliveries'[u].attempts >= deliveries[u].attempts
        /\ deliveries'[u].status = "delivered" =>
              sent[u] > 0 /\ ~deliveries'[u].error
        /\ deliveries' \in [Update -> Delivery]
        /\ \A v \in Update \ {u} : deliveries'[v] = deliveries[v]
    <2>1. CASE deliveries[u].status = "pending"
      BY <1>1, <2>1 DEF UpdatePending, Inv, TypeOK, Delivery
    <2>2. CASE deliveries[u].status # "pending"
      BY <1>1, <2>2 DEF UpdatePending, Inv, TypeOK, Delivery, UpdateOK
    <2> QED
      BY <2>1, <2>2
  <1>3. /\ posts' \in [Request -> Post \cup {NoPost}]
        /\ \A q \in Request : posts'[q] # NoPost => posts'[q].pc # "idle"
        /\ posts'[r] = post
        /\ \A q \in Request \ {r} : posts'[q] = posts[q]
    BY PostsTyped
  <1>4. TypeOK'
    BY <1>2, <1>3 DEF Inv, TypeOK
  <1>5. deliveries[u].attempts \in Nat /\ deliveries'[u].attempts \in Nat
    BY <1>1, <1>2 DEF Delivery
  <1>6. UpdateOK(u)'
    <2>1. deliveries'[u] # NoDelivery
      BY <1>2 DEF NoDelivery
    <2> QED
      BY <1>2, <1>5, <2>1 DEF Inv, UpdateOK
  <1>7. post # NoPost => PostOK(post)'
    <2>1. u \in processed
      BY DEF Inv, TypeOK, UpdateOK
    <2> QED
      BY <1>2, <2>1 DEF PostOK
  <1>8. ASSUME NEW q \in Request \ {r}, posts[q] # NoPost, posts[q].update = u
        PROVE  PostOK(posts[q])'
    <2>1. PostOK(posts[q])
      BY <1>8 DEF Inv
    <2> QED
      BY <1>2, <1>3, <1>5, <1>8, <2>1 DEF PostOK
  <1>9. \A v \in Update \ {u} : /\ commands'[v] = commands[v] /\ sent'[v] = sent[v]
                                /\ deliveries'[v] = deliveries[v]
                                /\ v \in processed' <=> v \in processed
    BY <1>2
  <1>10. post # NoPost => post.update = u
    OBVIOUS
  <1>11. post.pc \notin {"turn", "graph", "save", "create"}
    BY IdlePost
  <1> QED
    BY <1>4, <1>6, <1>7, <1>8, <1>9, <1>10, <1>11, AboutOneUpdate

\* The response is stored.
LEMMA StorePendingInv ==
    ASSUME Inv, NEW r \in Request, CreatePending(r), Goto(r, "attempt"),
           deliveries' = [deliveries EXCEPT ![posts[r].update] =
                            [NoDelivery EXCEPT !.status = "pending"]]
    PROVE  Inv'
  <1> DEFINE row == [NoDelivery EXCEPT !.status = "pending"]
  <1>1. PICK u \in Update : /\ posts[r] \in Post /\ u = posts[r].update
                           /\ posts[r].pc = "create" /\ PostOK(posts[r])
    BY Running DEF CreatePending, At, Post
  <1>2. /\ deliveries' = [deliveries EXCEPT ![u] = row] /\ Goto(r, "attempt")
        /\ UNCHANGED <<acknowledged, processed, versions, commands, sent, faults>>
    BY <1>1 DEF CreatePending
  <1>3. PICK post \in Post : /\ posts' = [posts EXCEPT ![r] = post]
                             /\ post.pc = "attempt" /\ post.update = u /\ post # NoPost
                             /\ \A q \in Request \ {r} : posts'[q] = posts[q]
    BY <1>1, <1>2, GoesOnTo DEF PC
  <1>4. commands[u] = 1 /\ deliveries[u].status = "none" /\ sent[u] = 0
    BY <1>1 DEF PostOK, Inv, UpdateOK
  <1>5. row \in Delivery /\ row.status = "pending" /\ row # NoDelivery
    BY DEF NoDelivery, Delivery
  <1> HIDE DEF row
  <1>6. /\ deliveries'[u] = row /\ deliveries' \in [Update -> Delivery]
        /\ \A v \in Update \ {u} : deliveries'[v] = deliveries[v]
    BY <1>2, <1>5 DEF Inv, TypeOK
  <1>7. TypeOK'
    BY <1>2, <1>3, <1>6, PostsTyped DEF Inv, TypeOK
  <1>8. UpdateOK(u)'
    BY <1>2, <1>4, <1>5, <1>6 DEF Inv, UpdateOK
  <1>9. PostOK(post)'
    BY <1>3, <1>5, <1>6 DEF PostOK
  <1>10. ASSUME NEW q \in Request \ {r}, posts[q] # NoPost, posts[q].update = u
         PROVE  PostOK(posts[q])'
    <2>1. PostOK(posts[q]) /\ ~Turning(q)
      BY <1>1, <1>10 DEF Inv, OneTurn, Turning
    <2>2. posts[q].pc \notin {"send", "failed", "delivered"}
      BY <1>4, <1>10, <2>1 DEF PostOK
    <2> QED
      BY <1>2, <1>3, <1>5, <1>6, <1>10, <2>1, <2>2 DEF PostOK, Turning
  <1> QED
    BY <1>2, <1>3, <1>6, <1>7, <1>8, <1>9, <1>10, AboutOneUpdate

LEMMA CreatePendingInv == ASSUME Inv, NEW r \in Request, CreatePending(r) PROVE Inv'
  <1>1. UNCHANGED <<acknowledged, processed, versions, commands, sent, faults>>
    BY DEF CreatePending
  <1>2. CASE Raise(r) /\ UNCHANGED deliveries
    BY <1>1, <1>2, FailInv DEF Raise
  <1> QED
    BY <1>2, StorePendingInv DEF CreatePending

LEMMA MarkAttemptInv == ASSUME Inv, NEW r \in Request, MarkAttempt(r) PROVE Inv'
  <1>1. PICK u \in Update : /\ posts[r] \in Post /\ u = posts[r].update
                           /\ posts[r].pc = "attempt" /\ PostOK(posts[r])
    BY Running DEF MarkAttempt, At, Post
  <1>2. PICK row : /\ row = [deliveries[u] EXCEPT !.attempts = @ + 1, !.error = FALSE]
                   /\ UpdatePending(u, row) /\ Goto(r, "send")
    BY <1>1 DEF MarkAttempt
  <1>3. deliveries[u] \in Delivery /\ deliveries[u].status # "none"
    BY <1>1 DEF Inv, TypeOK, PostOK
  <1>4. row \in Delivery /\ row.status = deliveries[u].status /\ row.attempts > 0
        /\ row.attempts >= deliveries[u].attempts /\ row.error = FALSE
    <2>1. row = [status |-> deliveries[u].status, attempts |-> deliveries[u].attempts + 1,
                 error |-> FALSE]
      BY <1>2, <1>3 DEF Delivery
    <2>2. deliveries[u].attempts \in Nat /\ deliveries[u].status \in {"none", "pending", "delivered"}
      BY <1>3 DEF Delivery
    <2> QED
      BY <2>1, <2>2 DEF Delivery
  <1>5. deliveries'[u].attempts > 0
    <2>1. CASE deliveries[u].status = "pending"
      BY <1>2, <1>4, <2>1 DEF UpdatePending, Inv, TypeOK
    <2>2. CASE deliveries[u].status = "delivered"
      BY <1>2, <2>2 DEF UpdatePending, Inv, UpdateOK
    <2> QED
      BY <1>3, <2>1, <2>2 DEF Delivery
  <1>6. row.status = "delivered" => sent[u] > 0
    BY <1>4 DEF Inv, UpdateOK
  <1>7. PICK post \in Post : /\ posts' = [posts EXCEPT ![r] = post]
                             /\ post.pc = "send" /\ post.update = u
    BY <1>1, <1>2, GoesOnTo DEF PC
  <1>8. UNCHANGED <<acknowledged, processed, versions, commands, sent, faults>>
    BY DEF MarkAttempt
  <1> QED
    BY <1>2, <1>3, <1>4, <1>5, <1>6, <1>7, <1>8, RowInv

LEMMA MarkFailedInv == ASSUME Inv, NEW r \in Request, MarkFailed(r) PROVE Inv'
  <1>1. PICK u \in Update : /\ posts[r] \in Post /\ u = posts[r].update
                           /\ posts[r].pc = "failed" /\ PostOK(posts[r])
    BY Running DEF MarkFailed, At, Post
  <1>2. PICK row : /\ row = [deliveries[u] EXCEPT !.error = TRUE]
                   /\ UpdatePending(u, row) /\ Fail(r)
    BY <1>1 DEF MarkFailed
  <1>3. deliveries[u] \in Delivery /\ deliveries[u].status # "none"
    BY <1>1 DEF Inv, TypeOK, PostOK
  <1>4. row \in Delivery /\ row.status = deliveries[u].status
        /\ row.attempts = deliveries[u].attempts /\ row.attempts \in Nat
    BY <1>2, <1>3 DEF Delivery
  <1>5. UNCHANGED <<acknowledged, processed, versions, commands, sent, faults>>
    BY DEF MarkFailed
  <1>6. CASE deliveries[u].status = "pending"
    <2>1. row.status # "none" /\ row.status # "delivered"
          /\ row.attempts >= deliveries[u].attempts
      BY <1>4, <1>6
    <2>2. posts' = [posts EXCEPT ![r] = NoPost] /\ UpdatePending(u, row)
      BY <1>2 DEF Fail
    <2>3. NoPost \in Post \cup {NoPost}
      OBVIOUS
    <2> QED
      BY <1>3, <1>4, <1>5, <2>1, <2>2, <2>3, RowInv
  <1>7. CASE deliveries[u].status = "delivered"
    <2>1. UNCHANGED deliveries
      BY <1>2, <1>7 DEF UpdatePending
    <2> QED
      BY <1>2, <1>5, <2>1, FailInv
  <1> QED
    BY <1>3, <1>6, <1>7 DEF Delivery

LEMMA MarkDeliveredInv == ASSUME Inv, NEW r \in Request, MarkDelivered(r) PROVE Inv'
  <1>1. PICK u \in Update : /\ posts[r] \in Post /\ u = posts[r].update
                           /\ posts[r].pc = "delivered" /\ PostOK(posts[r])
    BY Running DEF MarkDelivered, At, Post
  <1>2. PICK row : /\ row = [deliveries[u] EXCEPT !.status = "delivered", !.error = FALSE]
                   /\ UpdatePending(u, row) /\ Goto(r, "accept")
    BY <1>1 DEF MarkDelivered
  <1>3. deliveries[u] \in Delivery /\ deliveries[u].status # "none" /\ sent[u] > 0
    BY <1>1 DEF Inv, TypeOK, PostOK
  <1>4. row \in Delivery /\ row.status = "delivered" /\ row.error = FALSE
        /\ row.attempts = deliveries[u].attempts /\ row.attempts \in Nat
    <2>1. row = [status |-> "delivered", attempts |-> deliveries[u].attempts, error |-> FALSE]
      BY <1>2, <1>3 DEF Delivery
    <2>2. deliveries[u].attempts \in Nat
      BY <1>3 DEF Delivery
    <2> QED
      BY <2>1, <2>2 DEF Delivery
  <1>5. PICK post \in Post : /\ posts' = [posts EXCEPT ![r] = post]
                             /\ post.pc = "accept" /\ post.update = u
    BY <1>1, <1>2, GoesOnTo DEF PC
  <1>6. UNCHANGED <<acknowledged, processed, versions, commands, sent, faults>>
    BY DEF MarkDelivered
  <1>7. row.attempts >= deliveries[u].attempts
    BY <1>4
  <1> QED
    BY <1>2, <1>3, <1>4, <1>5, <1>6, <1>7, RowInv

\* What becomes of sendMessage: it was answered, or it failed, seen or unseen.
LEMMA OutcomeInv ==
    ASSUME Inv, NEW r \in Request, NEW u \in Update, posts[r] \in Post, u = posts[r].update,
           posts[r].pc = "send", PostOK(posts[r]),
           NEW pc \in {"delivered", "failed"}, Goto(r, pc),
           sent' = [sent EXCEPT ![u] = @ + 1] \/ sent' = sent,
           pc = "delivered" => sent' = [sent EXCEPT ![u] = @ + 1],
           UNCHANGED faults \/ Fault(r),
           UNCHANGED <<acknowledged, processed, deliveries, versions, commands>>
    PROVE  Inv'
  <1>1. posts[r] \in Post /\ u = posts[r].update /\ PostOK(posts[r]) /\ posts[r].pc = "send"
    OBVIOUS
  <1>2. UNCHANGED <<acknowledged, processed, deliveries, versions, commands>>
    OBVIOUS
  <1>4. PICK post \in Post : /\ posts' = [posts EXCEPT ![r] = post]
                             /\ post.pc = pc /\ post.update = u /\ post # NoPost
                             /\ \A q \in Request \ {r} : posts'[q] = posts[q]
    BY <1>1, GoesOnTo DEF PC
  <1>5. faults' \in 0 .. MaxFaults
    BY FaultTyped DEF Inv, TypeOK
  <1>6. /\ sent' \in [Update -> Nat] /\ sent'[u] >= sent[u]
        /\ pc = "delivered" => sent'[u] > 0
        /\ \A v \in Update \ {u} : sent'[v] = sent[v]
    BY DEF Inv, TypeOK
  <1>7. deliveries[u].status # "none" /\ deliveries[u].attempts > 0
    BY <1>1 DEF PostOK
  <1>8. sent[u] \in Nat /\ sent'[u] \in Nat
    BY <1>6 DEF Inv, TypeOK
  <1>9. TypeOK'
    BY <1>2, <1>4, <1>5, <1>6, PostsTyped DEF Inv, TypeOK
  <1>10. UpdateOK(u)'
    BY <1>2, <1>6, <1>7, <1>8 DEF Inv, UpdateOK
  <1>11. PostOK(post)'
    BY <1>2, <1>4, <1>6, <1>7 DEF PostOK
  <1>12. ASSUME NEW q \in Request \ {r}, posts[q] # NoPost, posts[q].update = u
         PROVE  PostOK(posts[q])'
    <2>1. PostOK(posts[q])
      BY <1>12 DEF Inv
    <2> QED
      BY <1>2, <1>4, <1>6, <1>8, <1>12, <2>1 DEF PostOK
  <1> QED
    BY <1>2, <1>4, <1>6, <1>9, <1>10, <1>11, <1>12, AboutOneUpdate

LEMMA SendMessageInv == ASSUME Inv, NEW r \in Request, SendMessage(r) PROVE Inv'
  <1>1. PICK u \in Update : /\ posts[r] \in Post /\ u = posts[r].update
                           /\ posts[r].pc = "send" /\ PostOK(posts[r])
    BY Running DEF SendMessage, At, Post
  <1>2. UNCHANGED <<acknowledged, processed, deliveries, versions, commands>>
    BY DEF SendMessage, tables
  <1>3. CASE sent' = [sent EXCEPT ![u] = @ + 1] /\ Goto(r, "delivered") /\ UNCHANGED <<faults, interrupted>>
    BY <1>1, <1>2, <1>3, OutcomeInv
  <1>4. CASE sent' \in {sent, [sent EXCEPT ![u] = @ + 1]} /\ Goto(r, "failed") /\ Fault(r)
    BY <1>1, <1>2, <1>4, OutcomeInv
  <1> QED
    BY <1>1, <1>3, <1>4 DEF SendMessage

-----------------------------------------------------------------------------
(* Theorems *)

LEMMA InvNext == Inv /\ [Next]_vars => Inv'
  <1> SUFFICES ASSUME Inv, [Next]_vars PROVE Inv'
    OBVIOUS
  <1>1. CASE UNCHANGED vars
    BY <1>1 DEF vars, Inv, TypeOK, OneTurn, Turning, UpdateOK, PostOK
  <1>2. ASSUME NEW r \in Request, Step(r) PROVE Inv'
    BY <1>2, AnswerCallbackInv, IngestInv, FindPendingInv, GetCheckpointInv, RunGraphInv,
       SaveCheckpointInv, CreatePendingInv, MarkAttemptInv, SendMessageInv, MarkFailedInv,
       MarkDeliveredInv, AcceptInv DEF Step
  <1> QED
    BY <1>1, <1>2, CrashInv, ReceiveInv DEF Next

\* The invariant of the webhook: one request runs the turn of an update, and
\* every step knows how far its update has come.
THEOREM Invariance == Spec => []Inv
  BY InvInit, InvNext, PTL DEF Spec

\* The variables have the types of the tables and of the requests.
THEOREM TypeCorrect == Spec => []TypeOK
  <1>1. Inv => TypeOK
    BY DEF Inv
  <1> QED
    BY <1>1, Invariance, PTL

\* However often an update is posted, its command is executed at most once.
THEOREM AtMostOnce == Spec => []CommandAtMostOnce
  <1>1. Inv => CommandAtMostOnce
    <2> SUFFICES ASSUME Inv, NEW u \in Update PROVE commands[u] <= 1
      BY DEF CommandAtMostOnce
    <2>1. UpdateOK(u) /\ commands[u] \in Nat
      BY DEF Inv, TypeOK
    <2> QED
      BY <2>1 DEF UpdateOK
  <1> QED
    BY <1>1, Invariance, PTL

\* Nothing is shown before the command and the response are stored.
THEOREM StoredBeforeSent == Spec => []SentAfterCommit
  <1>1. Inv => SentAfterCommit
    <2> SUFFICES ASSUME Inv, NEW u \in Update, sent[u] > 0
                 PROVE  /\ Sender[u] # None /\ u \in processed
                        /\ commands[u] = 1 /\ deliveries[u].status # "none"
      BY DEF SentAfterCommit
    <2>1. UpdateOK(u) /\ sent[u] \in Nat
      BY DEF Inv, TypeOK
    <2> QED
      BY <2>1 DEF UpdateOK
  <1> QED
    BY <1>1, Invariance, PTL

\* The delivery row does not claim what Telegram has not shown.
THEOREM TrueDeliveries == Spec => []DeliveryIsTrue
  <1>1. Inv => DeliveryIsTrue
    BY DEF Inv, UpdateOK, DeliveryIsTrue
  <1> QED
    BY <1>1, Invariance, PTL

\* A delivered response stays delivered, whatever late requests do.
THEOREM Finality == Spec => DeliveredIsFinal
  <1> DEFINE Final == \A u \in Update :
                 deliveries[u].status = "delivered" => deliveries'[u] = deliveries[u]
  <1>1. ASSUME Inv, NEW v \in Update, NEW row, UpdatePending(v, row) PROVE Final
    BY <1>1 DEF UpdatePending, Inv, TypeOK
  <1>2. ASSUME Inv, NEW r \in Request, CreatePending(r) PROVE Final
    <2>1. posts[r].update \in Update /\ deliveries[posts[r].update].status = "none"
      BY <1>2, Running DEF CreatePending, At, PostOK, Post
    <2> QED
      BY <1>2, <2>1 DEF CreatePending, Inv, TypeOK
  <1>3. ASSUME Inv, NEW r \in Request, MarkAttempt(r) \/ MarkFailed(r) \/ MarkDelivered(r)
        PROVE  Final
    <2>1. posts[r].update \in Update
      BY <1>3, Running DEF MarkAttempt, MarkFailed, MarkDelivered, At, Post
    <2> QED
      BY <1>1, <1>3, <2>1 DEF MarkAttempt, MarkFailed, MarkDelivered
  <1>4. ASSUME Next
        PROVE  \/ UNCHANGED deliveries
               \/ \E r \in Request : \/ CreatePending(r) \/ MarkAttempt(r)
                                     \/ MarkFailed(r) \/ MarkDelivered(r)
    BY <1>4 DEF Next, Step, Receive, AnswerCallback, Ingest, FindPending, GetCheckpoint,
       RunGraph, SaveCheckpoint, SendMessage, Accept, Crash, tables
  <1>5. Inv /\ [Next]_vars => [Final]_vars
    <2> SUFFICES ASSUME Inv, [Next]_vars PROVE Final \/ UNCHANGED vars
      OBVIOUS
    <2> QED
      BY <1>2, <1>3, <1>4 DEF vars
  <1> QED
    BY <1>5, Invariance, PTL DEF Spec, DeliveredIsFinal

-----------------------------------------------------------------------------
(* What a step of one request leaves alone *)

\* A running request's step concerns its own update, and ends it or moves it on.
LEMMA OwnPost ==
    ASSUME Inv, NEW r \in Request, Step(r) \/ Crash(r)
    PROVE  /\ posts[r] \in Post /\ posts[r] # NoPost /\ posts[r].update \in Update
           /\ \A q \in Request \ {r} : posts'[q] = posts[q]
           /\ posts'[r] # NoPost => posts'[r].update = posts[r].update
  <1>1. posts \in [Request -> Post \cup {NoPost}]
    BY DEF Inv, TypeOK
  <1>2. posts[r].pc # "idle"
    BY DEF Step, Crash, AnswerCallback, Ingest, FindPending, GetCheckpoint, RunGraph,
           SaveCheckpoint, CreatePending, MarkAttempt, SendMessage, MarkFailed, MarkDelivered,
           Accept, At
  <1>3. posts[r] \in Post /\ posts[r] # NoPost /\ posts[r].update \in Update
    BY <1>2, Running DEF Post
  <1>4. \/ \E pc : Goto(r, pc)
        \/ Fail(r)
        \/ posts' = [posts EXCEPT ![r].pc = "graph", ![r].expected = versions[Thread(r)]]
    BY DEF Step, Crash, AnswerCallback, Ingest, FindPending, GetCheckpoint, RunGraph,
           SaveCheckpoint, CreatePending, MarkAttempt, SendMessage, MarkFailed, MarkDelivered,
           Accept, Fail, Raise
  <1>5. CASE \E pc : Goto(r, pc)
    BY <1>1, <1>3, <1>5 DEF Goto, Post
  <1>6. CASE Fail(r)
    BY <1>1, <1>3, <1>6 DEF Fail
  <1>7. CASE posts' = [posts EXCEPT ![r].pc = "graph", ![r].expected = versions[Thread(r)]]
    BY <1>1, <1>3, <1>7 DEF Post
  <1> QED
    BY <1>3, <1>4, <1>5, <1>6, <1>7

\* Who writes which table.
LEMMA OwnRows ==
    ASSUME Inv, NEW r \in Request, Step(r) \/ Crash(r)
    PROVE  /\ \A v \in Update \ {posts[r].update} : deliveries'[v] = deliveries[v]
           /\ \A v \in Update : commands'[v] >= commands[v]
           /\ \A v \in Update : deliveries[v].status # "none" => deliveries'[v].status # "none"
  <1> DEFINE u == posts[r].update
  <1>1. /\ commands \in [Update -> Nat] /\ deliveries \in [Update -> Delivery]
        /\ u \in Update
    BY OwnPost DEF Inv, TypeOK
  <1>2. CASE AnswerCallback(r) \/ Ingest(r) \/ FindPending(r) \/ GetCheckpoint(r)
             \/ SaveCheckpoint(r) \/ SendMessage(r) \/ Accept(r) \/ Crash(r)
    BY <1>1, <1>2 DEF AnswerCallback, Ingest, FindPending, GetCheckpoint, SaveCheckpoint,
       SendMessage, Accept, Crash, Fault, tables
  <1>3. CASE RunGraph(r)
    BY <1>1, <1>3 DEF RunGraph, Fault, Raise
  <1>4. CASE CreatePending(r)
    BY <1>1, <1>4 DEF CreatePending, NoDelivery
  <1>5. CASE MarkAttempt(r) \/ MarkFailed(r) \/ MarkDelivered(r)
    <2>1. UNCHANGED commands
      BY <1>5 DEF MarkAttempt, MarkFailed, MarkDelivered
    <2>2. \E row : UpdatePending(u, row) /\ row.status # "none"
      <3>1. u \in Update /\ posts[r].pc \in {"attempt", "failed", "delivered"} /\ PostOK(posts[r])
        BY <1>5, Running, OwnPost DEF MarkAttempt, MarkFailed, MarkDelivered, At
      <3>2. deliveries[u].status # "none" /\ deliveries[u] \in Delivery
        BY <1>1, <3>1 DEF PostOK
      <3>3. CASE MarkAttempt(r)
        <4> DEFINE row == [deliveries[u] EXCEPT !.attempts = @ + 1, !.error = FALSE]
        <4>1. row.status = deliveries[u].status
          BY <3>2 DEF Delivery
        <4>2. UpdatePending(u, row)
          BY <3>3 DEF MarkAttempt
        <4> HIDE DEF row
        <4> QED
          BY <3>2, <4>1, <4>2
      <3>4. CASE MarkFailed(r)
        <4> DEFINE row == [deliveries[u] EXCEPT !.error = TRUE]
        <4>1. row.status = deliveries[u].status
          BY <3>2 DEF Delivery
        <4>2. UpdatePending(u, row)
          BY <3>4 DEF MarkFailed
        <4> HIDE DEF row
        <4> QED
          BY <3>2, <4>1, <4>2
      <3>5. CASE MarkDelivered(r)
        <4> DEFINE row == [deliveries[u] EXCEPT !.status = "delivered", !.error = FALSE]
        <4>1. row.status = "delivered"
          BY <3>2 DEF Delivery
        <4>2. UpdatePending(u, row)
          BY <3>5 DEF MarkDelivered
        <4> HIDE DEF row
        <4> QED
          BY <3>2, <4>1, <4>2
      <3> QED
        BY <1>5, <3>3, <3>4, <3>5
    <2> QED
      BY <1>1, <2>1, <2>2 DEF UpdatePending
  <1> QED
    BY <1>2, <1>3, <1>4, <1>5 DEF Step

\* A request's next place tells its step.
LEMMA OnlySteps ==
    ASSUME Inv, NEW r \in Request, Step(r) \/ Crash(r)
    PROVE  /\ acknowledged' # acknowledged => Accept(r)
           /\ versions' # versions => SaveCheckpoint(r)
           /\ processed' # processed => Ingest(r)
           /\ posts'[r].pc = "accept" => Ingest(r) \/ FindPending(r) \/ MarkDelivered(r)
           /\ posts'[r].pc = "graph" => GetCheckpoint(r)
           /\ posts'[r].pc = "save" => RunGraph(r)
  <1>1. posts \in [Request -> Post \cup {NoPost}] /\ posts[r] \in Post
    BY OwnPost DEF Inv, TypeOK
  <1>2. CASE AnswerCallback(r) \/ Accept(r) \/ Crash(r)
    BY <1>1, <1>2 DEF AnswerCallback, Accept, Crash, Goto, Fail, NoPost, Post, tables
  <1>3. CASE Ingest(r) \/ FindPending(r)
    BY <1>1, <1>3 DEF Ingest, FindPending, Goto, NoPost, Post, tables
  <1>4. CASE GetCheckpoint(r)
    BY <1>1, <1>4 DEF GetCheckpoint, Post, tables
  <1>5. CASE RunGraph(r) \/ SaveCheckpoint(r) \/ CreatePending(r)
    BY <1>1, <1>5 DEF RunGraph, SaveCheckpoint, CreatePending, Goto, Fail, Raise, NoPost, Post
  <1>6. CASE MarkAttempt(r) \/ SendMessage(r) \/ MarkFailed(r) \/ MarkDelivered(r)
    BY <1>1, <1>6 DEF MarkAttempt, SendMessage, MarkFailed, MarkDelivered, Goto, Fail, NoPost,
       Post, tables
  <1> QED
    BY <1>2, <1>3, <1>4, <1>5, <1>6 DEF Step

-----------------------------------------------------------------------------
(* What is acknowledged is delivered *)

LEMMA ReceivePosting ==
    ASSUME Inv, PostingInv, NEW r \in Request, NEW u \in Update, Receive(r, u)
    PROVE  PostingInv'
  <1>1. /\ posts'[r].update = u /\ posts'[r].pc \in {"callback", "ingest"}
        /\ \A q \in Request \ {r} : posts'[q] = posts[q]
        /\ u \notin acknowledged /\ (u \in Overlapped \/ ~Handled(u))
        /\ UNCHANGED <<acknowledged, deliveries>>
    BY DEF Receive, Inv, TypeOK, tables
  <1>2. OnePost'
    BY <1>1 DEF PostingInv, OnePost, Handled, Inv, TypeOK
  <1>3. NoPostAfterwards'
    BY <1>1 DEF PostingInv, NoPostAfterwards, Handled
  <1>4. AcceptedIsDelivered' /\ AcknowledgedIsDelivered'
    BY <1>1 DEF PostingInv, AcceptedIsDelivered, AcknowledgedIsDelivered, At
  <1> QED
    BY <1>2, <1>3, <1>4 DEF PostingInv

LEMMA StepPosting ==
    ASSUME Inv, PostingInv, NEW r \in Request, Step(r) \/ Crash(r)
    PROVE  PostingInv'
  <1> DEFINE u == posts[r].update
  <1>1. /\ posts[r] # NoPost /\ posts[r].pc # "idle" /\ u \in Update
        /\ \A q \in Request \ {r} : posts'[q] = posts[q]
        /\ posts'[r] # NoPost => posts'[r].update = u
        /\ NoPost.pc = "idle"
    BY OwnPost, IdlePost DEF Inv, TypeOK
  <1>2. OnePost'
    BY <1>1 DEF PostingInv, OnePost
  <1>3. \A q \in Request : posts'[q].pc # "idle" => posts[q].pc # "idle" /\ posts'[q].update = posts[q].update
    BY <1>1
  <1>4. ASSUME u \notin Overlapped
        PROVE  /\ \A q \in Request \ {r} : posts[q].pc # "idle" => posts[q].update # u
               /\ u \notin acknowledged
    BY <1>1, <1>4 DEF PostingInv, OnePost, NoPostAfterwards, Handled
  <1>5. CASE acknowledged' = acknowledged
    <2>1. NoPostAfterwards'
      BY <1>3, <1>5 DEF PostingInv, NoPostAfterwards, Handled
    <2>2. AcknowledgedIsDelivered'
      BY <1>4, <1>5, OwnRows DEF PostingInv, AcknowledgedIsDelivered, Inv, TypeOK
    <2> QED
      <3>1. ASSUME NEW q \in Request, posts'[q].pc = "accept", posts'[q].update \notin Overlapped
            PROVE  deliveries'[posts'[q].update].status # "pending"
        <4>1. CASE q # r
          <5>1. posts'[q] = posts[q] /\ posts[q].update \in Update /\ posts[q].update # u
            BY <1>1, <1>4, <3>1, <4>1, Running DEF Post, PostingInv, OnePost
          <5> QED
            BY <3>1, <5>1, OwnRows DEF PostingInv, AcceptedIsDelivered, At
        <4>2. CASE q = r /\ Ingest(r)
          <5>1. posts'[r].update = u /\ UNCHANGED deliveries
            BY <1>1, <3>1, <4>2 DEF Ingest
          <5>2. Sender[u] = None
            BY <1>1, <3>1, <4>2, OwnPost DEF Ingest, Goto, Inv, TypeOK, Post
          <5>3. deliveries[u].status = "none"
            BY <1>1, <5>2 DEF Inv, UpdateOK, TypeOK
          <5> QED
            BY <4>2, <5>1, <5>3
        <4>3. CASE q = r /\ FindPending(r)
          <5>1. posts'[r].update = u /\ UNCHANGED deliveries
            BY <1>1, <3>1, <4>3 DEF FindPending, tables
          <5>2. deliveries[u].status # "pending"
            BY <1>1, <3>1, <4>3, OwnPost DEF FindPending, Goto, Inv, TypeOK, Post
          <5> QED
            BY <4>3, <5>1, <5>2
        <4>4. CASE q = r /\ MarkDelivered(r)
          <5>1. posts'[r].update = u
            BY <1>1, <3>1, <4>4
          <5>2. deliveries'[u].status # "pending"
            BY <1>1, <4>4 DEF MarkDelivered, UpdatePending, Inv, TypeOK, Delivery
          <5> QED
            BY <4>4, <5>1, <5>2
        <4> QED
          BY <3>1, <4>1, <4>2, <4>3, <4>4, OnlySteps
      <3>2. AcceptedIsDelivered'
        BY <3>1 DEF AcceptedIsDelivered, At
      <3> QED
        BY <1>2, <2>1, <2>2, <3>2 DEF PostingInv
  <1>6. CASE Accept(r)
    <2>1. /\ posts[r].pc = "accept" /\ posts'[r] = NoPost /\ acknowledged' = acknowledged \cup {u}
          /\ UNCHANGED deliveries
      BY <1>6 DEF Accept, At, tables, Inv, TypeOK
    <2>2. NoPostAfterwards'
      BY <1>1, <1>3, <1>4, <2>1 DEF PostingInv, NoPostAfterwards, Handled
    <2>3. AcceptedIsDelivered'
      BY <1>1, <2>1 DEF PostingInv, AcceptedIsDelivered, At
    <2>4. AcknowledgedIsDelivered'
      BY <2>1 DEF PostingInv, AcknowledgedIsDelivered, AcceptedIsDelivered, At
    <2> QED
      BY <1>2, <2>2, <2>3, <2>4 DEF PostingInv
  <1> QED
    BY <1>5, <1>6, OnlySteps

\* The posts of one update, and what their ends leave: the invariant that the
\* acknowledgements rest on, beside that of the webhook.
THEOREM PostingInvariance == Spec => []PostingInv
  <1>1. Init => PostingInv
    BY DEF Init, PostingInv, OnePost, NoPostAfterwards, AcceptedIsDelivered,
           AcknowledgedIsDelivered, NoPost, At
  <1>2. Inv /\ PostingInv /\ [Next]_vars => PostingInv'
    <2> SUFFICES ASSUME Inv, PostingInv, [Next]_vars PROVE PostingInv'
      OBVIOUS
    <2>1. CASE UNCHANGED vars
      BY <2>1 DEF vars, PostingInv, OnePost, NoPostAfterwards, AcceptedIsDelivered,
                  AcknowledgedIsDelivered, At, Handled
    <2> QED
      BY <2>1, ReceivePosting, StepPosting DEF Next
  <1> QED
    BY <1>1, <1>2, Invariance, PTL DEF Spec

\* Telegram's last word on an update is given only when nothing of it is left to send.
THEOREM DeliveredOnceAcknowledged == Spec => []AcknowledgedIsDelivered
  <1>1. PostingInv => AcknowledgedIsDelivered
    BY DEF PostingInv
  <1> QED
    BY <1>1, PostingInvariance, PTL

-----------------------------------------------------------------------------
(* What is lost has a cause *)

\* What the history has told of an update stays told, and it tells of no other
\* update than a recorded one.
LEMMA HistoryNext ==
    ASSUME Inv, HistoryOK, NEW r \in Request, Step(r) \/ Crash(r)
    PROVE  /\ HistoryOK'
           /\ interrupted \subseteq interrupted' /\ overtaken \subseteq overtaken'
  <1> DEFINE u == posts[r].update
  <1>1. processed \subseteq processed'
    BY DEF Step, Crash, AnswerCallback, Ingest, FindPending, GetCheckpoint, RunGraph,
           SaveCheckpoint, CreatePending, MarkAttempt, SendMessage, MarkFailed, MarkDelivered,
           Accept, tables
  <1>2. \A q \in Request : Turning(q) => posts[q].update \in processed
    BY Running DEF Turning, PostOK
  <1>3. CASE SaveCheckpoint(r)
    <2>1. UNCHANGED <<processed, interrupted>>
      BY <1>3 DEF SaveCheckpoint
    <2>2. overtaken' \in {overtaken, overtaken \cup {posts[q].update : q \in Beside(r)}}
      BY <1>3 DEF SaveCheckpoint
    <2>3. \A q \in Beside(r) : posts[q].update \in processed
      BY <1>2 DEF Beside, Turning
    <2> QED
      BY <2>1, <2>2, <2>3 DEF HistoryOK
  <1>4. CASE ~SaveCheckpoint(r)
    <2>1. UNCHANGED overtaken /\ (UNCHANGED interrupted \/ Fault(r))
      BY <1>4 DEF Step, Crash, AnswerCallback, Ingest, FindPending, GetCheckpoint, RunGraph,
             CreatePending, MarkAttempt, SendMessage, MarkFailed, MarkDelivered, Accept, history
    <2> QED
      BY <1>1, <1>2, <2>1 DEF HistoryOK, Fault
  <1> QED
    BY <1>3, <1>4

\* The turn that saves first overtakes the others of its user.
LEMMA SaverOvertakes ==
    ASSUME NEW r \in Request, SaveCheckpoint(r), versions' # versions,
           NEW q \in Request \ {r}, posts[q].pc \in {"graph", "save"}, Thread(q) = Thread(r)
    PROVE  posts[q].update \in overtaken'
  <1>1. overtaken' = overtaken \cup {posts[p].update : p \in Beside(r)}
    BY DEF SaveCheckpoint
  <1> QED
    BY <1>1 DEF Beside

LEMMA ExpectedNext ==
    ASSUME Inv, HistoryOK, ExpectedOK, NEW r \in Request, Step(r) \/ Crash(r)
    PROVE  ExpectedOK'
  <1> SUFFICES ASSUME NEW q \in Request, posts'[q].pc \in {"graph", "save"}
               PROVE  /\ posts'[q].expected <= versions'[Thread(q)']
                      /\ posts'[q].expected < versions'[Thread(q)']
                            => posts'[q].update \in overtaken'
    BY DEF ExpectedOK
  <1>0. /\ posts \in [Request -> Post \cup {NoPost}] /\ versions \in [User -> Nat]
        /\ overtaken \subseteq overtaken'
    BY HistoryNext DEF Inv, TypeOK
  <1>1. ASSUME q # r
        PROVE  /\ posts'[q] = posts[q] /\ posts[q].expected \in Nat /\ Thread(q)' = Thread(q)
               /\ posts[q].expected <= versions[Thread(q)]
               /\ posts[q].expected < versions[Thread(q)] => posts[q].update \in overtaken
    <2>1. posts'[q] = posts[q]
      BY <1>1, OwnPost
    <2> QED
      BY <2>1, Running DEF Thread, Post, ExpectedOK
  <1>2. CASE q # r /\ UNCHANGED versions
    BY <1>0, <1>1, <1>2
  <1>3. CASE q # r /\ SaveCheckpoint(r) /\ versions' # versions
    <2>1. Thread(q) \in User /\ Thread(r) \in User
      BY <1>1, <1>3, ThreadTyped DEF Turning, SaveCheckpoint, At
    <2>2. versions' = [versions EXCEPT ![Thread(r)] = @ + 1]
      BY <1>3 DEF SaveCheckpoint
    <2>3. CASE Thread(q) = Thread(r)
      <3>1. posts[q].update \in overtaken'
        BY <1>1, <1>3, <2>3, SaverOvertakes
      <3> QED
        BY <1>0, <1>1, <1>3, <2>1, <2>2, <2>3, <3>1
    <2>4. CASE Thread(q) # Thread(r)
      <3>1. versions'[Thread(q)] = versions[Thread(q)]
        BY <1>0, <2>1, <2>2, <2>4
      <3> QED
        BY <1>0, <1>1, <1>3, <3>1
    <2> QED
      BY <2>3, <2>4
  <1>4. CASE q = r /\ GetCheckpoint(r)
    <2>1. posts[r].pc = "turn" /\ posts[r] \in Post /\ Thread(r) \in User
      BY <1>4, OwnPost, ThreadTyped DEF GetCheckpoint, At, Turning
    <2>2. posts'[r].expected = versions[Thread(r)] /\ posts'[r].update = posts[r].update
          /\ UNCHANGED versions
      BY <1>0, <1>4, <2>1 DEF GetCheckpoint, tables, Post
    <2>3. Thread(r)' = Thread(r)
      BY <2>2 DEF Thread
    <2> QED
      BY <1>0, <1>4, <2>1, <2>2, <2>3
  <1>5. CASE q = r /\ RunGraph(r)
    <2>1. posts[r].pc = "graph" /\ posts[r] \in Post /\ UNCHANGED versions
      BY <1>5, OwnPost DEF RunGraph, At
    <2>2. posts'[r].expected = posts[r].expected /\ posts'[r].update = posts[r].update
      BY <1>0, <1>5, <2>1, IdlePost DEF RunGraph, Goto, Fail, Raise, Post
    <2>3. Thread(r)' = Thread(r)
      BY <2>2 DEF Thread
    <2>4. /\ posts[r].expected <= versions[Thread(r)]
          /\ posts[r].expected < versions[Thread(r)] => posts[r].update \in overtaken
      BY <2>1 DEF ExpectedOK
    <2> QED
      BY <1>0, <1>5, <2>1, <2>2, <2>3, <2>4
  <1> QED
    BY <1>2, <1>3, <1>4, <1>5, OnlySteps

\* A turn ends without a response only by a fault, by itself or by a conflict.
LEMMA TurnLost ==
    ASSUME Inv, ExpectedOK, NEW r \in Request, Step(r) \/ Crash(r), Turning(r), ~Turning(r)',
           deliveries'[posts[r].update].status = "none"
    PROVE  posts[r].update \in interrupted' \cup Erring \cup overtaken
  <1>0. /\ posts \in [Request -> Post \cup {NoPost}] /\ posts[r] \in Post
        /\ posts[r].update \in Update /\ Thread(r) \in User /\ deliveries \in [Update -> Delivery]
        /\ versions \in [User -> Nat]
    BY OwnPost, ThreadTyped DEF Inv, TypeOK
  <1>1. Fault(r) => posts[r].update \in interrupted'
    BY DEF Fault
  <1>2. Raise(r) => posts[r].update \in Erring
    BY DEF Raise
  <1>3. CASE Crash(r)
    BY <1>1, <1>3 DEF Crash
  <1>4. CASE GetCheckpoint(r)
    BY <1>0, <1>4 DEF GetCheckpoint, Turning, Post
  <1>5. CASE RunGraph(r)
    BY <1>0, <1>1, <1>2, <1>5 DEF RunGraph, Goto, Turning, Post
  <1>6. CASE SaveCheckpoint(r) /\ ~Raise(r)
    <2>1. posts[r].pc = "save" /\ versions[Thread(r)] # posts[r].expected
      BY <1>0, <1>6 DEF SaveCheckpoint, At, Goto, Turning, Post
    <2>2. posts[r].expected <= versions[Thread(r)]
          /\ (posts[r].expected < versions[Thread(r)] => posts[r].update \in overtaken)
      BY <2>1 DEF ExpectedOK
    <2>3. posts[r].expected \in Nat /\ versions[Thread(r)] \in Nat
      BY <1>0 DEF Post
    <2> QED
      BY <2>1, <2>2, <2>3
  <1>7. CASE CreatePending(r) /\ ~Raise(r)
    <2>1. deliveries'[posts[r].update].status = "pending"
      BY <1>0, <1>7 DEF CreatePending, NoDelivery
    <2> QED
      BY <2>1
  <1>8. ~(\/ AnswerCallback(r) \/ Ingest(r) \/ FindPending(r) \/ MarkAttempt(r) \/ SendMessage(r)
          \/ MarkFailed(r) \/ MarkDelivered(r) \/ Accept(r))
    BY DEF Turning, AnswerCallback, Ingest, FindPending, MarkAttempt, SendMessage, MarkFailed,
           MarkDelivered, Accept, At
  <1> QED
    BY <1>2, <1>3, <1>4, <1>5, <1>6, <1>7, <1>8 DEF Step

LEMMA LossNext ==
    ASSUME Inv, LossInv, NEW r \in Request, Step(r) \/ Crash(r)
    PROVE  LossHasCause'
  <1> SUFFICES ASSUME NEW u \in Update, Lost(u)'
               PROVE  u \in interrupted' \cup Erring \cup overtaken'
    BY DEF LossHasCause
  <1>0. interrupted \subseteq interrupted' /\ overtaken \subseteq overtaken'
    BY HistoryNext DEF LossInv
  <1>1. CASE Lost(u)
    BY <1>0, <1>1 DEF LossInv, LossHasCause
  <1>2. deliveries[u].status = "none" /\ deliveries'[u].status = "none" /\ u \in processed'
    BY OwnRows DEF Lost
  <1>3. CASE u \notin processed
    <2>1. Ingest(r)
      BY <1>2, <1>3, OnlySteps
    <2>2. posts[r].update = u /\ Goto(r, "turn") /\ posts[r] \in Post
      BY <1>2, <1>3, <2>1, OwnPost DEF Ingest
    <2>3. Turning(r)' /\ posts'[r].update = u
      BY <2>2 DEF Goto, Turning, Post, Inv, TypeOK
    <2> QED
      BY <2>3 DEF Lost
  <1>4. CASE u \in processed /\ ~Lost(u)
    <2>1. PICK q \in Request : Turning(q) /\ posts[q].update = u
      BY <1>2, <1>4 DEF Lost
    <2>2. q = r
      <3>1. ASSUME q # r PROVE FALSE
        <4>1. posts'[q] = posts[q]
          BY <3>1, OwnPost
        <4> QED
          BY <2>1, <4>1 DEF Lost, Turning
      <3> QED
        BY <3>1
    <2>3. ~Turning(r)'
      <3>1. Turning(r)' => posts'[r].update = u
        BY <2>1, <2>2, OwnPost, IdlePost DEF Turning
      <3> QED
        BY <3>1 DEF Lost
    <2> QED
      BY <1>0, <1>2, <2>1, <2>2, <2>3, TurnLost DEF LossInv
  <1> QED
    BY <1>1, <1>3, <1>4

LEMMA ReceiveLoss ==
    ASSUME Inv, LossInv, NEW r \in Request, NEW u \in Update, Receive(r, u)
    PROVE  LossInv'
  <1>1. /\ posts'[r].pc \in {"callback", "ingest"} /\ posts[r].pc = "idle"
        /\ \A q \in Request \ {r} : posts'[q] = posts[q]
        /\ UNCHANGED <<processed, deliveries, versions, interrupted, overtaken>>
    BY DEF Receive, At, Inv, TypeOK, tables, history
  <1>2. ExpectedOK'
    BY <1>1 DEF LossInv, ExpectedOK, Thread
  <1>3. \A v \in Update : Lost(v)' => Lost(v)
    BY <1>1 DEF Lost, Turning
  <1> QED
    BY <1>1, <1>2, <1>3 DEF LossInv, LossHasCause, HistoryOK

\* How far a turn may be behind its thread, and why an update was lost: the
\* invariant beside that of the webhook.
THEOREM LossInvariance == Spec => []LossInv
  <1>1. Init => LossInv
    BY DEF Init, LossInv, HistoryOK, ExpectedOK, LossHasCause, Lost, NoPost
  <1>2. Inv /\ LossInv /\ [Next]_vars => LossInv'
    <2> SUFFICES ASSUME Inv, LossInv, [Next]_vars PROVE LossInv'
      OBVIOUS
    <2>1. CASE UNCHANGED vars
      BY <2>1 DEF vars, LossInv, HistoryOK, ExpectedOK, LossHasCause, Lost, Turning, Thread
    <2>2. ASSUME NEW r \in Request, Step(r) \/ Crash(r) PROVE LossInv'
      BY <2>2, HistoryNext, ExpectedNext, LossNext DEF LossInv
    <2> QED
      BY <2>1, <2>2, ReceiveLoss DEF Next
  <1> QED
    BY <1>1, <1>2, Invariance, PTL DEF Spec

\* Nothing is lost but by a fault in its turn, by a turn that raises by itself, or by
\* another turn of the same user that was saved while this one ran.
THEOREM LossesHaveCauses == Spec => []LossHasCause
  <1>1. LossInv => LossHasCause
    BY DEF LossInv
  <1> QED
    BY <1>1, LossInvariance, PTL

-----------------------------------------------------------------------------
(* TelegramWebhook implements TelegramOutbox *)

LEMMA OutboxInit == Init => Outbox!Init
  BY DEF Init, Outbox!Init, Stage

\* A step that takes one update from one stage to the next.
LEMMA Advances ==
    ASSUME NEW u \in Update, NEW from, NEW to, Stage(u) = from, Stage(u)' = to,
           \A v \in Update \ {u} : Stage(v)' = Stage(v), UNCHANGED <<sent, acknowledged>>
    PROVE  Outbox!Advance(u, from, to)
  BY DEF Outbox!Advance

\* A step that touches nothing an update's stage depends on.
LEMMA StagesStay ==
    ASSUME UNCHANGED <<processed, deliveries, commands>>
    PROVE  [u \in Update |-> Stage(u)]' = [u \in Update |-> Stage(u)]
  BY DEF Stage

LEMMA OutboxStutters ==
    ASSUME UNCHANGED <<processed, deliveries, commands, sent, acknowledged>>
    PROVE  UNCHANGED Outbox!ovars
  BY StagesStay DEF Outbox!ovars

\* An attempt or a failure changes no status; a delivery takes "stored" to "delivered".
LEMMA RowAdvances ==
    ASSUME Inv, NEW u \in Update, NEW row \in Delivery, UpdatePending(u, row),
           deliveries[u].status # "none", row.status \in {deliveries[u].status, "delivered"},
           row.status = "delivered" => sent[u] > 0,
           UNCHANGED <<acknowledged, processed, commands, sent>>
    PROVE  Outbox!Deliver(u) \/ UNCHANGED Outbox!ovars
  <1>1. UpdateOK(u) /\ deliveries[u].status \in {"pending", "delivered"}
    BY DEF Inv, TypeOK, Delivery
  <1>2. u \in processed /\ commands[u] # 0
    BY <1>1 DEF UpdateOK
  <1>3. \A v \in Update \ {u} : Stage(v)' = Stage(v)
    BY DEF UpdatePending, Stage, Inv, TypeOK
  <1>4. CASE deliveries[u].status = "pending" /\ row.status = "delivered"
    <2>1. Stage(u) = "stored" /\ Stage(u)' = "delivered"
      BY <1>2, <1>4 DEF Stage, UpdatePending, Inv, TypeOK
    <2> QED
      BY <1>3, <1>4, <2>1, Advances DEF Outbox!Deliver
  <1>5. CASE ~(deliveries[u].status = "pending" /\ row.status = "delivered")
    <2>1. deliveries'[u].status = deliveries[u].status
      BY <1>1, <1>5 DEF UpdatePending, Inv, TypeOK
    <2>2. Stage(u)' = Stage(u)
      BY <2>1 DEF Stage
    <2> QED
      BY <1>3, <2>2 DEF Outbox!ovars
  <1> QED
    BY <1>4, <1>5

LEMMA StepMaps == ASSUME Inv, NEW r \in Request, Step(r) PROVE [Outbox!Next]_(Outbox!ovars)
  <1> DEFINE u == posts[r].update
  <1>1. CASE \/ AnswerCallback(r) \/ FindPending(r) \/ GetCheckpoint(r) \/ SaveCheckpoint(r)
             \/ CreatePending(r) /\ UNCHANGED deliveries
    BY <1>1, OutboxStutters
    DEF AnswerCallback, FindPending, GetCheckpoint, SaveCheckpoint, CreatePending, tables
  <1>2. CASE Ingest(r)
    <2>1. u \in Update
      BY <1>2, Running DEF Ingest, At, Post
    <2>2. CASE UNCHANGED processed
      BY <1>2, <2>2, OutboxStutters DEF Ingest
    <2>3. CASE Sender[u] # None /\ IsNew(u) /\ processed' = processed \cup {u}
      <3>1. PICK v \in Update : v = u
        BY <2>1
      <3>2. commands[v] = 0
        BY <2>3, <3>1 DEF Inv, TypeOK, UpdateOK, IsNew
      <3>3. Stage(v) = "new" /\ Stage(v)' = "recorded"
        BY <1>2, <2>3, <3>1, <3>2 DEF Ingest, Stage, IsNew
      <3>4. \A w \in Update \ {v} : Stage(w)' = Stage(w)
        BY <1>2, <2>3, <3>1 DEF Ingest, Stage
      <3>5. Outbox!Record(v)
        BY <1>2, <2>3, <3>1, <3>3, <3>4, Advances DEF Ingest, Outbox!Record
      <3> QED
        BY <3>5 DEF Outbox!Next
    <2> QED
      BY <1>2, <2>2, <2>3 DEF Ingest
  <1>3. CASE RunGraph(r)
    <2>1. PICK v \in Update : /\ v = u /\ posts[r].pc = "graph" /\ PostOK(posts[r])
      BY <1>3, Running DEF RunGraph, At, Post
    <2>2. CASE UNCHANGED commands
      BY <1>3, <2>2, OutboxStutters DEF RunGraph
    <2>3. CASE commands' = [commands EXCEPT ![u] = @ + 1]
      <3>1. v \in processed /\ commands[v] = 0 /\ deliveries[v].status = "none"
        BY <2>1 DEF PostOK
      <3>2. commands'[v] = 1 /\ \A w \in Update \ {v} : commands'[w] = commands[w]
        BY <2>1, <2>3, <3>1 DEF Inv, TypeOK
      <3>3. Stage(v) = "recorded" /\ Stage(v)' = "executed"
        BY <1>3, <3>1, <3>2 DEF RunGraph, Stage
      <3>4. \A w \in Update \ {v} : Stage(w)' = Stage(w)
        BY <1>3, <3>2 DEF RunGraph, Stage
      <3>5. Outbox!Execute(v)
        BY <1>3, <3>3, <3>4, Advances DEF RunGraph, Outbox!Execute
      <3> QED
        BY <3>5 DEF Outbox!Next
    <2> QED
      BY <1>3, <2>2, <2>3 DEF RunGraph
  <1>4. CASE CreatePending(r) /\ ~UNCHANGED deliveries
    <2>1. PICK v \in Update : /\ v = u /\ posts[r].pc = "create" /\ PostOK(posts[r])
      BY <1>4, Running DEF CreatePending, At, Post
    <2>2. v \in processed /\ commands[v] = 1 /\ deliveries[v].status = "none"
      BY <2>1 DEF PostOK
    <2>3. /\ deliveries'[v].status = "pending"
          /\ \A w \in Update \ {v} : deliveries'[w] = deliveries[w]
      BY <1>4, <2>1 DEF CreatePending, Inv, TypeOK, NoDelivery
    <2>4. Stage(v) = "executed" /\ Stage(v)' = "stored"
      BY <1>4, <2>2, <2>3 DEF CreatePending, Stage
    <2>5. \A w \in Update \ {v} : Stage(w)' = Stage(w)
      BY <1>4, <2>3 DEF CreatePending, Stage
    <2>6. Outbox!Store(v)
      BY <1>4, <2>4, <2>5, Advances DEF CreatePending, Outbox!Store
    <2> QED
      BY <2>6 DEF Outbox!Next
  <1>5. CASE MarkAttempt(r)
    <2>1. PICK v \in Update : /\ v = u /\ posts[r].pc = "attempt" /\ PostOK(posts[r])
      BY <1>5, Running DEF MarkAttempt, At, Post
    <2>2. deliveries[v] \in Delivery /\ deliveries[v].status # "none"
      BY <2>1 DEF PostOK, Inv, TypeOK
    <2>3. PICK row : row = [deliveries[v] EXCEPT !.attempts = @ + 1, !.error = FALSE]
      OBVIOUS
    <2>4. row = [status |-> deliveries[v].status, attempts |-> deliveries[v].attempts + 1,
                 error |-> FALSE]
      BY <2>2, <2>3 DEF Delivery
    <2>5. row \in Delivery /\ row.status = deliveries[v].status
      BY <2>2, <2>4 DEF Delivery
    <2>6. row.status = "delivered" => sent[v] > 0
      BY <2>5 DEF Inv, UpdateOK
    <2>7. UpdatePending(v, row) /\ UNCHANGED <<acknowledged, processed, commands, sent>>
      BY <1>5, <2>1, <2>3 DEF MarkAttempt
    <2> QED
      BY <2>2, <2>5, <2>6, <2>7, RowAdvances DEF Outbox!Next
  <1>6. CASE SendMessage(r)
    <2>1. PICK v \in Update : /\ v = u /\ posts[r].pc = "send" /\ PostOK(posts[r])
      BY <1>6, Running DEF SendMessage, At, Post
    <2>2. UNCHANGED <<processed, deliveries, commands, acknowledged>>
      BY <1>6 DEF SendMessage, tables
    <2>3. CASE sent' = sent
      BY <2>2, <2>3, OutboxStutters
    <2>4. CASE sent' = [sent EXCEPT ![v] = @ + 1]
      <3>1. deliveries[v].status # "none" /\ deliveries[v] \in Delivery /\ UpdateOK(v)
        BY <2>1 DEF PostOK, Inv, TypeOK
      <3>2. Stage(v) \in {"stored", "delivered"}
        BY <3>1 DEF UpdateOK, Stage, Delivery
      <3>3. Outbox!Show(v)
        BY <2>2, <2>4, <3>2, StagesStay DEF Outbox!Show
      <3> QED
        BY <3>3 DEF Outbox!Next
    <2> QED
      BY <1>6, <2>1, <2>3, <2>4 DEF SendMessage
  <1>7. CASE MarkFailed(r)
    <2>1. PICK v \in Update : /\ v = u /\ posts[r].pc = "failed" /\ PostOK(posts[r])
      BY <1>7, Running DEF MarkFailed, At, Post
    <2> DEFINE row == [deliveries[v] EXCEPT !.error = TRUE]
    <2>2. deliveries[v] \in Delivery /\ deliveries[v].status # "none"
      BY <2>1 DEF PostOK, Inv, TypeOK
    <2>3. row \in Delivery /\ row.status = deliveries[v].status
      BY <2>2 DEF Delivery
    <2>4. row.status = "delivered" => sent[v] > 0
      BY <2>3 DEF Inv, UpdateOK
    <2>5. UpdatePending(v, row) /\ UNCHANGED <<acknowledged, processed, commands, sent>>
      BY <1>7, <2>1 DEF MarkFailed
    <2> HIDE DEF row
    <2> QED
      BY <2>2, <2>3, <2>4, <2>5, RowAdvances DEF Outbox!Next
  <1>8. CASE MarkDelivered(r)
    <2>1. PICK v \in Update : /\ v = u /\ posts[r].pc = "delivered" /\ PostOK(posts[r])
      BY <1>8, Running DEF MarkDelivered, At, Post
    <2> DEFINE row == [deliveries[v] EXCEPT !.status = "delivered", !.error = FALSE]
    <2>2. /\ deliveries[v] \in Delivery /\ deliveries[v].status # "none" /\ sent[v] > 0
      BY <2>1 DEF PostOK, Inv, TypeOK
    <2>3. row \in Delivery /\ row.status = "delivered"
      BY <2>2 DEF Delivery
    <2>4. UpdatePending(v, row) /\ UNCHANGED <<acknowledged, processed, commands, sent>>
      BY <1>8, <2>1 DEF MarkDelivered
    <2> HIDE DEF row
    <2> QED
      BY <2>2, <2>3, <2>4, RowAdvances DEF Outbox!Next
  <1>9. CASE Accept(r)
    <2>1. PICK v \in Update : /\ v = u /\ posts[r].pc = "accept" /\ PostOK(posts[r])
      BY <1>9, Running DEF Accept, At, Post
    <2>2. Sender[v] # None => Stage(v) # "new"
      BY <2>1 DEF PostOK, Stage, Inv, TypeOK, Delivery
    <2>3. Outbox!Acknowledge(v)
      BY <1>9, <2>1, <2>2, StagesStay DEF Accept, tables, Outbox!Acknowledge
    <2> QED
      BY <2>3 DEF Outbox!Next
  <1> QED
    BY <1>1, <1>2, <1>3, <1>4, <1>5, <1>6, <1>7, <1>8, <1>9 DEF Step

\* An update is recorded, executed, stored and delivered once, in this order,
\* shown only when stored and acknowledged only when recorded, whatever fails.
THEOREM Refinement == Spec => ImplementsOutbox
  <1>1. Inv /\ [Next]_vars => [Outbox!Next]_(Outbox!ovars)
    <2> SUFFICES ASSUME Inv, [Next]_vars PROVE [Outbox!Next]_(Outbox!ovars)
      OBVIOUS
    <2>1. CASE UNCHANGED vars
      BY <2>1, OutboxStutters DEF vars
    <2>2. ASSUME NEW r \in Request, Crash(r) \/ \E u \in Update : Receive(r, u)
          PROVE  UNCHANGED Outbox!ovars
      BY <2>2, OutboxStutters DEF Crash, Receive, tables
    <2> QED
      BY <2>1, <2>2, StepMaps DEF Next
  <1> QED
    BY <1>1, OutboxInit, Invariance, PTL DEF Spec, ImplementsOutbox, Outbox!Spec
=============================================================================
