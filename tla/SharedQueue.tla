--------------------------- MODULE SharedQueue ---------------------------
(***************************************************************************)
(* The doubly linked queues of the lock table, store by store.  A process  *)
(* may die between any two stores while it holds the lock table mutex; the *)
(* next one to acquire it finds in the secondary header (shb) what to undo *)
(* or to complete.  Stores become visible in the order of the program; the *)
(* CHECKs of remove_que are not compiled into release builds.              *)
(***************************************************************************)
EXTENDS Naturals, Sequences, FiniteSets

CONSTANTS
  Heads,         \* heads of queues
  Items,         \* nodes
  Nil,
  Marks,         \* what acquirers store in lhb_active_owner: "owner", "dummy"
  CrashPoints,   \* the marks and stores with which a process may die
  Purged         \* the stores at which a death is followed by a purge of its node

Nodes == Heads \cup Items

\* A store is named for its place in insert_tail, remove_que and the recovery
\* of an insertion; "in" is the holder of the mutex between two operations.
InsertSteps  == {"i1", "i2", "i3", "i4", "i5", "i6", "i7", "i8"}
RemoveSteps  == {"r1", "r2", "r3", "r4", "r5", "r6"}
RecoverSteps == {"c0", "c1", "c2", "c3", "c4"}
Steps == InsertSteps \cup RemoveSteps \cup RecoverSteps \cup {"in"}

ASSUME QueueAssumption ==
  /\ IsFiniteSet(Items)
  /\ Heads \cap Items = {} /\ Nil \notin Nodes
  /\ Marks \subseteq {"owner", "dummy"}
  /\ CrashPoints \subseteq Marks \X Steps
  /\ Purged \subseteq InsertSteps \cup RemoveSteps

VARIABLES
  srq_forward, srq_backward,
  shb_remove_node, shb_insert_que, shb_insert_prior,
  lhb_active_owner,   \* "none", or how the holder of the mutex is marked
  pc,                 \* the next store of the holder, or "out" if there is none
  que, node,          \* operands of the operation in progress
  left,               \* nodes of interrupted operations, with the store missed
  content             \* history: the queues when a holder last was at "in"

shb == <<shb_remove_node, shb_insert_que, shb_insert_prior>>
links == <<srq_forward, srq_backward>>
vars == <<links, shb, lhb_active_owner, pc, que, node, left, content>>

\* The items of a queue as a walk along srq_forward finds them, cut short where
\* it cannot come back to the head any more.
Walk(forward, h) ==
  LET at[n \in 0 .. Cardinality(Items) + 1] == IF n = 0 THEN h ELSE forward[at[n - 1]]
      ends == {n \in 1 .. Cardinality(Items) + 1 : at[n] = h}
      len == IF ends = {} THEN Cardinality(Items)
             ELSE (CHOOSE n \in ends : \A m \in ends : n <= m) - 1
  IN  [n \in 1 .. len |-> at[n]]

InQueue(n) == \E h \in Heads : \E i \in DOMAIN content[h] : content[h][i] = n

Init ==
  /\ srq_forward = [n \in Nodes |-> n]
  /\ srq_backward = [n \in Nodes |-> n]
  /\ shb_remove_node = Nil /\ shb_insert_que = Nil /\ shb_insert_prior = Nil
  /\ lhb_active_owner = "none"
  /\ pc = "out"
  /\ que = Nil /\ node = Nil
  /\ left = {}
  /\ content = [h \in Heads |-> << >>]

--------------------------------------------------------------------------
Goto(step) == pc' = step /\ UNCHANGED <<que, node, content>>

\* The operation is over: the holder is between two operations.
Return ==
  /\ pc' = "in"
  /\ que' = Nil /\ node' = Nil
  /\ content' = [h \in Heads |-> Walk(srq_forward', h)]

Forward(n, to) == srq_forward' = [srq_forward EXCEPT ![n] = to] /\ UNCHANGED srq_backward
Backward(n, to) == srq_backward' = [srq_backward EXCEPT ![n] = to] /\ UNCHANGED srq_forward

\* The stores of insert_tail(que, node).
insert_tail ==
  /\ UNCHANGED <<lhb_active_owner, left, shb_remove_node>>
  /\ \/ /\ pc = "i1" /\ Goto("i2")
        /\ shb_insert_que' = que /\ UNCHANGED <<links, shb_insert_prior>>
     \/ /\ pc = "i2" /\ Goto("i3")
        /\ shb_insert_prior' = srq_backward[que] /\ UNCHANGED <<links, shb_insert_que>>
     \/ /\ pc = "i3" /\ Goto("i4")
        /\ Forward(node, que) /\ UNCHANGED shb
     \/ /\ pc = "i4" /\ Goto("i5")
        /\ Backward(node, srq_backward[que]) /\ UNCHANGED shb
     \/ /\ pc = "i5" /\ Goto("i6")
        /\ Forward(srq_backward[que], node) /\ UNCHANGED shb
     \/ /\ pc = "i6" /\ Goto("i7")
        /\ Backward(que, node) /\ UNCHANGED shb
     \/ /\ pc = "i7" /\ Goto("i8")
        /\ shb_insert_que' = Nil /\ UNCHANGED <<links, shb_insert_prior>>
     \/ /\ pc = "i8"
        /\ shb_insert_prior' = Nil /\ UNCHANGED <<links, shb_insert_que>>
        /\ Return

\* Mutant of remove_que: the links of the removed node are left as they are.
remove_que_stale ==
  /\ UNCHANGED <<lhb_active_owner, left, shb_insert_que, shb_insert_prior>>
  /\ \/ /\ pc = "r1" /\ Goto("r2")
        /\ shb_remove_node' = node /\ UNCHANGED links
     \/ /\ pc = "r2" /\ Goto("r3")
        /\ Backward(srq_forward[node], srq_backward[node]) /\ UNCHANGED shb_remove_node
     \/ /\ pc = "r3" /\ Goto("r4")
        /\ Forward(srq_backward[node], srq_forward[node]) /\ UNCHANGED shb_remove_node
     \/ /\ pc = "r4"
        /\ shb_remove_node' = Nil /\ UNCHANGED links
        /\ Return

\* The stores of remove_que(node).
remove_que ==
  /\ UNCHANGED <<lhb_active_owner, left, shb_insert_que, shb_insert_prior>>
  /\ \/ /\ pc = "r1" /\ Goto("r2")
        /\ shb_remove_node' = node /\ UNCHANGED links
     \/ /\ pc = "r2" /\ Goto("r3")
        /\ Backward(srq_forward[node], srq_backward[node]) /\ UNCHANGED shb_remove_node
     \/ /\ pc = "r3" /\ Goto("r4")
        /\ Forward(srq_backward[node], srq_forward[node]) /\ UNCHANGED shb_remove_node
     \/ /\ pc = "r4" /\ Goto("r5")
        /\ shb_remove_node' = Nil /\ UNCHANGED links
     \/ /\ pc = "r5" /\ Goto("r6")
        /\ Backward(node, node) /\ UNCHANGED shb_remove_node
     \/ /\ pc = "r6"
        /\ Forward(node, node) /\ UNCHANGED shb_remove_node
        /\ Return

--------------------------------------------------------------------------
(* The mutex.                                                             *)

\* Mutant of acquire_shmem: nobody looks at what the dead have left.
acquire_shmem_blind(mark) ==
  /\ pc = "out"
  /\ lhb_active_owner' = mark
  /\ UNCHANGED <<links, shb, left>>
  /\ Return

\* acquire_shmem: whoever finds an owner marked recovers what it left.  Waiting
\* for the mutex, and mapping a file that was replaced or has grown, do not touch
\* the queues.
acquire_shmem(mark) ==
  /\ pc = "out"
  /\ lhb_active_owner' = mark
  /\ UNCHANGED <<links, shb, left>>
  /\ IF lhb_active_owner = "owner" THEN Goto("c0") ELSE Return

\* The recovery: a removal is done again, an insertion undone.
recover ==
  /\ UNCHANGED <<lhb_active_owner, left, shb_remove_node>>
  /\ \/ /\ pc = "c0" /\ shb_remove_node # Nil
        /\ pc' = "r1" /\ node' = shb_remove_node
        /\ UNCHANGED <<links, shb_insert_que, shb_insert_prior, que, content>>
     \/ /\ pc = "c0" /\ shb_remove_node = Nil
        /\ UNCHANGED <<links, shb_insert_que, shb_insert_prior>>
        /\ IF shb_insert_que # Nil /\ shb_insert_prior # Nil THEN Goto("c1") ELSE Return
     \/ /\ pc = "c1" /\ Goto("c2")
        /\ Backward(shb_insert_que, shb_insert_prior)
        /\ UNCHANGED <<shb_insert_que, shb_insert_prior>>
     \/ /\ pc = "c2" /\ Goto("c3")
        /\ Forward(shb_insert_prior, shb_insert_que)
        /\ UNCHANGED <<shb_insert_que, shb_insert_prior>>
     \/ /\ pc = "c3" /\ Goto("c4")
        /\ shb_insert_que' = Nil /\ UNCHANGED <<links, shb_insert_prior>>
     \/ /\ pc = "c4"
        /\ shb_insert_prior' = Nil /\ UNCHANGED <<links, shb_insert_que>>
        /\ Return

\* LockTableGuard::setOwner: the holder knows by now for whom it works.
SetOwner ==
  /\ pc = "in" /\ lhb_active_owner = "dummy" /\ "owner" \in Marks
  /\ lhb_active_owner' = "owner"
  /\ UNCHANGED <<links, shb, pc, que, node, left, content>>

release_shmem ==
  /\ pc = "in"
  /\ lhb_active_owner' = "none"
  /\ pc' = "out"
  /\ UNCHANGED <<links, shb, que, node, left, content>>

--------------------------------------------------------------------------
(* What holders do to the queues.                                         *)

Begin(step, h, n) ==
  /\ pc = "in"
  /\ pc' = step /\ que' = h /\ node' = n
  /\ UNCHANGED <<links, shb, lhb_active_owner, content>>

\* The node belongs to an owner that died while it moved it.
Left(n) == \E step \in Steps : <<n, step>> \in left

Insert(h, n) == ~InQueue(n) /\ ~Left(n) /\ Begin("i1", h, n) /\ UNCHANGED left
Remove(n) == InQueue(n) /\ ~Left(n) /\ Begin("r1", Nil, n) /\ UNCHANGED left

\* release_request for a request that its dead owner had begun to take off the
\* queue of the lock, or to put there: the request is still in own_requests.
PurgeNode(n) ==
  \E step \in Purged :
    <<n, step>> \in left /\ Begin("r1", Nil, n) /\ left' = left \ {<<n, step>>}

\* The holder dies and the system frees the mutex.
Die ==
  /\ <<lhb_active_owner, pc>> \in CrashPoints
  /\ pc' = "out"
  /\ left' = IF pc \in InsertSteps \cup RemoveSteps
             THEN {x \in left : x[1] # node} \cup {<<node, pc>>} ELSE left
  /\ UNCHANGED <<links, shb, lhb_active_owner, que, node, content>>

Next ==
  \/ \E mark \in Marks : acquire_shmem(mark)
  \/ \E n \in Items : Remove(n) \/ PurgeNode(n) \/ \E h \in Heads : Insert(h, n)
  \/ insert_tail \/ remove_que \/ recover \/ SetOwner \/ release_shmem \/ Die

Spec == Init /\ [][Next]_vars

--------------------------------------------------------------------------
(* Properties.                                                            *)

\* Whenever a holder of the mutex is about to use the queues, every node of every
\* queue is where its neighbours say: no death between two stores of insert_tail,
\* remove_que or the recovery itself leaves a torn queue behind.
QueuesSound ==
  pc = "in" =>
    \A h \in Heads :
      LET q == Walk(srq_forward, h)
          on == {q[i] : i \in DOMAIN q} \cup {h}
      IN  \A n \in on : srq_forward[n] \in on /\ srq_backward[srq_forward[n]] = n

\* From one holder's view of the queues to the next only the node of the operation
\* in progress joins the tail of a queue or leaves one, completely or not at all:
\* an interrupted operation is undone or completed, and a completed one stays.
AtomicQueues ==
  [][content' # content =>
       \E h \in Heads :
         \/ content' = [content EXCEPT ![h] = Append(@, node)]
         \/ content' = [content EXCEPT ![h] = SelectSeq(@, LAMBDA n : n # node)]]_vars
==========================================================================
