------------------------ MODULE LockSignalProofs ------------------------
(***************************************************************************)
(* Blocking ASTs are handed from thread to thread: who finds a holder in   *)
(* its way puts the request on the blocking queue of its owner, marks the  *)
(* owner signalled, and posts an event or runs the queue itself.  Every    *)
(* entry of a queue and every mark is somebody's business at every moment, *)
(* for any number of owners, processes, locks and requests.                *)
(*                                                                         *)
(* The inductive invariant is Handover.  Quiet steps leave alone all it    *)
(* speaks of; the routines that do not are taken one by one.               *)
(***************************************************************************)
EXTENDS LockManagerServiceProofs

\* The request is marked as being on the blocking queue of its owner.
Blocking(T, x) == "blocking" \in BlockOf(T, x).lrq_flags[x]

\* The owner has another request for the lock of r.
Neighbour(r, o) ==
  \E b \in Requests \ {r} : lrq_lock[b] = lrq_lock[r] /\ lrq_owner[b] = o

\* A thread runs ASTs of registered owners of its own process; a caller of repost
\* those of its owner; a thread that waits does so while it stands in post_blockage.
AstsInPlace(T) ==
  \A t \in Threads : T.ast[t] # NoOwner =>
    /\ T.ast[t] \in T.lhb_owners
    /\ own_process[T.ast[t]] = ProcessOf(t)
    /\ t \in Owners => T.ast[t] = t
    /\ t \in Requests => T.pc[t] = "post" /\ Neighbour(t, T.ast[t])

\* A list of owners to be signalled is held by a thread in post_blockage, which runs
\* the ASTs of one that stands before them.
ListInPlace(T, r) ==
  /\ T.pc[r] = "post" => T.ast[r] # NoOwner
  /\ T.sig[r] # << >> => T.pc[r] = "post"
  /\ \A j \in DOMAIN T.sig[r] : Neighbour(r, T.sig[r][j])

ListsInPlace(T) == \A r \in Requests : ListInPlace(T, r)

\* The blocking queues hold the requests marked blocking, once each.
QueueExact(T) ==
  /\ \A o \in Owners :
       /\ o \notin T.lhb_owners => T.own_blocks[o] = << >>
       /\ \A i \in DOMAIN T.own_blocks[o] : T.own_blocks[o][i] # Repost =>
            /\ lrq_owner[T.own_blocks[o][i]] = o
            /\ Blocking(T, T.own_blocks[o][i])
            /\ \A j \in DOMAIN T.own_blocks[o] : T.own_blocks[o][i] = T.own_blocks[o][j] => i = j
  /\ \A x \in Requests : Blocking(T, x) =>
       /\ T.pc[x] # "free"
       /\ \E i \in DOMAIN T.own_blocks[lrq_owner[x]] : T.own_blocks[lrq_owner[x]][i] = x

\* If the owner is marked signalled, somebody is going to run its queue.
Served(T, o) ==
  "signaled" \in T.own_flags[o] =>
     \/ \E t \in Threads : T.ast[t] = o
     \/ T.prc_blocking[own_process[o]]
     \/ T.ast[own_process[o]] # NoOwner

\* If the owner has ASTs to run, it is marked signalled, or about to be.
Announced(T, o) ==
  T.own_blocks[o] # << >> /\ T.own_count[o] > 0 =>
     \/ "signaled" \in T.own_flags[o]
     \/ \E r \in Requests : \E j \in DOMAIN T.sig[r] : T.sig[r][j] = o

Living(T) == {o \in T.lhb_owners : own_process[o] \notin T.dead}

Handover(T) ==
  /\ AstsInPlace(T) /\ ListsInPlace(T) /\ QueueExact(T)
  /\ \A o \in Living(T) : Served(T, o) /\ Announced(T, o)

-------------------------------------------------------------------------
(* Quiet changes.                                                        *)

KeepsBlocking(B, C) ==
  \A x \in Requests : "blocking" \in C.lrq_flags[x] <=> "blocking" \in B.lrq_flags[x]

Quiet(T, U) ==
  /\ U.lhb_owners = T.lhb_owners /\ U.own_count = T.own_count /\ U.dead = T.dead
  /\ U.own_blocks = T.own_blocks /\ U.prc_blocking = T.prc_blocking
  /\ U.sig = T.sig /\ U.ast = T.ast
  /\ \A o \in Owners : "signaled" \in U.own_flags[o] <=> "signaled" \in T.own_flags[o]
  /\ \A x \in Requests : /\ U.pc[x] = "post" <=> T.pc[x] = "post"
                         /\ T.pc[x] # "free" => U.pc[x] # "free"
                         /\ Blocking(U, x) <=> Blocking(T, x)

\* A quiet change leaves everything in hand.
LEMMA QuietHandover ==
  ASSUME NEW T \in Table, NEW U, Handover(T), Quiet(T, U)
  PROVE  Handover(U)
<1>1. AstsInPlace(U)
  BY DEF Handover, Quiet, AstsInPlace
<1>2. ListsInPlace(U)
  BY DEF Handover, Quiet, ListsInPlace, ListInPlace
<1>3. QueueExact(U)
  <2>1. \A o \in Owners : \A i \in DOMAIN T.own_blocks[o] :
          T.own_blocks[o][i] # Repost => T.own_blocks[o][i] \in Requests
    BY DEF Table
  <2>2. \A o \in Owners :
       /\ o \notin U.lhb_owners => U.own_blocks[o] = << >>
       /\ \A i \in DOMAIN U.own_blocks[o] : U.own_blocks[o][i] # Repost =>
            /\ lrq_owner[U.own_blocks[o][i]] = o
            /\ Blocking(U, U.own_blocks[o][i])
            /\ \A j \in DOMAIN U.own_blocks[o] : U.own_blocks[o][i] = U.own_blocks[o][j] => i = j
    BY <2>1 DEF Handover, Quiet, QueueExact
  <2>3. \A x \in Requests : Blocking(U, x) =>
       /\ U.pc[x] # "free"
       /\ \E i \in DOMAIN U.own_blocks[lrq_owner[x]] : U.own_blocks[lrq_owner[x]][i] = x
    BY DEF Handover, Quiet, QueueExact
  <2> QED BY <2>2, <2>3 DEF QueueExact
<1>4. ASSUME NEW o \in Living(U) PROVE Served(U, o) /\ Announced(U, o)
  <2>1. o \in Living(T) /\ o \in Owners
    BY DEF Living, Quiet, Table
  <2>2. Served(T, o) /\ Announced(T, o)
    BY <2>1 DEF Handover
  <2> QED BY <2>1, <2>2 DEF Quiet, Served, Announced
<1> QED BY <1>1, <1>2, <1>3, <1>4 DEF Handover

\* Quiet changes compose.
LEMMA QuietTwice ==
  ASSUME NEW T, NEW U, NEW V, Quiet(T, U), Quiet(U, V)
  PROVE  Quiet(T, V)
BY DEF Quiet

\* Changing nothing is quiet.
LEMMA SameQuiet ==
  ASSUME NEW T
  PROVE  Quiet(T, T)
BY DEF Quiet

\* Setting and clearing other flags of requests leaves their marks alone.
LEMMA AddFlagsBlocking ==
  ASSUME NEW B \in Block, NEW S, NEW F, "blocking" \notin F
  PROVE  KeepsBlocking(B, AddFlags(B, S, F)) /\ KeepsBlocking(B, ClearFlags(B, S, F))
BY DEF KeepsBlocking, AddFlags, ClearFlags, Block

\* Granting the requests at the head of a queue leaves their marks alone.
LEMMA PostPendingBlocking ==
  ASSUME NEW B \in GoodBlock
  PROVE  KeepsBlocking(B, post_pending(B))
<1> DEFINE C == GrantAll(B, Granted(B))
<1>1. B \in Block
  BY DEF GoodBlock
<1>2. C \in Block
  BY GrantAllGood DEF Keeps, GoodBlock
<1>3. KeepsBlocking(B, C)
  BY <1>1 DEF GrantAll, KeepsBlocking, Block
<1> HIDE DEF C
<1>4. KeepsBlocking(C, AddFlags(C, JustGranted(C), {"just_granted"}))
  BY <1>2, AddFlagsBlocking
<1>5. post_pending(B) \in {B, C, AddFlags(C, JustGranted(C), {"just_granted"})}
  BY DEF post_pending, C
<1> QED BY <1>3, <1>4, <1>5 DEF KeepsBlocking

\* Storing a block whose marks have not changed is quiet.
LEMMA WithBlockQuiet ==
  ASSUME NEW T \in Table, NEW r \in Requests, NEW C, KeepsBlocking(BlockOf(T, r), C)
  PROVE  Quiet(T, WithBlock(T, r, C))
<1>2. lrq_lock[r] \in Locks /\ T.lbl \in [Locks -> Block]
  BY OwnerOfRequest DEF Table
<1> DEFINE U == WithBlock(T, r, C)
<1>3. /\ U.lbl = [T.lbl EXCEPT ![lrq_lock[r]] = C]
      /\ U.pc = T.pc /\ U.dead = T.dead /\ SameOwners(T, U)
      /\ U.own_blocks = T.own_blocks /\ U.own_flags = T.own_flags
      /\ U.ast = T.ast /\ U.sig = T.sig /\ U.prc_blocking = T.prc_blocking
  BY OwnerOfRequest DEF WithBlock, SameOwners, Table
<1> HIDE DEF U
<1>4. \A x \in Requests : BlockOf(U, x) = IF lrq_lock[x] = lrq_lock[r] THEN C ELSE BlockOf(T, x)
  BY <1>2, <1>3, ManagerAssumption DEF BlockOf
<1>5. \A x \in Requests : lrq_lock[x] = lrq_lock[r] => BlockOf(T, x) = BlockOf(T, r)
  BY DEF BlockOf
<1>6. \A x \in Requests : Blocking(U, x) <=> Blocking(T, x)
  BY <1>4, <1>5 DEF Blocking, KeepsBlocking
<1> QED BY <1>3, <1>6 DEF Quiet, SameOwners, U

\* Waking up owners is quiet.
LEMMA PostWakeupQuiet ==
  ASSUME NEW T \in Table, NEW S
  PROVE  Quiet(T, post_wakeup(T, S))
<1> DEFINE U == post_wakeup(T, S)
<1>1. /\ U.lhb_owners = T.lhb_owners /\ U.own_count = T.own_count /\ U.dead = T.dead
      /\ U.own_blocks = T.own_blocks /\ U.prc_blocking = T.prc_blocking
      /\ U.sig = T.sig /\ U.ast = T.ast /\ U.pc = T.pc /\ U.lbl = T.lbl
  BY DEF post_wakeup, Table
<1>2. \A o \in Owners : U.own_flags[o] \in {T.own_flags[o], T.own_flags[o] \cup {"wakeup"}}
  BY DEF post_wakeup, Table
<1> HIDE DEF U
<1>3. \A x \in Requests : Blocking(U, x) <=> Blocking(T, x)
  BY <1>1 DEF Blocking, BlockOf
<1> QED BY <1>1, <1>2, <1>3 DEF Quiet, U

\* Clearing other flags of an owner is quiet.
LEMMA DropFlagsQuiet ==
  ASSUME NEW T \in Table, NEW o \in Owners, NEW F, "signaled" \notin F
  PROVE  Quiet(T, DropFlags(T, o, F))
<1> DEFINE U == DropFlags(T, o, F)
<1>1. /\ U.lhb_owners = T.lhb_owners /\ U.own_count = T.own_count /\ U.dead = T.dead
      /\ U.own_blocks = T.own_blocks /\ U.prc_blocking = T.prc_blocking
      /\ U.sig = T.sig /\ U.ast = T.ast /\ U.pc = T.pc /\ U.lbl = T.lbl
  BY DEF DropFlags, Table
<1>2. \A p \in Owners : U.own_flags[p] \in {T.own_flags[p], T.own_flags[p] \ F}
  BY DEF DropFlags, Table
<1> HIDE DEF U
<1>3. \A x \in Requests : Blocking(U, x) <=> Blocking(T, x)
  BY <1>1 DEF Blocking, BlockOf
<1> QED BY <1>1, <1>2, <1>3 DEF Quiet, U

\* A request that is in use and not in post_blockage moves.
LEMMA AtQuiet ==
  ASSUME NEW T \in Table, NEW r \in Requests, NEW where \in {"idle", "wait"}, T.pc[r] # "post"
  PROVE  Quiet(T, At(T, r, where))
<1> DEFINE U == At(T, r, where)
<1>1. /\ U.lhb_owners = T.lhb_owners /\ U.own_count = T.own_count /\ U.dead = T.dead
      /\ U.own_blocks = T.own_blocks /\ U.prc_blocking = T.prc_blocking
      /\ U.sig = T.sig /\ U.ast = T.ast /\ U.own_flags = T.own_flags /\ U.lbl = T.lbl
      /\ U.pc = [T.pc EXCEPT ![r] = where]
  BY DEF At, Table
<1>2. T.pc \in [Requests -> Place]
  BY DEF Table
<1> HIDE DEF U
<1>3. \A x \in Requests : Blocking(U, x) <=> Blocking(T, x)
  BY <1>1 DEF Blocking, BlockOf
<1> QED BY <1>1, <1>2, <1>3 DEF Quiet, U

\* What post_pending grants, and whom it wakes, changes nothing of this.
LEMMA PostPendingQuiet ==
  ASSUME NEW T \in Table, NEW r \in Requests, NEW B \in GoodBlock,
         KeepsBlocking(BlockOf(T, r), B)
  PROVE  Quiet(T, PostPending(T, r, B))
<1> DEFINE V == WithBlock(T, r, post_pending(B))
<1>1. post_pending(B) \in GoodBlock /\ KeepsBlocking(BlockOf(T, r), post_pending(B))
  BY PostPendingGood, PostPendingBlocking DEF Keeps, KeepsBlocking
<1>2. Quiet(T, V)
  BY <1>1, WithBlockQuiet
<1>3. V \in Table
  BY <1>1, WithBlockIs DEF GoodBlock
<1> HIDE DEF V
<1>4. Quiet(V, post_wakeup(V, PostPendingWakes(B)))
  BY <1>3, PostWakeupQuiet
<1> QED BY <1>2, <1>4, QuietTwice DEF PostPending, V

\* Granting one request and then the head of the queue is quiet.
LEMMA GrantAndPostQuiet ==
  ASSUME NEW T \in Table, NEW r \in Requests, NEW B \in GoodBlock,
         KeepsBlocking(BlockOf(T, r), B)
  PROVE  Quiet(T, GrantAndPost(T, r, B))
<1> DEFINE V == post_wakeup(T, {r})
<1>1. V \in Table /\ V.lbl = T.lbl
  BY PostWakeupGood
<1>2. Quiet(T, V)
  BY PostWakeupQuiet
<1> HIDE DEF V
<1>3. BlockOf(V, r) = BlockOf(T, r)
  BY <1>1 DEF BlockOf
<1>4. Quiet(V, PostPending(V, r, B))
  BY <1>1, <1>3, PostPendingQuiet
<1> QED BY <1>2, <1>4, QuietTwice DEF GrantAndPost, V

-------------------------------------------------------------------------
(* release_request.                                                      *)

\* A request that leaves its lock loses its mark, the others keep theirs.
LEMMA UnlinkBlocking ==
  ASSUME NEW B \in GoodBlock, NEW r \in Queued(B), NEW x \in Requests,
         "blocking" \in B.lrq_flags[x] => x \in Queued(B)
  PROVE  "blocking" \in unlink_request(B, r).lrq_flags[x] <=> x # r /\ "blocking" \in B.lrq_flags[x]
<1> DEFINE C == unlink_request(B, r)
<1>1. B \in Block /\ r \in Requests
  BY GoodBlockCounts
<1>2. Queued(C) = Queued(B) \ {r}
  BY UnlinkRequestGood
<1>3. CASE RemoveRequest(B.lbl_requests, r) = << >>
  <2>1. C = FreeBlock
    BY <1>3 DEF unlink_request
  <2>2. Queued(C) = {} /\ "blocking" \notin C.lrq_flags[x]
    BY <2>1 DEF FreeBlock, Queued
  <2> HIDE DEF C
  <2>3. x \in Queued(B) => x = r
    BY <1>2, <2>2
  <2> QED BY <2>2, <2>3 DEF C
<1>4. CASE RemoveRequest(B.lbl_requests, r) # << >>
  <2>1. C.lrq_flags = [B.lrq_flags EXCEPT ![r] = {}]
    BY <1>4 DEF unlink_request
  <2>2. B.lrq_flags \in [Requests -> SUBSET LrqFlag]
    BY <1>1 DEF Block
  <2> HIDE DEF C
  <2> QED BY <2>1, <2>2 DEF C
<1> QED BY <1>3, <1>4

\* What is left of a blocking queue without a request.
Without(q, r) == EntriesAt(q, {i \in DOMAIN q : q[i] # r})

\* A queue without one of its entries lists the others, each position once.
LEMMA FilteredIs ==
  ASSUME NEW q \in Seq(Requests \cup {Repost}), NEW r
  PROVE  \E n \in Nat : \E f \in [1 .. n -> DOMAIN q] :
           /\ DOMAIN Without(q, r) = 1 .. n
           /\ \A k \in 1 .. n : Without(q, r)[k] = q[f[k]] /\ q[f[k]] # r
           /\ \A j, k \in 1 .. n : f[j] = f[k] => j = k
           /\ \A i \in DOMAIN q : q[i] # r => \E k \in 1 .. n : f[k] = i
<1> DEFINE S == Requests \cup {Repost}
           P == {i \in DOMAIN q : q[i] # r}
<1>1. q \in Seq(S) /\ P \in SUBSET DOMAIN q
  OBVIOUS
<1>2. \A i \in DOMAIN q : i \in P <=> q[i] # r
  OBVIOUS
<1> HIDE DEF P, S
<1>3. PICK n \in Nat : \E f \in [1 .. n -> P] : Listed(q, P, n, f)
  BY <1>1, EntriesAtIs
<1>4. PICK f \in [1 .. n -> P] : Listed(q, P, n, f)
  BY <1>3
<1>5. /\ EntriesAt(q, P) = [k \in 1 .. n |-> q[f[k]]]
      /\ \A j, k \in 1 .. n : f[j] = f[k] => j = k
      /\ \A i \in P : \E k \in 1 .. n : f[k] = i
  BY <1>4 DEF Listed
<1>6. Without(q, r) = [k \in 1 .. n |-> q[f[k]]]
  BY <1>5 DEF Without, P
<1>7. f \in [1 .. n -> DOMAIN q]
  BY <1>1
<1>8. \A k \in 1 .. n : q[f[k]] # r
  BY <1>1, <1>2
<1>9. \A i \in DOMAIN q : q[i] # r => \E k \in 1 .. n : f[k] = i
  BY <1>2, <1>5
<1>10. DOMAIN Without(q, r) = 1 .. n /\ \A k \in 1 .. n : Without(q, r)[k] = q[f[k]] /\ q[f[k]] # r
  BY <1>6, <1>8
<1>11. \A j, k \in 1 .. n : f[j] = f[k] => j = k
  BY <1>5
<1> WITNESS n \in Nat
<1> WITNESS f \in [1 .. n -> DOMAIN q]
<1> QED BY <1>9, <1>10, <1>11, Zenon

\* Taking a request off the blocking queue of its owner.
LEMMA FilteredQueue ==
  ASSUME NEW q \in Seq(Requests \cup {Repost}), NEW r
  PROVE  LET e == Without(q, r)
         IN  /\ \A k \in DOMAIN e : e[k] # r /\ \E i \in DOMAIN q : e[k] = q[i]
             /\ \A i \in DOMAIN q : q[i] # r => \E k \in DOMAIN e : e[k] = q[i]
             /\ (\A i, j \in DOMAIN q : q[i] # Repost /\ q[i] = q[j] => i = j)
                  => \A j, k \in DOMAIN e : e[j] # Repost /\ e[j] = e[k] => j = k
             /\ q = << >> => e = << >>
<1> DEFINE e == Without(q, r)
<1>1. \E n \in Nat : \E f \in [1 .. n -> DOMAIN q] :
               /\ DOMAIN e = 1 .. n
               /\ \A k \in 1 .. n : e[k] = q[f[k]] /\ q[f[k]] # r
               /\ \A j, k \in 1 .. n : f[j] = f[k] => j = k
               /\ \A i \in DOMAIN q : q[i] # r => \E k \in 1 .. n : f[k] = i
  BY FilteredIs
<1>2. e \in Seq(Requests \cup {Repost})
  <2>1. {i \in DOMAIN q : q[i] # r} \in SUBSET DOMAIN q
    OBVIOUS
  <2> QED BY <2>1, EntriesAtType DEF Without
<1> HIDE DEF e
<1>3. PICK n \in Nat : \E f \in [1 .. n -> DOMAIN q] :
               /\ DOMAIN e = 1 .. n
               /\ \A k \in 1 .. n : e[k] = q[f[k]] /\ q[f[k]] # r
               /\ \A j, k \in 1 .. n : f[j] = f[k] => j = k
               /\ \A i \in DOMAIN q : q[i] # r => \E k \in 1 .. n : f[k] = i
  BY <1>1
<1>4. PICK f \in [1 .. n -> DOMAIN q] :
               /\ DOMAIN e = 1 .. n
               /\ \A k \in 1 .. n : e[k] = q[f[k]] /\ q[f[k]] # r
               /\ \A j, k \in 1 .. n : f[j] = f[k] => j = k
               /\ \A i \in DOMAIN q : q[i] # r => \E k \in 1 .. n : f[k] = i
  BY <1>3
<1>5. \A k \in DOMAIN e : e[k] # r /\ \E i \in DOMAIN q : e[k] = q[i]
  BY <1>4
<1>6. \A i \in DOMAIN q : q[i] # r => \E k \in DOMAIN e : e[k] = q[i]
  BY <1>4
<1>7. ASSUME \A i, j \in DOMAIN q : q[i] # Repost /\ q[i] = q[j] => i = j,
             NEW j \in DOMAIN e, NEW k \in DOMAIN e, e[j] # Repost, e[j] = e[k]
      PROVE  j = k
  <2>1. f[j] \in DOMAIN q /\ f[k] \in DOMAIN q /\ q[f[j]] # Repost /\ q[f[j]] = q[f[k]]
    BY <1>4, <1>7
  <2>2. f[j] = f[k]
    BY <1>7, <2>1
  <2> QED BY <1>4, <2>2
<1>8. q = << >> => e = << >>
  BY <1>2, <1>4
<1> QED BY <1>5, <1>6, <1>7, <1>8 DEF e

\* What releasing a request changes of what Handover speaks of: the request leaves the
\* blocking queue of its owner and loses its mark.
LEMMA ReleaseRequestIs ==
  ASSUME NEW T \in GoodTable, NEW r \in Requests, T.pc[r] # "free", Handover(T)
  PROVE  LET U == ReleaseRequest(T, r)
             o == lrq_owner[r]
         IN  /\ U.lhb_owners = T.lhb_owners /\ U.own_count = T.own_count /\ U.dead = T.dead
             /\ U.prc_blocking = T.prc_blocking /\ U.sig = T.sig /\ U.ast = T.ast
             /\ U.own_blocks = [T.own_blocks EXCEPT ![o] =
                  Without(T.own_blocks[o], r)]
             /\ \A p \in Owners : "signaled" \in U.own_flags[p] <=> "signaled" \in T.own_flags[p]
             /\ U.pc = [T.pc EXCEPT ![r] = "free"]
             /\ \A x \in Requests : Blocking(U, x) <=> x # r /\ Blocking(T, x)
<1> DEFINE o == lrq_owner[r]
           q == T.own_blocks[o]
           e == Without(q, r)
           T1 == [At(T, r, "free") EXCEPT !.own_blocks = [@ EXCEPT ![o] = e]]
           B == BlockOf(T, r)
           C == unlink_request(B, r)
           V == WithBlock(T1, r, post_pending(C))
           U == post_wakeup(V, PostPendingWakes(C))
<1>1. /\ T \in Table /\ B \in GoodBlock /\ r \in Queued(B) /\ o \in Owners /\ lrq_lock[r] \in Locks
  BY BlockOfGood, OwnerOfRequest
<1>2. \A x \in Requests : lrq_lock[x] = lrq_lock[r] /\ "blocking" \in B.lrq_flags[x] => x \in Queued(B)
  <2>1. ASSUME NEW x \in Requests, lrq_lock[x] = lrq_lock[r], "blocking" \in B.lrq_flags[x]
        PROVE  x \in Queued(B)
    <3>1. BlockOf(T, x) = B
      BY <2>1 DEF BlockOf
    <3>2. T.pc[x] # "free"
      BY <2>1, <3>1 DEF Handover, QueueExact, Blocking
    <3> HIDE DEF B
    <3> QED BY <3>1, <3>2, BlockOfGood
  <2> QED BY <2>1
<1>3. C \in GoodBlock /\ post_pending(C) \in Block /\ KeepsBlocking(C, post_pending(C))
  BY <1>1, UnlinkRequestGood, PostPendingGood, PostPendingBlocking DEF Keeps, GoodBlock
<1>4. /\ T1.lhb_owners = T.lhb_owners /\ T1.own_count = T.own_count /\ T1.dead = T.dead
      /\ T1.prc_blocking = T.prc_blocking /\ T1.sig = T.sig /\ T1.ast = T.ast
      /\ T1.own_flags = T.own_flags /\ T1.lbl = T.lbl
      /\ T1.own_blocks = [T.own_blocks EXCEPT ![o] = e]
      /\ T1.pc = [T.pc EXCEPT ![r] = "free"]
  BY <1>1 DEF At, Table
<1>5. T1 \in Table
  <2>1. q \in Seq(Requests \cup {Repost})
    BY <1>1 DEF Table
  <2>2. e \in Seq(Requests \cup {Repost})
    <3> HIDE DEF q
    <3>1. {i \in DOMAIN q : q[i] # r} \in SUBSET DOMAIN q
      OBVIOUS
    <3> QED BY <2>1, <3>1, EntriesAtType DEF Without
  <2> HIDE DEF e
  <2>3. At(T, r, "free") \in Table
    BY <1>1, AtIs DEF Place
  <2>4. At(T, r, "free").own_blocks = T.own_blocks
    BY <1>1 DEF At, Table
  <2> QED BY <1>1, <2>2, <2>3, <2>4 DEF Table
<1>6. ReleaseRequest(T, r) = U
  BY DEF ReleaseRequest, PostPending, Without
<1> HIDE DEF T1, e
<1>7. /\ V.lbl = [T1.lbl EXCEPT ![lrq_lock[r]] = post_pending(C)]
      /\ V.pc = T1.pc /\ V.dead = T1.dead /\ SameOwners(T1, V)
      /\ V.own_blocks = T1.own_blocks /\ V.own_flags = T1.own_flags
      /\ V.ast = T1.ast /\ V.sig = T1.sig /\ V.prc_blocking = T1.prc_blocking
      /\ V \in Table
  BY <1>3, <1>5, WithBlockIs
<1>8. Quiet(V, U)
  <2> HIDE DEF V
  <2> QED BY <1>7, PostWakeupQuiet
<1>9. U.pc = V.pc
  <2> HIDE DEF V
  <2> QED BY <1>7, PostWakeupGood
<1> HIDE DEF U
<1>10. ASSUME NEW x \in Requests PROVE Blocking(V, x) <=> x # r /\ Blocking(T, x)
  <2>1. CASE lrq_lock[x] # lrq_lock[r]
    <3>1. BlockOf(V, x) = BlockOf(T, x)
      BY <1>1, <1>4, <1>7, <2>1, ManagerAssumption DEF BlockOf, Table
    <3> QED BY <2>1, <3>1 DEF Blocking
  <2>2. CASE lrq_lock[x] = lrq_lock[r]
    <3>1. BlockOf(V, x) = post_pending(C) /\ BlockOf(T, x) = B
      BY <1>1, <1>4, <1>7, <2>2 DEF BlockOf, Table
    <3> HIDE DEF V, B, C
    <3>2. "blocking" \in C.lrq_flags[x] <=> x # r /\ "blocking" \in B.lrq_flags[x]
      BY <1>1, <1>2, <2>2, UnlinkBlocking DEF C
    <3> QED BY <1>3, <3>1, <3>2 DEF Blocking, KeepsBlocking
  <2> QED BY <2>1, <2>2
<1> HIDE DEF V
<1>11. \A x \in Requests : Blocking(U, x) <=> x # r /\ Blocking(T, x)
  BY <1>8, <1>10 DEF Quiet
<1>12. /\ U.lhb_owners = T.lhb_owners /\ U.own_count = T.own_count /\ U.dead = T.dead
       /\ U.prc_blocking = T.prc_blocking /\ U.sig = T.sig /\ U.ast = T.ast
       /\ U.own_blocks = [T.own_blocks EXCEPT ![o] = e]
       /\ \A p \in Owners : "signaled" \in U.own_flags[p] <=> "signaled" \in T.own_flags[p]
       /\ U.pc = [T.pc EXCEPT ![r] = "free"]
  BY <1>4, <1>7, <1>8, <1>9 DEF Quiet, SameOwners
<1> QED BY <1>6, <1>11, <1>12 DEF e

\* release_request takes the request off the queues and leaves the rest to whoever had it.
LEMMA ReleaseRequestHandover ==
  ASSUME NEW T \in GoodTable, NEW r \in Requests, T.pc[r] \in {"idle", "wait"}, Handover(T)
  PROVE  Handover(ReleaseRequest(T, r))
<1> DEFINE U == ReleaseRequest(T, r)
           o == lrq_owner[r]
           q == T.own_blocks[o]
           e == Without(q, r)
<1>1. /\ T \in Table /\ o \in Owners /\ q \in Seq(Requests \cup {Repost})
      /\ T.own_blocks \in [Owners -> Seq(Requests \cup {Repost})] /\ T.pc \in [Requests -> Place]
  BY BlockOfGood, OwnerOfRequest DEF Table
<1>2. /\ U.lhb_owners = T.lhb_owners /\ U.own_count = T.own_count /\ U.dead = T.dead
      /\ U.prc_blocking = T.prc_blocking /\ U.sig = T.sig /\ U.ast = T.ast
      /\ U.own_blocks = [T.own_blocks EXCEPT ![o] = e]
      /\ \A p \in Owners : "signaled" \in U.own_flags[p] <=> "signaled" \in T.own_flags[p]
      /\ U.pc = [T.pc EXCEPT ![r] = "free"]
      /\ \A x \in Requests : Blocking(U, x) <=> x # r /\ Blocking(T, x)
  BY ReleaseRequestIs
<1>3. \A i, j \in DOMAIN q : q[i] # Repost /\ q[i] = q[j] => i = j
  BY <1>1 DEF Handover, QueueExact
<1>4. /\ \A k \in DOMAIN e : e[k] # r /\ \E i \in DOMAIN q : e[k] = q[i]
      /\ \A i \in DOMAIN q : q[i] # r => \E k \in DOMAIN e : e[k] = q[i]
      /\ \A j, k \in DOMAIN e : e[j] # Repost /\ e[j] = e[k] => j = k
      /\ q = << >> => e = << >>
  <2>1. q \in Seq(Requests \cup {Repost}) /\ r \in Requests
    BY <1>1
  <2> HIDE DEF q
  <2>2. /\ \A k \in DOMAIN e : e[k] # r /\ \E i \in DOMAIN q : e[k] = q[i]
        /\ \A i \in DOMAIN q : q[i] # r => \E k \in DOMAIN e : e[k] = q[i]
        /\ (\A i, j \in DOMAIN q : q[i] # Repost /\ q[i] = q[j] => i = j)
              => \A j, k \in DOMAIN e : e[j] # Repost /\ e[j] = e[k] => j = k
        /\ q = << >> => e = << >>
    BY <2>1, FilteredQueue
  <2> QED BY <1>3, <2>2
<1> HIDE DEF U, e
<1>5. AstsInPlace(U)
  <2>1. \A x \in Requests : T.pc[x] = "post" => U.pc[x] = "post"
    BY <1>1, <1>2
  <2> QED BY <1>2, <2>1 DEF Handover, AstsInPlace
<1>6. ListsInPlace(U)
  <2>1. \A x \in Requests : U.pc[x] = "post" <=> T.pc[x] = "post"
    BY <1>1, <1>2
  <2> QED BY <1>2, <2>1 DEF Handover, ListsInPlace, ListInPlace
<1>7. ASSUME NEW p \in Owners
      PROVE  /\ p \notin U.lhb_owners => U.own_blocks[p] = << >>
             /\ \A i \in DOMAIN U.own_blocks[p] : U.own_blocks[p][i] # Repost =>
                  /\ lrq_owner[U.own_blocks[p][i]] = p
                  /\ Blocking(U, U.own_blocks[p][i])
                  /\ \A j \in DOMAIN U.own_blocks[p] :
                       U.own_blocks[p][i] = U.own_blocks[p][j] => i = j
  <2>1. /\ p \notin T.lhb_owners => T.own_blocks[p] = << >>
        /\ \A i \in DOMAIN T.own_blocks[p] : T.own_blocks[p][i] # Repost =>
                  /\ T.own_blocks[p][i] \in Requests
                  /\ lrq_owner[T.own_blocks[p][i]] = p
                  /\ Blocking(T, T.own_blocks[p][i])
                  /\ \A j \in DOMAIN T.own_blocks[p] :
                       T.own_blocks[p][i] = T.own_blocks[p][j] => i = j
    BY <1>1 DEF Handover, QueueExact
  <2>2. CASE p = o
    <3>1. U.own_blocks[p] = e /\ T.own_blocks[p] = q
      BY <1>1, <1>2, <2>2
    <3> HIDE DEF q, o
    <3>2. ASSUME NEW k \in DOMAIN e, e[k] # Repost
          PROVE  lrq_owner[e[k]] = p /\ Blocking(U, e[k])
      <4>1. PICK i \in DOMAIN q : e[k] = q[i] /\ q[i] # r
        BY <1>4
      <4>2. q[i] \in Requests /\ lrq_owner[q[i]] = p /\ Blocking(T, q[i])
        BY <2>1, <3>1, <3>2, <4>1
      <4> QED BY <1>2, <4>1, <4>2
    <3> QED BY <1>2, <1>4, <2>1, <3>1, <3>2
  <2>3. CASE p # o
    <3>1. U.own_blocks[p] = T.own_blocks[p]
      BY <1>1, <1>2, <2>3
    <3>2. \A i \in DOMAIN T.own_blocks[p] :
            T.own_blocks[p][i] # Repost => T.own_blocks[p][i] # r
      BY <2>1, <2>3
    <3> QED BY <1>2, <2>1, <3>1, <3>2
  <2> QED BY <2>2, <2>3
<1>8. ASSUME NEW x \in Requests, Blocking(U, x)
      PROVE  /\ U.pc[x] # "free"
             /\ \E i \in DOMAIN U.own_blocks[lrq_owner[x]] : U.own_blocks[lrq_owner[x]][i] = x
  <2>1. x # r /\ Blocking(T, x)
    BY <1>2, <1>8
  <2>2. T.pc[x] # "free" /\ \E i \in DOMAIN T.own_blocks[lrq_owner[x]] : T.own_blocks[lrq_owner[x]][i] = x
    BY <2>1 DEF Handover, QueueExact
  <2>3. U.pc[x] = T.pc[x]
    BY <1>1, <1>2, <2>1
  <2>4. CASE lrq_owner[x] = o
    <3>1. U.own_blocks[lrq_owner[x]] = e /\ T.own_blocks[lrq_owner[x]] = q
      BY <1>1, <1>2, <2>4
    <3> HIDE DEF q, o
    <3> QED BY <1>4, <2>1, <2>2, <2>3, <3>1
  <2>5. CASE lrq_owner[x] # o
    <3>1. U.own_blocks[lrq_owner[x]] = T.own_blocks[lrq_owner[x]]
      BY <1>1, <1>2, <2>5, OwnerOfRequest
    <3> QED BY <2>2, <2>3, <3>1
  <2> QED BY <2>4, <2>5
<1>9. QueueExact(U)
  BY <1>7, <1>8 DEF QueueExact
<1>10. ASSUME NEW p \in Living(U) PROVE Served(U, p) /\ Announced(U, p)
  <2>1. p \in Living(T) /\ p \in Owners
    BY <1>1, <1>2 DEF Living, Table
  <2>2. Served(T, p) /\ Announced(T, p)
    BY <2>1 DEF Handover
  <2>3. U.own_blocks[p] # << >> => T.own_blocks[p] # << >>
    <3>1. U.own_blocks[p] = IF p = o THEN e ELSE T.own_blocks[p]
      BY <1>1, <1>2, <2>1
    <3> QED BY <1>4, <3>1
  <2>4. Served(U, p)
    BY <1>2, <2>1, <2>2 DEF Served
  <2>5. Announced(U, p)
    BY <1>2, <2>1, <2>2, <2>3 DEF Announced
  <2> QED BY <2>4, <2>5
<1> QED BY <1>5, <1>6, <1>9, <1>10 DEF Handover, U

-------------------------------------------------------------------------
(* blocking_action.                                                      *)

\* The fields of the table that Handover depends on and blocking_action leaves alone.
SameLists(T, U) ==
  /\ U.lhb_owners = T.lhb_owners /\ U.own_count = T.own_count /\ U.dead = T.dead
  /\ U.prc_blocking = T.prc_blocking /\ U.sig = T.sig /\ U.pc = T.pc

\* Thread t runs the first AST on the queue of owner o.
Starts(T, U, t, o) ==
  /\ SameLists(T, U) /\ U.own_flags = T.own_flags
  /\ U.own_blocks = [T.own_blocks EXCEPT ![o] = Tail(T.own_blocks[o])]
  /\ U.ast = [T.ast EXCEPT ![t] = o]
  /\ \A x \in Requests : Blocking(U, x) <=> Blocking(T, x) /\ x # Head(T.own_blocks[o])

\* Thread t is done with owner o.
Stops(T, U, t, o) ==
  /\ SameLists(T, U)
  /\ U.own_flags = [T.own_flags EXCEPT ![o] = T.own_flags[o] \ {"signaled"}]
  /\ U.own_blocks = T.own_blocks
  /\ U.ast = [T.ast EXCEPT ![t] = NoOwner]
  /\ \A x \in Requests : Blocking(U, x) <=> Blocking(T, x)

\* blocking_action with something to run.
LEMMA ActionRunsIs ==
  ASSUME NEW T \in GoodTable, NEW t \in Threads, NEW o \in Owners,
         T.own_count[o] > 0, T.own_blocks[o] # << >>
  PROVE  Starts(T, blocking_action(T, t, o), t, o)
<1> DEFINE b == Head(T.own_blocks[o])
           T1 == [T EXCEPT !.own_blocks = [@ EXCEPT ![o] = Tail(T.own_blocks[o])],
                           !.ast = [@ EXCEPT ![t] = o]]
           U == blocking_action(T, t, o)
<1>1. T \in Table
  BY DEF GoodTable
<1>2. T.own_blocks[o] \in Seq(Requests \cup {Repost})
  BY <1>1 DEF Table
<1>3. b \in Requests \cup {Repost} /\ Tail(T.own_blocks[o]) \in Seq(Requests \cup {Repost})
  BY <1>2
<1>4. U = IF b = Repost THEN T1 ELSE WithBlock(T1, b, mark_seen(BlockOf(T, b), b))
  BY DEF blocking_action
<1> HIDE DEF b, U
<1>5. /\ SameLists(T, T1) /\ T1.own_flags = T.own_flags /\ T1.lbl = T.lbl
      /\ T1.own_blocks = [T.own_blocks EXCEPT ![o] = Tail(T.own_blocks[o])]
      /\ T1.ast = [T.ast EXCEPT ![t] = o]
  BY <1>1 DEF SameLists, Table
<1>6. T1 \in Table
  BY <1>1, <1>3 DEF Table
<1> HIDE DEF T1
<1>7. \A x \in Requests : Blocking(T1, x) <=> Blocking(T, x)
  BY <1>5 DEF Blocking, BlockOf
<1>8. CASE b = Repost
  <2>1. U = T1 /\ \A x \in Requests : x # b
    BY <1>4, <1>8, ManagerAssumption
  <2> QED BY <1>5, <1>7, <2>1 DEF Starts, U, b
<1>9. CASE b # Repost
  <2>1. b \in Requests /\ U = WithBlock(T1, b, mark_seen(BlockOf(T, b), b))
    BY <1>3, <1>4, <1>9
  <2> DEFINE B == BlockOf(T, b)
             C == mark_seen(B, b)
  <2>2. /\ U.lbl = [T1.lbl EXCEPT ![lrq_lock[b]] = C]
        /\ U.pc = T1.pc /\ U.dead = T1.dead /\ SameOwners(T1, U)
        /\ U.own_blocks = T1.own_blocks /\ U.own_flags = T1.own_flags
        /\ U.ast = T1.ast /\ U.sig = T1.sig /\ U.prc_blocking = T1.prc_blocking
    BY <1>6, <2>1, OwnerOfRequest DEF WithBlock, SameOwners, Table
  <2>3. B \in Block
    BY <2>1, BlockOfGood DEF GoodBlock
  <2> HIDE DEF B
  <2>4. ClearFlags(B, {b}, {"blocking"}).lrq_flags
          = [x \in Requests |-> IF x = b THEN B.lrq_flags[x] \ {"blocking"} ELSE B.lrq_flags[x]]
    BY <2>3 DEF ClearFlags, Block
  <2>5. C.lrq_flags = [x \in Requests |->
          IF x = b THEN ClearFlags(B, {b}, {"blocking"}).lrq_flags[x] \cup {"blocking_seen"}
          ELSE ClearFlags(B, {b}, {"blocking"}).lrq_flags[x]]
    BY <2>3 DEF mark_seen, AddFlags, ClearFlags, Block
  <2>6. \A x \in Requests : "blocking" \in C.lrq_flags[x] <=> "blocking" \in B.lrq_flags[x] /\ x # b
    BY <2>4, <2>5
  <2> HIDE DEF C
  <2>7. ASSUME NEW x \in Requests PROVE Blocking(U, x) <=> Blocking(T, x) /\ x # b
    <3>1. CASE lrq_lock[x] = lrq_lock[b]
      <4>1. BlockOf(U, x) = C /\ BlockOf(T, x) = B
        BY <1>1, <1>5, <2>1, <2>2, <3>1, OwnerOfRequest DEF BlockOf, B, Table
      <4> QED BY <2>6, <4>1 DEF Blocking
    <3>2. CASE lrq_lock[x] # lrq_lock[b]
      <4>1. BlockOf(U, x) = BlockOf(T, x)
        BY <1>1, <1>5, <2>2, <3>2, OwnerOfRequest DEF BlockOf, Table
      <4> QED BY <3>2, <4>1 DEF Blocking
    <3> QED BY <3>1, <3>2
  <2> QED BY <1>5, <2>2, <2>7 DEF SameLists, SameOwners, Starts, U, b
<1> QED BY <1>8, <1>9

\* blocking_action with nothing to run.
LEMMA ActionEndsIs ==
  ASSUME NEW T \in GoodTable, NEW t \in Threads, NEW o \in Owners,
         ~(T.own_count[o] > 0 /\ T.own_blocks[o] # << >>)
  PROVE  Stops(T, blocking_action(T, t, o), t, o)
<1> DEFINE U == blocking_action(T, t, o)
<1>1. T \in Table
  BY DEF GoodTable
<1>2. U = [DropFlags(T, o, {"signaled"}) EXCEPT !.ast = [@ EXCEPT ![t] = NoOwner]]
  BY DEF blocking_action
<1> HIDE DEF U
<1>3. /\ SameLists(T, U) /\ U.lbl = T.lbl
      /\ U.own_flags = [T.own_flags EXCEPT ![o] = T.own_flags[o] \ {"signaled"}]
      /\ U.own_blocks = T.own_blocks
      /\ U.ast = [T.ast EXCEPT ![t] = NoOwner]
  BY <1>1, <1>2 DEF SameLists, DropFlags, Table
<1>4. \A x \in Requests : Blocking(U, x) <=> Blocking(T, x)
  BY <1>3 DEF Blocking, BlockOf
<1> QED BY <1>3, <1>4 DEF Stops, U

\* The first entry of a blocking queue goes, and the mark of its request.
LEMMA ActionQueueExact ==
  ASSUME NEW T \in GoodTable, NEW U, NEW o \in Owners, QueueExact(T), T.own_blocks[o] # << >>,
         U.lhb_owners = T.lhb_owners, U.pc = T.pc,
         U.own_blocks = [T.own_blocks EXCEPT ![o] = Tail(T.own_blocks[o])],
         \A x \in Requests : Blocking(U, x) <=> Blocking(T, x) /\ x # Head(T.own_blocks[o])
  PROVE  QueueExact(U)
<1> DEFINE q == T.own_blocks[o]
<1>1. /\ T.own_blocks \in [Owners -> Seq(Requests \cup {Repost})]
      /\ q \in Seq(Requests \cup {Repost}) /\ q # << >>
  BY DEF GoodTable, Table
<1>2. U.own_blocks[o] = Tail(q) /\ \A p \in Owners \ {o} : U.own_blocks[p] = T.own_blocks[p]
  BY <1>1
<1>3. /\ DOMAIN Tail(q) = 1 .. (Len(q) - 1) /\ DOMAIN q = 1 .. Len(q) /\ Len(q) \in Nat \ {0}
      /\ \A i \in DOMAIN Tail(q) : Tail(q)[i] = q[i + 1] /\ i + 1 \in DOMAIN q
      /\ Head(q) = q[1]
  BY <1>1
<1>4. \A i \in DOMAIN q : q[i] # Repost =>
        /\ q[i] \in Requests /\ lrq_owner[q[i]] = o /\ Blocking(T, q[i])
        /\ \A j \in DOMAIN q : q[i] = q[j] => i = j
  BY <1>1 DEF QueueExact
<1>5. ASSUME NEW i \in DOMAIN Tail(q), Tail(q)[i] # Repost
      PROVE  /\ lrq_owner[Tail(q)[i]] = o /\ Blocking(U, Tail(q)[i])
             /\ \A j \in DOMAIN Tail(q) : Tail(q)[i] = Tail(q)[j] => i = j
  <2>1. Tail(q)[i] = q[i + 1] /\ i + 1 \in DOMAIN q /\ i \in 1 .. (Len(q) - 1)
    BY <1>3
  <2>2. q[i + 1] # q[1]
    <3>1. 1 \in DOMAIN q /\ i + 1 # 1
      BY <1>3, <2>1
    <3>2. q[i + 1] = q[1] => i + 1 = 1
      BY <1>4, <1>5, <2>1, <3>1
    <3> QED BY <3>1, <3>2
  <2>3. ASSUME NEW j \in DOMAIN Tail(q), Tail(q)[i] = Tail(q)[j] PROVE i = j
    <3>1. q[i + 1] = q[j + 1] /\ j + 1 \in DOMAIN q /\ j \in 1 .. (Len(q) - 1)
      BY <1>3, <2>1, <2>3
    <3>2. i + 1 = j + 1
      BY <1>4, <1>5, <2>1, <3>1
    <3> QED BY <2>1, <3>1, <3>2
  <2> QED BY <1>3, <1>4, <1>5, <2>1, <2>2, <2>3
<1>6. ASSUME NEW p \in Owners
      PROVE  /\ p \notin U.lhb_owners => U.own_blocks[p] = << >>
             /\ \A i \in DOMAIN U.own_blocks[p] : U.own_blocks[p][i] # Repost =>
                  /\ lrq_owner[U.own_blocks[p][i]] = p
                  /\ Blocking(U, U.own_blocks[p][i])
                  /\ \A j \in DOMAIN U.own_blocks[p] :
                       U.own_blocks[p][i] = U.own_blocks[p][j] => i = j
  <2>1. CASE p = o
    BY <1>1, <1>2, <1>5, <2>1 DEF QueueExact
  <2>2. CASE p # o
    <3>1. Head(q) # Repost => lrq_owner[Head(q)] = o
      BY <1>3, <1>4
    <3>2. \A i \in DOMAIN T.own_blocks[p] : T.own_blocks[p][i] # Repost =>
                  /\ T.own_blocks[p][i] \in Requests
                  /\ lrq_owner[T.own_blocks[p][i]] = p
                  /\ Blocking(T, T.own_blocks[p][i])
                  /\ \A j \in DOMAIN T.own_blocks[p] :
                       T.own_blocks[p][i] = T.own_blocks[p][j] => i = j
      BY <1>1 DEF QueueExact
    <3>3. p \notin T.lhb_owners => T.own_blocks[p] = << >>
      BY DEF QueueExact
    <3> QED BY <1>2, <2>2, <3>1, <3>2, <3>3
  <2> QED BY <2>1, <2>2
<1>7. ASSUME NEW x \in Requests, Blocking(U, x)
      PROVE  /\ U.pc[x] # "free"
             /\ \E i \in DOMAIN U.own_blocks[lrq_owner[x]] : U.own_blocks[lrq_owner[x]][i] = x
  <2>1. Blocking(T, x) /\ x # Head(q)
    BY <1>7
  <2>2. T.pc[x] # "free"
    BY <2>1 DEF QueueExact
  <2>3. PICK i \in DOMAIN T.own_blocks[lrq_owner[x]] : T.own_blocks[lrq_owner[x]][i] = x
    BY <2>1 DEF QueueExact
  <2>4. CASE lrq_owner[x] = o
    <3>1. i \in DOMAIN q /\ q[i] = x /\ i # 1
      BY <1>3, <2>1, <2>3, <2>4
    <3>2. i - 1 \in DOMAIN Tail(q) /\ Tail(q)[i - 1] = x
      BY <1>3, <3>1
    <3> HIDE DEF q
    <3> QED BY <1>2, <2>2, <2>4, <3>2
  <2>5. CASE lrq_owner[x] # o
    BY <1>2, <2>2, <2>3, <2>5, OwnerOfRequest
  <2> QED BY <2>4, <2>5
<1> QED BY <1>6, <1>7 DEF QueueExact

-------------------------------------------------------------------------
(* post_blockage.                                                        *)

\* The walk over the owners q has got behind the first k of them, on the thread that
\* waits for r: those with ASTs to run are marked signalled, and a mark that is new
\* comes with the event of the owner's process or is for the owner run next.
SignalsUpTo(T, V, r, q, k) ==
  /\ V.lbl = T.lbl /\ V.lhb_owners = T.lhb_owners /\ V.own_count = T.own_count
  /\ V.dead = T.dead /\ V.own_blocks = T.own_blocks /\ V.ast = T.ast
  /\ V.sig = [T.sig EXCEPT ![r] = SubSeq(q, k + 1, Len(q))]
  /\ \A i \in 1 .. k : T.own_count[q[i]] > 0 /\ T.own_blocks[q[i]] # << >>
       => "signaled" \in V.own_flags[q[i]]
  /\ \A o \in Owners :
       /\ "signaled" \in T.own_flags[o] => "signaled" \in V.own_flags[o]
       /\ "signaled" \in V.own_flags[o] =>
            \/ "signaled" \in T.own_flags[o]
            \/ V.prc_blocking[own_process[o]]
            \/ V.pc[r] = "post" /\ k >= 1 /\ o = q[k]
  /\ \A p \in Processes : T.prc_blocking[p] => V.prc_blocking[p]

\* What signal_owners does: it signals a number of owners of the list, and either comes to
\* its end, or stops at one in its own process whose ASTs the caller runs itself.
WalkedTo(T, V, r, q, k) ==
  /\ SignalsUpTo(T, V, r, q, k)
  /\ \/ /\ k = Len(q) /\ V.pc = [T.pc EXCEPT ![r] = "wait"]
        /\ signal_owners(T, r, q) = V
     \/ /\ k >= 1 /\ V.pc = [T.pc EXCEPT ![r] = "post"]
        /\ q[k] \in Owners /\ own_process[q[k]] = ProcessOf(r)
        /\ T.own_count[q[k]] > 0 /\ T.own_blocks[q[k]] # << >>
        /\ signal_owners(T, r, q) = blocking_action(V, r, q[k])

LEMMA SignalsWalk ==
  ASSUME NEW T \in GoodTable, NEW r \in Requests, NEW q \in Seq(Owners),
         T.pc[r] \in {"wait", "post"}
  PROVE  \E V \in GoodTable, k \in 0 .. Len(q) : WalkedTo(T, V, r, q, k)
<1> DEFINE idle(i)  == T.own_count[q[i]] > 0 /\ "signaled" \notin T.own_flags[q[i]]
           local(i) == own_process[q[i]] = ProcessOf(r)
           runs     == {i \in DOMAIN q : idle(i) /\ local(i) /\ T.own_blocks[q[i]] # << >>}
           upto     == IF runs = {} THEN Len(q)
                       ELSE CHOOSE i \in runs : \A j \in runs : i <= j
           posted   == {q[i] : i \in {j \in 1 .. upto : idle(j) /\ ~local(j)}}
           signaled == posted \cup (IF runs = {} THEN {} ELSE {q[upto]})
           F == [o \in Owners |->
                   IF o \in signaled THEN T.own_flags[o] \cup {"signaled"} ELSE T.own_flags[o]]
           P == [p \in Processes |->
                   T.prc_blocking[p] \/ \E o \in posted : own_process[o] = p]
           rest == SubSeq(q, upto + 1, Len(q))
           S == [T.sig EXCEPT ![r] = rest]
           T1 == [T EXCEPT !.own_flags = F, !.prc_blocking = P, !.sig = S]
           Put(where) == At(T1, r, where)
<1>1. T \in Table
  BY DEF GoodTable
<1>2. /\ runs \subseteq 1 .. Len(q)
      /\ \A i \in 1 .. Len(q) : i \in runs <=> idle(i) /\ local(i) /\ T.own_blocks[q[i]] # << >>
      /\ \A i \in 1 .. Len(q) : q[i] \in Owners
  OBVIOUS
<1>3. /\ runs # {} => upto \in runs /\ \A j \in runs : upto <= j
      /\ runs = {} => upto = Len(q)
  <2>1. runs \in SUBSET Nat
    OBVIOUS
  <2> HIDE DEF runs
  <2> QED BY <2>1, LeastElement
<1>4. signal_owners(T, r, q) = IF runs = {} THEN Put("wait")
                               ELSE blocking_action(Put("post"), r, q[upto])
  BY <1>1 DEF signal_owners, Table
<1> HIDE DEF runs, upto
<1>5. upto \in 0 .. Len(q) /\ (runs # {} => upto >= 1) /\ Len(q) \in Nat
  <2>1. Len(q) \in Nat
    OBVIOUS
  <2>2. CASE runs = {}
    BY <1>3, <2>1, <2>2
  <2>3. CASE runs # {}
    <3>1. upto \in 1 .. Len(q)
      BY <1>2, <1>3, <2>3
    <3> QED BY <2>1, <3>1
  <2> QED BY <2>2, <2>3
<1>6. rest \in Seq(Owners)
  BY <1>5
<1>7. F \in [Owners -> SUBSET OwnFlag]
  BY <1>1 DEF Table, OwnFlag
<1>8. P \in [Processes -> BOOLEAN]
  OBVIOUS
<1>9. /\ \A o \in Owners : F[o] = IF o \in signaled THEN T.own_flags[o] \cup {"signaled"}
                                  ELSE T.own_flags[o]
      /\ \A p \in Processes : P[p] <=> T.prc_blocking[p] \/ \E o \in posted : own_process[o] = p
  BY <1>1 DEF Table
<1>10. \A o : o \in posted <=> \E i \in 1 .. upto : idle(i) /\ ~local(i) /\ q[i] = o
  OBVIOUS
<1>11. \A o : o \in signaled <=> o \in posted \/ (runs # {} /\ o = q[upto])
  OBVIOUS
<1> HIDE DEF posted, signaled
<1> HIDE DEF F, P
<1>12. S \in [Requests -> Seq(Owners)] /\ S = [T.sig EXCEPT ![r] = SubSeq(q, upto + 1, Len(q))]
  BY <1>1, <1>6 DEF Table
<1> HIDE DEF rest, S
<1>13. /\ T1 \in Table /\ T1.lbl = T.lbl /\ T1.pc = T.pc /\ T1.dead = T.dead
       /\ T1.lhb_owners = T.lhb_owners /\ T1.own_count = T.own_count
       /\ T1.own_blocks = T.own_blocks /\ T1.ast = T.ast
       /\ T1.own_flags = F /\ T1.prc_blocking = P /\ T1.sig = S
  BY <1>1, <1>7, <1>8, <1>12 DEF Table
<1> HIDE DEF T1
<1>14. ASSUME NEW where \in {"wait", "post"}
       PROVE  /\ Put(where) \in Table /\ Put(where).pc = [T.pc EXCEPT ![r] = where]
              /\ Put(where).lbl = T.lbl /\ Put(where).dead = T.dead
              /\ Put(where).lhb_owners = T.lhb_owners /\ Put(where).own_count = T.own_count
              /\ Put(where).own_blocks = T.own_blocks /\ Put(where).ast = T.ast
              /\ Put(where).own_flags = F /\ Put(where).prc_blocking = P /\ Put(where).sig = S
  BY <1>13 DEF At, Table, Place
<1> HIDE DEF Put
<1>15. ASSUME NEW where \in {"wait", "post"} PROVE Put(where) \in GoodTable
  <2>1. BlockOf(T, r) \in GoodBlock /\ r \in Queued(BlockOf(T, r))
    BY BlockOfGood
  <2>2. Put(where).lbl = [T.lbl EXCEPT ![lrq_lock[r]] = BlockOf(T, r)]
    BY <1>1, <1>14, OwnerOfRequest DEF BlockOf, Table
  <2> QED BY <1>14, <2>1, <2>2, MoveGood DEF Place
<1>16. ASSUME NEW i \in 1 .. upto, T.own_count[q[i]] > 0, T.own_blocks[q[i]] # << >>
       PROVE  "signaled" \in F[q[i]]
  <2>1. i \in 1 .. Len(q) /\ q[i] \in Owners
    BY <1>2, <1>5, <1>16
  <2>2. CASE "signaled" \in T.own_flags[q[i]]
    BY <1>9, <2>1, <2>2
  <2>3. CASE "signaled" \notin T.own_flags[q[i]] /\ ~local(i)
    <3>1. idle(i) /\ ~local(i)
      BY <1>16, <2>3
    <3>2. q[i] \in signaled
      BY <1>10, <1>11, <1>16, <3>1
    <3> QED BY <1>9, <2>1, <3>2
  <2>4. CASE "signaled" \notin T.own_flags[q[i]] /\ local(i)
    <3>1. i \in runs
      BY <1>2, <1>16, <2>1, <2>4
    <3>2. runs # {} /\ upto <= i
      BY <1>3, <3>1
    <3>3. i = upto
      <4>1. upto \in Nat /\ i \in Nat /\ i <= upto
        BY <1>5, <1>16
      <4> QED BY <3>2, <4>1
    <3>4. q[i] \in signaled
      BY <1>11, <3>2, <3>3
    <3> QED BY <1>9, <2>1, <3>4
  <2> QED BY <2>2, <2>3, <2>4
<1>17. ASSUME NEW o \in Owners
       PROVE  /\ "signaled" \in T.own_flags[o] => "signaled" \in F[o]
              /\ "signaled" \in F[o] => \/ "signaled" \in T.own_flags[o]
                                        \/ P[own_process[o]]
                                        \/ runs # {} /\ o = q[upto]
  <2>1. own_process[o] \in Processes
    BY ManagerAssumption
  <2> QED BY <1>9, <1>11, <2>1
<1>18. \A p \in Processes : T.prc_blocking[p] => P[p]
  BY <1>9
<1>19. CASE runs = {}
  <2> DEFINE V == Put("wait")
  <2>1. V \in GoodTable /\ upto = Len(q) /\ signal_owners(T, r, q) = V
    BY <1>3, <1>4, <1>15, <1>19
  <2>2. V.pc = [T.pc EXCEPT ![r] = "wait"]
    BY <1>14
  <2>3. SignalsUpTo(T, V, r, q, upto)
    BY <1>12, <1>14, <1>16, <1>17, <1>18, <1>19 DEF SignalsUpTo
  <2> HIDE DEF V
  <2> QED BY <1>5, <2>1, <2>2, <2>3 DEF WalkedTo
<1>20. CASE runs # {}
  <2> DEFINE V == Put("post")
  <2>1. V \in GoodTable /\ upto \in runs /\ signal_owners(T, r, q) = blocking_action(V, r, q[upto])
    BY <1>3, <1>4, <1>15, <1>20
  <2>2. V.pc = [T.pc EXCEPT ![r] = "post"]
    BY <1>14
  <2>3. V.pc[r] = "post"
    BY <1>1, <2>2 DEF Table
  <2>4. SignalsUpTo(T, V, r, q, upto)
    BY <1>5, <1>12, <1>14, <1>16, <1>17, <1>18, <1>20, <2>3 DEF SignalsUpTo
  <2> HIDE DEF V
  <2>5. upto \in 1 .. Len(q)
    BY <1>2, <2>1
  <2>6. /\ q[upto] \in Owners /\ own_process[q[upto]] = ProcessOf(r)
        /\ T.own_count[q[upto]] > 0 /\ T.own_blocks[q[upto]] # << >>
    BY <1>2, <2>1, <2>5
  <2> QED BY <1>5, <2>1, <2>2, <2>4, <2>5, <2>6 DEF WalkedTo
<1> QED BY <1>19, <1>20
\* The thread that waits for r is to signal the owners q; the table is in order but for
\* its own list and the owners it is going to signal.
Signalling(T, r, q) ==
  /\ T.pc[r] \in {"wait", "post"} /\ T.ast[r] = NoOwner /\ T.sig[r] \in {<< >>, q}
  /\ \A j \in DOMAIN q : Neighbour(r, q[j])
  /\ AstsInPlace(T) /\ QueueExact(T)
  /\ \A x \in Requests \ {r} : ListInPlace(T, x)
  /\ \A o \in Living(T) :
       Served(T, o) /\ (Announced(T, o) \/ \E j \in DOMAIN q : q[j] = o)

\* Behind the first k owners of the list, those told are marked and the others listed.
LEMMA WalkedAnnounced ==
  ASSUME NEW T \in GoodTable, NEW V \in GoodTable, NEW r \in Requests, NEW q \in Seq(Owners),
         NEW k \in 0 .. Len(q), Signalling(T, r, q), SignalsUpTo(T, V, r, q, k),
         NEW o \in Living(T)
  PROVE  Announced(V, o)
<1>1. Len(q) \in Nat /\ T \in Table /\ V \in Table
  BY DEF GoodTable
<1>2. T.sig \in [Requests -> Seq(Owners)] /\ o \in Owners
  BY <1>1 DEF Table, Living
<1>3. V.sig[r] = SubSeq(q, k + 1, Len(q)) /\ \A x \in Requests \ {r} : V.sig[x] = T.sig[x]
  BY <1>2 DEF SignalsUpTo
<1>4. SUFFICES ASSUME V.own_blocks[o] # << >>, V.own_count[o] > 0
               PROVE  \/ "signaled" \in V.own_flags[o]
                      \/ \E x \in Requests : \E j \in DOMAIN V.sig[x] : V.sig[x][j] = o
  BY DEF Announced
<1>5. T.own_blocks[o] # << >> /\ T.own_count[o] > 0
  BY <1>4 DEF SignalsUpTo
<1>6. ASSUME NEW j \in DOMAIN q, q[j] = o
      PROVE  \/ "signaled" \in V.own_flags[o]
             \/ \E x \in Requests : \E i \in DOMAIN V.sig[x] : V.sig[x][i] = o
  <2>1. j \in 1 .. Len(q)
    OBVIOUS
  <2>2. CASE j <= k
    <3>1. j \in 1 .. k
      BY <2>1, <2>2
    <3> QED BY <1>5, <1>6, <3>1 DEF SignalsUpTo
  <2>3. CASE j > k
    <3>1. j - k \in DOMAIN SubSeq(q, k + 1, Len(q)) /\ SubSeq(q, k + 1, Len(q))[j - k] = q[j]
      BY <1>1, <2>1, <2>3
    <3> QED BY <1>3, <1>6, <3>1
  <2> QED BY <1>1, <2>1, <2>2, <2>3
<1>7. CASE \E j \in DOMAIN q : q[j] = o
  BY <1>6, <1>7
<1>8. CASE Announced(T, o)
  <2>1. CASE "signaled" \in T.own_flags[o]
    BY <1>2, <2>1 DEF SignalsUpTo
  <2>2. CASE \E x \in Requests : \E j \in DOMAIN T.sig[x] : T.sig[x][j] = o
    <3>1. PICK x \in Requests : \E j \in DOMAIN T.sig[x] : T.sig[x][j] = o
      BY <2>2
    <3>2. CASE x # r
      BY <1>3, <3>1, <3>2
    <3>3. CASE x = r
      <4>1. T.sig[r] = q
        <5>1. T.sig[r] # << >>
          BY <3>1, <3>3
        <5> QED BY <5>1 DEF Signalling
      <4> QED BY <1>6, <3>1, <3>3, <4>1
    <3> QED BY <3>2, <3>3
  <2> QED BY <1>5, <1>8, <2>1, <2>2 DEF Announced
<1> QED BY <1>7, <1>8 DEF Signalling

\* The list of the thread that waits for r, or what is left of it, is in order.
LEMMA WalkedLists ==
  ASSUME NEW T \in GoodTable, NEW V \in GoodTable, NEW r \in Requests, NEW q \in Seq(Owners),
         NEW k \in 0 .. Len(q), Signalling(T, r, q), SignalsUpTo(T, V, r, q, k)
  PROVE  /\ \A x \in Requests \ {r} : V.sig[x] = T.sig[x]
         /\ k = Len(q) => V.sig[r] = << >>
         /\ \A j \in DOMAIN V.sig[r] : Neighbour(r, V.sig[r][j])
<1>1. Len(q) \in Nat /\ T.sig \in [Requests -> Seq(Owners)]
  BY DEF GoodTable, Table
<1>2. V.sig[r] = SubSeq(q, k + 1, Len(q)) /\ \A x \in Requests \ {r} : V.sig[x] = T.sig[x]
  BY <1>1 DEF SignalsUpTo
<1>3. k = Len(q) => SubSeq(q, k + 1, Len(q)) = << >>
  BY <1>1
<1>4. \A j \in DOMAIN SubSeq(q, k + 1, Len(q)) :
        j + k \in DOMAIN q /\ SubSeq(q, k + 1, Len(q))[j] = q[j + k]
  BY <1>1
<1>5. \A j \in DOMAIN V.sig[r] : Neighbour(r, V.sig[r][j])
  BY <1>2, <1>4 DEF Signalling
<1> QED BY <1>2, <1>3, <1>5

\* A thread that has told the owners q leaves the table in order: each of them is
\* marked, or listed for the time when the AST that is now running returns.
LEMMA SignalHandover ==
  ASSUME NEW T \in GoodTable, NEW r \in Requests, NEW q \in Seq(Owners), Signalling(T, r, q)
  PROVE  Handover(signal_owners(T, r, q))
<1>1. T \in Table /\ r \in Threads /\ T.pc \in [Requests -> Place]
  BY DEF GoodTable, Table, Threads
<1>2. T.pc[r] \in {"wait", "post"}
  BY DEF Signalling
<1>0. PICK V \in GoodTable, k \in 0 .. Len(q) : WalkedTo(T, V, r, q, k)
  BY <1>2, SignalsWalk
<1>3. /\ SignalsUpTo(T, V, r, q, k)
      /\ \/ /\ k = Len(q) /\ V.pc = [T.pc EXCEPT ![r] = "wait"]
            /\ signal_owners(T, r, q) = V
         \/ /\ k >= 1 /\ V.pc = [T.pc EXCEPT ![r] = "post"]
            /\ q[k] \in Owners /\ own_process[q[k]] = ProcessOf(r)
            /\ T.own_count[q[k]] > 0 /\ T.own_blocks[q[k]] # << >>
            /\ signal_owners(T, r, q) = blocking_action(V, r, q[k])
  BY <1>0 DEF WalkedTo
<1>4. /\ \A x \in Requests \ {r} : V.sig[x] = T.sig[x]
      /\ k = Len(q) => V.sig[r] = << >>
      /\ \A j \in DOMAIN V.sig[r] : Neighbour(r, V.sig[r][j])
  BY <1>3, WalkedLists
<1>5. \A x \in Requests \ {r} : V.pc[x] = T.pc[x]
  BY <1>1, <1>3
<1>6. V.pc[r] # "free" /\ \A x \in Requests : Blocking(V, x) <=> Blocking(T, x)
  BY <1>1, <1>3 DEF SignalsUpTo, Blocking, BlockOf
<1>7. QueueExact(V)
  <2>1. \A x \in Requests : T.pc[x] # "free" => V.pc[x] # "free"
    BY <1>5, <1>6
  <2>2. V.lhb_owners = T.lhb_owners /\ V.own_blocks = T.own_blocks /\ QueueExact(T)
    BY <1>3 DEF SignalsUpTo, Signalling
  <2>3. \A o \in Owners : \A i \in DOMAIN T.own_blocks[o] :
          T.own_blocks[o][i] # Repost => T.own_blocks[o][i] \in Requests
    BY <1>1 DEF Table
  <2> QED BY <1>6, <2>1, <2>2, <2>3 DEF QueueExact
<1>8. \A o \in Living(V) : o \in Living(T) /\ o \in Owners /\ own_process[o] \in Processes
  BY <1>1, <1>3, ManagerAssumption DEF SignalsUpTo, Living, Table
<1>9. \A o \in Living(V) : Announced(V, o)
  BY <1>3, <1>8, WalkedAnnounced
<1>10. CASE k = Len(q) /\ V.pc = [T.pc EXCEPT ![r] = "wait"] /\ signal_owners(T, r, q) = V
  <2>1. V.pc[r] = "wait" /\ V.ast = T.ast /\ V.lhb_owners = T.lhb_owners
    BY <1>1, <1>3, <1>10 DEF SignalsUpTo
  <2>2. AstsInPlace(V)
    BY <1>5, <2>1 DEF Signalling, AstsInPlace
  <2>3. ListsInPlace(V)
    <3>1. ListInPlace(V, r)
      BY <1>4, <1>10, <2>1 DEF ListInPlace
    <3>2. \A x \in Requests \ {r} : ListInPlace(V, x)
      BY <1>4, <1>5, <2>1 DEF Signalling, ListInPlace
    <3> QED BY <3>1, <3>2 DEF ListsInPlace
  <2>4. ASSUME NEW o \in Living(V) PROVE Served(V, o)
    <3>1. Served(T, o) /\ o \in Owners /\ own_process[o] \in Processes
      BY <1>8 DEF Signalling
    <3> QED BY <1>3, <2>1, <3>1 DEF SignalsUpTo, Served
  <2> QED BY <1>7, <1>9, <1>10, <2>2, <2>3, <2>4 DEF Handover
<1>11. CASE /\ k >= 1 /\ V.pc = [T.pc EXCEPT ![r] = "post"]
            /\ q[k] \in Owners /\ own_process[q[k]] = ProcessOf(r)
            /\ T.own_count[q[k]] > 0 /\ T.own_blocks[q[k]] # << >>
            /\ signal_owners(T, r, q) = blocking_action(V, r, q[k])
  <2> DEFINE n == q[k]
             W == blocking_action(V, r, n)
  <2>1. V.pc[r] = "post" /\ V.ast = T.ast /\ V.lhb_owners = T.lhb_owners
    BY <1>1, <1>3, <1>11 DEF SignalsUpTo
  <2>2. n \in Owners /\ V.own_count[n] > 0 /\ V.own_blocks[n] # << >> /\ own_process[n] = ProcessOf(r)
    BY <1>3, <1>11 DEF SignalsUpTo
  <2>3. Neighbour(r, n)
    <3>1. k \in DOMAIN q
      BY <1>11
    <3> QED BY <3>1 DEF Signalling
  <2> HIDE DEF n
  <2>4. /\ SameLists(V, W) /\ W.own_flags = V.own_flags
        /\ W.own_blocks = [V.own_blocks EXCEPT ![n] = Tail(V.own_blocks[n])]
        /\ W.ast = [V.ast EXCEPT ![r] = n]
        /\ \A x \in Requests : Blocking(W, x) <=> Blocking(V, x) /\ x # Head(V.own_blocks[n])
    BY ZenonT(60), <1>1, <2>2, ActionRunsIs DEF Starts
  <2> HIDE DEF W
  <2>5. QueueExact(W)
    BY <1>7, <2>2, <2>4, ActionQueueExact DEF SameLists
  <2>6. /\ W.ast[r] = n /\ \A t \in Threads \ {r} : W.ast[t] = T.ast[t]
        /\ n # NoOwner /\ n \in V.lhb_owners
    BY <1>1, <1>7, <2>1, <2>2, <2>4, ManagerAssumption DEF Table, QueueExact
  <2>7. W.pc = V.pc /\ W.sig = V.sig /\ W.lhb_owners = T.lhb_owners
    BY <2>1, <2>4 DEF SameLists
  <2>8. AstsInPlace(W)
    <3>1. ASSUME NEW t \in Threads \ {r}, W.ast[t] # NoOwner
          PROVE  /\ W.ast[t] \in W.lhb_owners
                 /\ own_process[W.ast[t]] = ProcessOf(t)
                 /\ t \in Owners => W.ast[t] = t
                 /\ t \in Requests => W.pc[t] = "post" /\ Neighbour(t, W.ast[t])
      BY <1>5, <2>6, <2>7, <3>1 DEF Signalling, AstsInPlace
    <3>2. r \notin Owners
      BY ManagerAssumption
    <3> QED BY <2>1, <2>2, <2>3, <2>6, <2>7, <3>1, <3>2 DEF AstsInPlace
  <2>9. ListsInPlace(W)
    <3>1. ListInPlace(W, r)
      BY <1>4, <2>1, <2>6, <2>7 DEF ListInPlace
    <3>2. \A x \in Requests \ {r} : ListInPlace(W, x)
      <4>1. \A x \in Requests \ {r} : W.ast[x] = T.ast[x] /\ W.pc[x] = T.pc[x] /\ W.sig[x] = T.sig[x]
        BY <1>4, <1>5, <2>6, <2>7 DEF Threads
      <4> QED BY <4>1 DEF Signalling, ListInPlace
    <3> QED BY <3>1, <3>2 DEF ListsInPlace
  <2>10. ASSUME NEW o \in Living(W) PROVE Served(W, o) /\ Announced(W, o)
    <3>1. o \in Living(V) /\ o \in Owners /\ own_process[o] \in Processes
      BY <1>8, <2>4 DEF SameLists, Living
    <3>2. Served(T, o) /\ Announced(V, o)
      BY <1>8, <1>9, <3>1 DEF Signalling
    <3>3. W.own_blocks[o] # << >> => V.own_blocks[o] # << >>
      <4>1. V.own_blocks \in [Owners -> Seq(Requests \cup {Repost})]
        BY DEF GoodTable, Table
      <4> QED BY <2>2, <2>4, <3>1, <4>1
    <3>4. Announced(W, o)
      BY SMTT(30), <2>4, <3>2, <3>3 DEF Announced, SameLists
    <3>5. ASSUME "signaled" \in W.own_flags[o]
          PROVE  \/ \E t \in Threads : W.ast[t] = o
                 \/ W.prc_blocking[own_process[o]]
                 \/ W.ast[own_process[o]] # NoOwner
      <4>1. \/ "signaled" \in T.own_flags[o]
            \/ V.prc_blocking[own_process[o]]
            \/ o = n
        BY <1>3, <2>4, <3>1, <3>5 DEF SignalsUpTo, n
      <4>2. W.prc_blocking = V.prc_blocking
        BY <2>4 DEF SameLists
      <4>3. CASE "signaled" \in T.own_flags[o]
        <5>1. \/ \E t \in Threads : T.ast[t] = o
              \/ T.prc_blocking[own_process[o]]
              \/ T.ast[own_process[o]] # NoOwner
          BY <3>2, <4>3 DEF Served
        <5>2. CASE \E t \in Threads : T.ast[t] = o
          <6>1. PICK t \in Threads : T.ast[t] = o
            BY <5>2
          <6>2. t # r
            BY <3>1, <6>1, ManagerAssumption DEF Signalling
          <6> QED BY <2>6, <6>1, <6>2
        <5>3. CASE T.prc_blocking[own_process[o]]
          BY <1>3, <3>1, <4>2, <5>3 DEF SignalsUpTo
        <5>4. CASE T.ast[own_process[o]] # NoOwner
          <6>1. own_process[o] \in Threads \ {r}
            BY <3>1, ManagerAssumption DEF Threads
          <6> QED BY <2>6, <5>4, <6>1
        <5> QED BY <5>1, <5>2, <5>3, <5>4
      <4>4. CASE o = n
        BY <1>1, <2>6, <4>4
      <4> QED BY <4>1, <4>2, <4>3, <4>4
    <3> QED BY <3>4, <3>5 DEF Served
  <2> QED BY <1>11, <2>5, <2>8, <2>9, <2>10 DEF Handover, W, n
<1> QED BY <1>3, <1>10, <1>11
\* What EntriesAt keeps of a sequence.
LEMMA EntriesAtKeeps ==
  ASSUME NEW S, NEW q \in Seq(S), NEW P \in SUBSET DOMAIN q
  PROVE  LET e == EntriesAt(q, P)
         IN  /\ e \in Seq(S)
             /\ \A k \in DOMAIN e : \E i \in P : e[k] = q[i]
             /\ \A i \in P : \E k \in DOMAIN e : e[k] = q[i]
             /\ (\A i, j \in DOMAIN q : q[i] = q[j] => i = j)
                  => \A j, k \in DOMAIN e : e[j] = e[k] => j = k
             /\ P = {} => e = << >>
<1> DEFINE e == EntriesAt(q, P)
<1>1. e \in Seq(S)
  BY EntriesAtType
<1>2. PICK n \in Nat : \E f \in [1 .. n -> P] : Listed(q, P, n, f)
  BY EntriesAtIs
<1>3. PICK f \in [1 .. n -> P] : Listed(q, P, n, f)
  BY <1>2
<1>4. /\ e = [k \in 1 .. n |-> q[f[k]]]
      /\ \A j, k \in 1 .. n : f[j] = f[k] => j = k
      /\ \A i \in P : \E k \in 1 .. n : f[k] = i
  BY <1>3 DEF Listed
<1> HIDE DEF e
<1>5. DOMAIN e = 1 .. n /\ \A k \in 1 .. n : e[k] = q[f[k]] /\ f[k] \in P
  BY <1>4
<1>6. \A k \in DOMAIN e : \E i \in P : e[k] = q[i]
  BY <1>5
<1>7. \A i \in P : \E k \in DOMAIN e : e[k] = q[i]
  BY <1>4, <1>5
<1>8. ASSUME \A i, j \in DOMAIN q : q[i] = q[j] => i = j,
             NEW j \in DOMAIN e, NEW k \in DOMAIN e, e[j] = e[k]
      PROVE  j = k
  <2>1. f[j] \in DOMAIN q /\ f[k] \in DOMAIN q /\ q[f[j]] = q[f[k]]
    BY <1>5, <1>8
  <2>2. f[j] = f[k]
    BY <1>8, <2>1
  <2> QED BY <1>4, <1>5, <2>2
<1>9. ASSUME P = {} PROVE e = << >>
  <2>1. DOMAIN e = {}
    BY <1>6, <1>9
  <2> QED BY <1>1, <2>1
<1> QED BY <1>1, <1>6, <1>7, <1>8, <1>9 DEF e

\* post_blockage finds requests of the queue, each once.
LEMMA BlockersIs ==
  ASSUME NEW B \in GoodBlock, NEW r, NEW others
  PROVE  LET bs == Blockers(B, r, others)
         IN  /\ bs \in Seq(Requests)
             /\ \A i \in DOMAIN bs : bs[i] \in Queued(B) /\ bs[i] \in others
             /\ \A i, j \in DOMAIN bs : bs[i] = bs[j] => i = j
<1> DEFINE q == B.lbl_requests
           all == {i \in DOMAIN q : IsBlocker(B, r, q[i], others)}
           exclusive == {i \in all : B.lrq_state[q[i]] = LCK_EX}
           P == {i \in all : \A j \in exclusive : i <= j}
           bs == Blockers(B, r, others)
<1>1. q \in Seq(Requests) /\ \A i, j \in DOMAIN q : q[i] = q[j] => i = j
  BY DEF GoodBlock, Block, BlockInv, NoDuplicates
<1>2. P \in SUBSET DOMAIN q /\ \A i \in P : q[i] \in others
  BY DEF IsBlocker
<1>3. bs = EntriesAt(q, P)
  BY DEF Blockers
<1>4. \A i \in DOMAIN q : q[i] \in Queued(B)
  BY DEF Queued
<1> HIDE DEF P, bs, q
<1>5. /\ bs \in Seq(Requests)
      /\ \A k \in DOMAIN bs : \E i \in P : bs[k] = q[i]
      /\ \A j, k \in DOMAIN bs : bs[j] = bs[k] => j = k
  BY <1>1, <1>2, <1>3, EntriesAtKeeps
<1> QED BY <1>2, <1>4, <1>5 DEF bs

\* What post_blockage appends to the blocking queue of owner o.
Appended(bs, new, o) ==
  EntriesAt(bs, {i \in DOMAIN bs : lrq_owner[bs[i]] = o /\ bs[i] \in new})

\* What a holder gets appended to its blocking queue are the new requests of its owner,
\* once each.
LEMMA AppendedIs ==
  ASSUME NEW bs \in Seq(Requests), \A i, j \in DOMAIN bs : bs[i] = bs[j] => i = j,
         NEW new, NEW o
  PROVE  LET e == Appended(bs, new, o)
         IN  /\ e \in Seq(Requests) /\ e \in Seq(Requests \cup {Repost})
             /\ \A k \in DOMAIN e : /\ lrq_owner[e[k]] = o /\ e[k] \in new
                                    /\ \E i \in DOMAIN bs : bs[i] = e[k]
             /\ \A i \in DOMAIN bs : lrq_owner[bs[i]] = o /\ bs[i] \in new
                  => \E k \in DOMAIN e : e[k] = bs[i]
             /\ \A j, k \in DOMAIN e : e[j] = e[k] => j = k
<1> DEFINE P == {i \in DOMAIN bs : lrq_owner[bs[i]] = o /\ bs[i] \in new}
           e == Appended(bs, new, o)
<1>1. P \in SUBSET DOMAIN bs
  OBVIOUS
<1>2. \A i \in DOMAIN bs : i \in P <=> lrq_owner[bs[i]] = o /\ bs[i] \in new
  OBVIOUS
<1>3. e = EntriesAt(bs, P)
  BY DEF Appended
<1> HIDE DEF P, e
<1>4. /\ e \in Seq(Requests)
      /\ \A k \in DOMAIN e : \E i \in P : e[k] = bs[i]
      /\ \A i \in P : \E k \in DOMAIN e : e[k] = bs[i]
      /\ \A j, k \in DOMAIN e : e[j] = e[k] => j = k
  BY <1>1, <1>3, EntriesAtKeeps
<1>5. e \in Seq(Requests \cup {Repost})
  BY <1>4
<1>6. \A k \in DOMAIN e : /\ lrq_owner[e[k]] = o /\ e[k] \in new
                          /\ \E i \in DOMAIN bs : bs[i] = e[k]
  BY <1>1, <1>2, <1>4
<1>7. \A i \in DOMAIN bs : lrq_owner[bs[i]] = o /\ bs[i] \in new
                  => \E k \in DOMAIN e : e[k] = bs[i]
  BY <1>2, <1>4
<1> QED BY <1>4, <1>5, <1>6, <1>7 DEF e
\* Requests that were not marked are marked and appended to the queues of their owners.
LEMMA QueueGrows ==
  ASSUME NEW T \in GoodTable, NEW U, NEW more, NEW new \in SUBSET Requests, QueueExact(T),
         U.lhb_owners = T.lhb_owners, U.pc = T.pc,
         \A o \in Owners :
           /\ more[o] \in Seq(Requests)
           /\ U.own_blocks[o] = T.own_blocks[o] \o more[o]
           /\ \A k \in DOMAIN more[o] : lrq_owner[more[o][k]] = o /\ more[o][k] \in new
           /\ \A j, k \in DOMAIN more[o] : more[o][j] = more[o][k] => j = k,
         \A x \in new : /\ ~Blocking(T, x) /\ T.pc[x] # "free"
                        /\ lrq_owner[x] \in T.lhb_owners
                        /\ \E k \in DOMAIN more[lrq_owner[x]] : more[lrq_owner[x]][k] = x,
         \A x \in Requests : Blocking(U, x) <=> Blocking(T, x) \/ x \in new
  PROVE  QueueExact(U)
<1>1. ASSUME NEW o \in Owners
      PROVE  /\ o \notin U.lhb_owners => U.own_blocks[o] = << >>
             /\ \A i \in DOMAIN U.own_blocks[o] : U.own_blocks[o][i] # Repost =>
                  /\ lrq_owner[U.own_blocks[o][i]] = o
                  /\ Blocking(U, U.own_blocks[o][i])
                  /\ \A j \in DOMAIN U.own_blocks[o] :
                       U.own_blocks[o][i] = U.own_blocks[o][j] => i = j
  <2> DEFINE q == T.own_blocks[o]
             e == more[o]
             u == U.own_blocks[o]
  <2>1. /\ q \in Seq(Requests \cup {Repost}) /\ e \in Seq(Requests) /\ u = q \o e
        /\ \A k \in DOMAIN e : lrq_owner[e[k]] = o /\ e[k] \in new
        /\ \A j, k \in DOMAIN e : e[j] = e[k] => j = k
    BY DEF GoodTable, Table
  <2>2. /\ o \notin T.lhb_owners => q = << >>
        /\ \A i \in DOMAIN q : q[i] # Repost =>
             /\ q[i] \in Requests /\ lrq_owner[q[i]] = o /\ Blocking(T, q[i])
             /\ \A j \in DOMAIN q : q[i] = q[j] => i = j
    BY <2>1 DEF QueueExact
  <2>3. \A x \in new : ~Blocking(T, x) /\ x \in Requests /\ lrq_owner[x] \in T.lhb_owners
    OBVIOUS
  <2> HIDE DEF q, e, u
  <2>4. /\ Len(q) \in Nat /\ Len(e) \in Nat /\ DOMAIN q = 1 .. Len(q) /\ DOMAIN e = 1 .. Len(e)
        /\ DOMAIN u = 1 .. (Len(q) + Len(e))
        /\ \A i \in 1 .. Len(q) : u[i] = q[i]
        /\ \A i \in Len(q) + 1 .. Len(q) + Len(e) : u[i] = e[i - Len(q)] /\ i - Len(q) \in 1 .. Len(e)
    BY <2>1
  <2>5. ASSUME o \notin U.lhb_owners PROVE u = << >>
    <3>1. q = << >>
      BY <2>2, <2>5
    <3>2. DOMAIN e = {}
      BY <2>1, <2>3, <2>5
    <3>3. e = << >>
      BY <2>1, <3>2
    <3> QED BY <2>1, <3>1, <3>3
  <2>6. ASSUME NEW i \in DOMAIN u, u[i] # Repost
        PROVE  /\ lrq_owner[u[i]] = o /\ Blocking(U, u[i])
               /\ \A j \in DOMAIN u : u[i] = u[j] => i = j
    <3>1. CASE i \in 1 .. Len(q)
      <4>1. /\ u[i] = q[i] /\ q[i] \in Requests /\ lrq_owner[q[i]] = o /\ Blocking(T, q[i])
            /\ \A j \in DOMAIN q : q[i] = q[j] => i = j
        BY <2>2, <2>4, <2>6, <3>1
      <4>2. ASSUME NEW j \in DOMAIN u, u[i] = u[j] PROVE i = j
        <5>1. CASE j \in 1 .. Len(q)
          BY <2>4, <4>1, <4>2, <5>1
        <5>2. CASE j \in Len(q) + 1 .. Len(q) + Len(e)
          <6>1. u[j] \in new
            BY <2>1, <2>4, <5>2
          <6> QED BY <2>3, <4>1, <4>2, <6>1
        <5> QED BY <2>4, <5>1, <5>2
      <4> QED BY <4>1, <4>2
    <3>2. CASE i \in Len(q) + 1 .. Len(q) + Len(e)
      <4>1. /\ u[i] = e[i - Len(q)] /\ i - Len(q) \in DOMAIN e
            /\ u[i] \in new /\ u[i] \in Requests /\ lrq_owner[u[i]] = o
        BY <2>1, <2>4, <3>2
      <4>2. ASSUME NEW j \in DOMAIN u, u[i] = u[j] PROVE i = j
        <5>1. CASE j \in 1 .. Len(q)
          <6>1. u[j] = q[j] /\ q[j] # Repost
            BY <2>4, <2>6, <4>2, <5>1
          <6>2. Blocking(T, q[j])
            BY <2>2, <2>4, <5>1, <6>1
          <6> QED BY <2>3, <4>1, <4>2, <6>1, <6>2
        <5>2. CASE j \in Len(q) + 1 .. Len(q) + Len(e)
          <6>1. u[j] = e[j - Len(q)] /\ j - Len(q) \in DOMAIN e
            BY <2>4, <5>2
          <6>2. i - Len(q) = j - Len(q)
            BY <2>1, <4>1, <4>2, <6>1
          <6> QED BY <2>4, <3>2, <5>2, <6>2
        <5> QED BY <2>4, <5>1, <5>2
      <4> QED BY <4>1, <4>2
    <3> QED BY <2>4, <2>6, <3>1, <3>2
  <2> QED BY <2>5, <2>6 DEF u
<1>2. ASSUME NEW x \in Requests, Blocking(U, x)
      PROVE  /\ U.pc[x] # "free"
             /\ \E i \in DOMAIN U.own_blocks[lrq_owner[x]] : U.own_blocks[lrq_owner[x]][i] = x
  <2> DEFINE o == lrq_owner[x]
             q == T.own_blocks[o]
             e == more[o]
  <2>1. /\ o \in Owners /\ q \in Seq(Requests \cup {Repost}) /\ e \in Seq(Requests)
        /\ U.own_blocks[o] = q \o e
    BY OwnerOfRequest DEF GoodTable, Table
  <2>2. T.pc[x] # "free" /\ \/ \E i \in DOMAIN q : q[i] = x
                            \/ \E k \in DOMAIN e : e[k] = x
    BY <1>2 DEF QueueExact
  <2> HIDE DEF q, e
  <2>3. \E i \in DOMAIN (q \o e) : (q \o e)[i] = x
    <3>1. CASE \E i \in DOMAIN q : q[i] = x
      <4>1. PICK i \in DOMAIN q : q[i] = x
        BY <3>1
      <4>2. i \in DOMAIN (q \o e) /\ (q \o e)[i] = x
        BY <2>1, <4>1
      <4> QED BY <4>2
    <3>2. CASE \E k \in DOMAIN e : e[k] = x
      <4>1. PICK k \in DOMAIN e : e[k] = x
        BY <3>2
      <4>2. Len(q) + k \in DOMAIN (q \o e) /\ (q \o e)[Len(q) + k] = x
        BY <2>1, <4>1
      <4> QED BY <4>2
    <3> QED BY <2>2, <3>1, <3>2
  <2> QED BY <2>1, <2>2, <2>3
<1> QED BY <1>1, <1>2 DEF QueueExact
\* mark_blocking marks the given requests and no others.
LEMMA MarkedBlocking ==
  ASSUME NEW B \in Block, NEW S, NEW x \in Requests
  PROVE  "blocking" \in mark_blocking(B, S).lrq_flags[x] <=> "blocking" \in B.lrq_flags[x] \/ x \in S
<1> DEFINE C == ClearFlags(B, S, {"blocking_seen", "just_granted"})
<1>1. C \in Block /\ ("blocking" \in C.lrq_flags[x] <=> "blocking" \in B.lrq_flags[x])
  BY DEF ClearFlags, Block
<1>2. mark_blocking(B, S) = AddFlags(C, S, {"blocking"})
  BY DEF mark_blocking
<1> HIDE DEF C
<1> QED BY <1>1, <1>2 DEF AddFlags, Block

\* The holders in the way of a waiting request get their entry and are told.
LEMMA PostBlockageHandover ==
  ASSUME NEW T \in GoodTable, NEW r \in Requests, T.pc[r] = "wait", Registered(T), Handover(T)
  PROVE  Handover(post_blockage(T, r))
<1> DEFINE B == BlockOf(T, r)
           others == {b \in Requests : ~SameOwner(b, r)}
           bs == Blockers(B, r, others)
           new == {b \in Requests : \E i \in DOMAIN bs : bs[i] = b /\ "blocking" \notin B.lrq_flags[b]}
           V == WithBlock(T, r, mark_blocking(B, new))
           more == [o \in Owners |-> Appended(bs, new, o)]
           u == [o \in Owners |-> T.own_blocks[o] \o Appended(bs, new, o)]
           T1 == [V EXCEPT !.own_blocks = u]
           q == blocking_owners(bs)
<1>1. T \in Table /\ B \in GoodBlock /\ B \in Block
  BY BlockOfGood DEF GoodBlock
<1>2. post_blockage(T, r) = signal_owners(T1, r, q)
  BY DEF post_blockage, Appended
<1>3. others \in SUBSET Requests /\ \A b \in others : lrq_owner[b] # lrq_owner[r]
  BY DEF SameOwner
<1> HIDE DEF others
<1>4. /\ bs \in Seq(Requests)
      /\ \A i \in DOMAIN bs : bs[i] \in Queued(B) /\ bs[i] \in others
      /\ \A i, j \in DOMAIN bs : bs[i] = bs[j] => i = j
  <2> HIDE DEF B
  <2> QED BY <1>1, BlockersIs
<1>5. \A x : x \in new <=> \E i \in DOMAIN bs : bs[i] = x /\ "blocking" \notin B.lrq_flags[x]
  <2> HIDE DEF B, bs
  <2> QED BY <1>4
<1>6. \A i \in DOMAIN bs : /\ lrq_lock[bs[i]] = lrq_lock[r] /\ BlockOf(T, bs[i]) = B
                           /\ T.pc[bs[i]] # "free" /\ bs[i] # r
                           /\ lrq_owner[bs[i]] \in T.lhb_owners
  <2>1. ASSUME NEW i \in DOMAIN bs
        PROVE  /\ lrq_lock[bs[i]] = lrq_lock[r] /\ BlockOf(T, bs[i]) = B
               /\ T.pc[bs[i]] # "free" /\ bs[i] # r /\ lrq_owner[bs[i]] \in T.lhb_owners
    <3> DEFINE b == bs[i]
    <3>1. b \in Requests /\ b \in Queued(BlockOf(T, r)) /\ lrq_owner[b] # lrq_owner[r]
      BY <1>3, <1>4
    <3> HIDE DEF b
    <3>2. lrq_lock[b] = lrq_lock[r] /\ BlockOf(T, b) = BlockOf(T, r)
      BY <3>1, QueuedHere
    <3>3. T.pc[b] # "free"
      BY <3>1, <3>2, BlockOfGood
    <3> QED BY <3>1, <3>2, <3>3 DEF Registered, b
  <2> QED BY <2>1
<1> HIDE DEF bs, new
<1>7. /\ V \in GoodTable /\ V \in Table /\ V.pc = T.pc /\ V.dead = T.dead /\ SameOwners(T, V)
      /\ V.lbl = [T.lbl EXCEPT ![lrq_lock[r]] = mark_blocking(B, new)]
      /\ V.own_blocks = T.own_blocks /\ V.own_flags = T.own_flags
      /\ V.ast = T.ast /\ V.sig = T.sig /\ V.prc_blocking = T.prc_blocking
  <2>1. Keeps(B, mark_blocking(B, new))
    BY <1>1, MarkBlockingGood
  <2>2. V \in GoodTable /\ V.pc = T.pc
    BY <2>1, WithBlockGood
  <2>3. /\ V.dead = T.dead /\ SameOwners(T, V)
        /\ V.lbl = [T.lbl EXCEPT ![lrq_lock[r]] = mark_blocking(B, new)]
        /\ V.own_blocks = T.own_blocks /\ V.own_flags = T.own_flags
        /\ V.ast = T.ast /\ V.sig = T.sig /\ V.prc_blocking = T.prc_blocking
    <3> HIDE DEF B
    <3> QED BY <1>1 DEF WithBlock, SameOwners, Table
  <2> HIDE DEF V
  <2> QED BY <2>2, <2>3 DEF GoodTable
<1> HIDE DEF V
<1>8. \A o \in Owners :
        /\ more[o] \in Seq(Requests) /\ more[o] \in Seq(Requests \cup {Repost})
        /\ \A k \in DOMAIN more[o] : /\ lrq_owner[more[o][k]] = o /\ more[o][k] \in new
                                     /\ \E i \in DOMAIN bs : bs[i] = more[o][k]
        /\ \A i \in DOMAIN bs : lrq_owner[bs[i]] = o /\ bs[i] \in new
             => \E k \in DOMAIN more[o] : more[o][k] = bs[i]
        /\ \A j, k \in DOMAIN more[o] : more[o][j] = more[o][k] => j = k
        /\ u[o] = T.own_blocks[o] \o more[o]
  BY <1>4, AppendedIs
<1> HIDE DEF more
<1>16. ASSUME NEW o \in Owners
       PROVE  /\ more[o] \in Seq(Requests) /\ more[o] \in Seq(Requests \cup {Repost})
              /\ T.own_blocks[o] \in Seq(Requests \cup {Repost})
              /\ u[o] = T.own_blocks[o] \o more[o]
              /\ \A k \in DOMAIN more[o] : lrq_owner[more[o][k]] = o /\ \E i \in DOMAIN bs : bs[i] = more[o][k]
              /\ \A i \in DOMAIN bs : lrq_owner[bs[i]] = o /\ bs[i] \in new
                   => \E k \in DOMAIN more[o] : more[o][k] = bs[i]
  BY <1>1, <1>8 DEF Table
<1>9. u \in [Owners -> Seq(Requests \cup {Repost})]
  <2>1. \A o \in Owners : T.own_blocks[o] \in Seq(Requests \cup {Repost})
    BY <1>1 DEF Table
  <2>2. \A o \in Owners : u[o] \in Seq(Requests \cup {Repost})
    <3>1. ASSUME NEW o \in Owners PROVE u[o] \in Seq(Requests \cup {Repost})
      <4> DEFINE old == T.own_blocks[o]
                 e == more[o]
      <4>1. old \in Seq(Requests \cup {Repost}) /\ e \in Seq(Requests \cup {Repost}) /\ u[o] = old \o e
        BY <1>16
      <4> HIDE DEF old, e, u
      <4> QED BY <4>1
    <3> QED BY <3>1
  <2>3. u = [o \in Owners |-> u[o]]
    OBVIOUS
  <2> HIDE DEF u
  <2> QED BY <2>2, <2>3
<1> HIDE DEF u
<1>10. /\ T1 \in Table /\ T1.lbl = V.lbl /\ T1.pc = T.pc /\ T1.dead = T.dead
       /\ T1.lhb_owners = T.lhb_owners /\ T1.own_count = T.own_count
       /\ T1.own_blocks = u /\ T1.own_flags = T.own_flags
       /\ T1.ast = T.ast /\ T1.sig = T.sig /\ T1.prc_blocking = T.prc_blocking
  BY <1>7, <1>9 DEF Table, SameOwners
<1> HIDE DEF T1
<1>11. T1 \in GoodTable
  BY <1>7, <1>10, SameLocks
<1>12. ASSUME NEW x \in Requests PROVE Blocking(T1, x) <=> Blocking(T, x) \/ x \in new
  <2>1. T1.lbl = [T.lbl EXCEPT ![lrq_lock[r]] = mark_blocking(B, new)]
    BY <1>7, <1>10
  <2>2. CASE lrq_lock[x] = lrq_lock[r]
    <3>1. BlockOf(T1, x) = mark_blocking(B, new) /\ BlockOf(T, x) = B
      BY <1>1, <2>1, <2>2, OwnerOfRequest DEF BlockOf, Table
    <3> HIDE DEF B
    <3> QED BY <1>1, <3>1, MarkedBlocking DEF Blocking
  <2>3. CASE lrq_lock[x] # lrq_lock[r]
    <3>1. BlockOf(T1, x) = BlockOf(T, x)
      BY <1>1, <2>1, <2>3, OwnerOfRequest DEF BlockOf, Table
    <3>2. x \notin new
      BY <1>5, <1>6, <2>3
    <3> QED BY <3>1, <3>2 DEF Blocking
  <2> QED BY <2>2, <2>3
<1>13. QueueExact(T1)
  <2>1. new \in SUBSET Requests
    BY DEF new
  <2>2. \A x \in new : /\ ~Blocking(T, x) /\ T.pc[x] # "free"
                       /\ lrq_owner[x] \in T.lhb_owners
                       /\ \E k \in DOMAIN more[lrq_owner[x]] : more[lrq_owner[x]][k] = x
    <3>1. ASSUME NEW x \in new
          PROVE  /\ ~Blocking(T, x) /\ T.pc[x] # "free" /\ lrq_owner[x] \in T.lhb_owners
                 /\ \E k \in DOMAIN more[lrq_owner[x]] : more[lrq_owner[x]][k] = x
      <4>1. PICK i \in DOMAIN bs : bs[i] = x /\ "blocking" \notin B.lrq_flags[x]
        BY <1>5
      <4>2. x \in Requests /\ lrq_owner[x] \in Owners
        BY <2>1, OwnerOfRequest
      <4>3. \E k \in DOMAIN more[lrq_owner[x]] : more[lrq_owner[x]][k] = x
        <5> DEFINE o == lrq_owner[x]
        <5>1. \A j \in DOMAIN bs : lrq_owner[bs[j]] = o /\ bs[j] \in new
                => \E k \in DOMAIN more[o] : more[o][k] = bs[j]
          <6>1. o \in Owners
            BY <4>2
          <6> HIDE DEF o
          <6> QED BY <1>16, <6>1
        <5> QED BY <4>1, <5>1
      <4>4. BlockOf(T, x) = B /\ T.pc[x] # "free" /\ lrq_owner[x] \in T.lhb_owners
        BY <1>6, <4>1
      <4> HIDE DEF B
      <4> QED BY <4>1, <4>3, <4>4 DEF Blocking
    <3> QED BY <3>1
  <2>3. QueueExact(T)
    BY DEF Handover
  <2>4. \A o \in Owners :
           /\ more[o] \in Seq(Requests)
           /\ T1.own_blocks[o] = T.own_blocks[o] \o more[o]
           /\ \A k \in DOMAIN more[o] : lrq_owner[more[o][k]] = o /\ more[o][k] \in new
           /\ \A j, k \in DOMAIN more[o] : more[o][j] = more[o][k] => j = k
    BY <1>8, <1>10
  <2> QED BY <1>10, <1>12, <2>1, <2>2, <2>3, <2>4, QueueGrows
<1>14. /\ q \in Seq(Owners) /\ DOMAIN q = DOMAIN bs
       /\ \A i \in DOMAIN bs : q[i] = lrq_owner[bs[i]]
  <2>1. Len(bs) \in Nat /\ DOMAIN bs = 1 .. Len(bs) /\ \A i \in DOMAIN bs : bs[i] \in Requests
    BY <1>4
  <2>2. q = [i \in 1 .. Len(bs) |-> lrq_owner[bs[i]]]
    BY <2>1 DEF blocking_owners
  <2>3. \A i \in 1 .. Len(bs) : lrq_owner[bs[i]] \in Owners
    BY <2>1, OwnerOfRequest
  <2>4. q \in [1 .. Len(bs) -> Owners]
    BY <2>2, <2>3
  <2> QED BY <2>1, <2>2, <2>4, SeqDef
<1> HIDE DEF q
<1>15. Signalling(T1, r, q)
  <2>1. T1.pc[r] = "wait" /\ T1.ast[r] = NoOwner /\ T1.sig[r] = << >>
    <3>1. T.sig[r] = << >>
      BY DEF Handover, ListsInPlace, ListInPlace
    <3>2. T.ast[r] = NoOwner
      BY DEF Handover, AstsInPlace, Threads
    <3> QED BY <1>10, <3>1, <3>2
  <2>2. \A j \in DOMAIN q : Neighbour(r, q[j])
    BY <1>4, <1>6, <1>14 DEF Neighbour
  <2>3. AstsInPlace(T1)
    BY <1>10 DEF Handover, AstsInPlace
  <2>4. \A x \in Requests \ {r} : ListInPlace(T1, x)
    BY <1>10 DEF Handover, ListsInPlace, ListInPlace
  <2>5. ASSUME NEW o \in Living(T1)
        PROVE  Served(T1, o) /\ (Announced(T1, o) \/ \E j \in DOMAIN q : q[j] = o)
    <3>1. o \in Living(T) /\ o \in Owners
      BY <1>1, <1>10, <2>5 DEF Living, Table
    <3>2. Served(T, o) /\ Announced(T, o)
      BY <3>1 DEF Handover
    <3>3. Served(T1, o)
      BY <1>10, <3>2 DEF Served
    <3>4. CASE more[o] = << >>
      <4>1. u[o] = T.own_blocks[o]
        <5> DEFINE old == T.own_blocks[o]
        <5>1. old \in Seq(Requests \cup {Repost}) /\ u[o] = old \o << >>
          BY <1>16, <3>1, <3>4
        <5> HIDE DEF old
        <5>2. old \o << >> = old
          BY <5>1
        <5> QED BY <5>1, <5>2 DEF old
      <4> QED BY <1>10, <3>2, <3>3, <4>1 DEF Announced
    <3>5. CASE more[o] # << >>
      <4>1. 1 \in DOMAIN more[o]
        <5>1. more[o] \in Seq(Requests)
          BY <1>16, <3>1
        <5> QED BY <3>5, <5>1
      <4>2. PICK i \in DOMAIN bs : bs[i] = more[o][1]
        BY <1>16, <3>1, <4>1
      <4>3. q[i] = o
        <5>1. lrq_owner[more[o][1]] = o
          BY <1>16, <3>1, <4>1
        <5> QED BY <1>14, <4>2, <5>1
      <4> QED BY <1>14, <3>3, <4>2, <4>3
    <3> QED BY <3>4, <3>5
  <2> QED BY <1>13, <2>1, <2>2, <2>3, <2>4, <2>5 DEF Signalling
<1> QED BY <1>2, <1>11, <1>14, <1>15, SignalHandover
-------------------------------------------------------------------------
(* Threads that run ASTs.                                                *)

\* The AST that thread t ran has returned.
Returned(T, S, t) ==
  /\ SameLists(T, S) /\ S.own_flags = T.own_flags /\ S.own_blocks = T.own_blocks
  /\ S.lbl = T.lbl /\ S.ast = [T.ast EXCEPT ![t] = NoOwner]

\* A thread that was running ASTs of owner o runs the next one.
LEMMA ActionRunsHandover ==
  ASSUME NEW T \in GoodTable, NEW t \in Threads, NEW o \in Owners, Handover(T),
         T.ast[t] = o, T.own_count[o] > 0, T.own_blocks[o] # << >>, NEW S \in GoodTable,
         Returned(T, S, t)
  PROVE  Handover(blocking_action(S, t, o))
<1> DEFINE U == blocking_action(S, t, o)
<1>1. T.ast \in [Threads -> Owners \cup {NoOwner}] /\ T \in Table
  BY DEF GoodTable, Table
<1>2. /\ SameLists(T, S) /\ S.own_flags = T.own_flags /\ S.own_blocks = T.own_blocks
      /\ S.lbl = T.lbl /\ S.ast = [T.ast EXCEPT ![t] = NoOwner]
  BY DEF Returned
<1>3. \A x \in Requests : Blocking(S, x) <=> Blocking(T, x)
  BY <1>2 DEF Blocking, BlockOf
<1>4. /\ SameLists(S, U) /\ U.own_flags = S.own_flags
      /\ U.own_blocks = [S.own_blocks EXCEPT ![o] = Tail(S.own_blocks[o])]
      /\ U.ast = [S.ast EXCEPT ![t] = o]
      /\ \A x \in Requests : Blocking(U, x) <=> Blocking(S, x) /\ x # Head(S.own_blocks[o])
  <2>1. S.own_count[o] > 0 /\ S.own_blocks[o] # << >>
    BY <1>2 DEF SameLists
  <2>2. Starts(S, U, t, o)
    BY <2>1, ActionRunsIs
  <2> HIDE DEF U
  <2> QED BY <2>2 DEF Starts
<1> HIDE DEF U
<1>5. SameLists(T, U) /\ U.own_flags = T.own_flags /\ U.ast = T.ast
  BY <1>1, <1>2, <1>4 DEF SameLists
<1>6. QueueExact(U)
  BY <1>2, <1>3, <1>4, <1>5, ActionQueueExact DEF Handover, SameLists
<1>7. AstsInPlace(U) /\ ListsInPlace(U)
  BY <1>5 DEF Handover, SameLists, AstsInPlace, ListsInPlace, ListInPlace
<1>8. ASSUME NEW p \in Living(U) PROVE Served(U, p) /\ Announced(U, p)
  <2>1. p \in Living(T) /\ p \in Owners
    BY <1>1, <1>5 DEF Living, SameLists, Table
  <2>2. Served(T, p) /\ Announced(T, p)
    BY <2>1 DEF Handover
  <2>3. U.own_blocks[p] # << >> => T.own_blocks[p] # << >>
    <3>1. T.own_blocks \in [Owners -> Seq(Requests \cup {Repost})]
      BY <1>1 DEF Table
    <3> QED BY <1>2, <1>4, <2>1, <3>1
  <2> QED BY <1>5, <2>2, <2>3 DEF SameLists, Served, Announced
<1> QED BY <1>6, <1>7, <1>8 DEF Handover, U

\* The table is in order but for what thread t, which runs no AST, has yet to do: go on
\* with its list, or look after the owners of its process.
AllBut(T, t) ==
  /\ T.ast[t] = NoOwner
  /\ AstsInPlace(T) /\ QueueExact(T)
  /\ \A x \in Requests \ {t} : ListInPlace(T, x)
  /\ \A o \in Living(T) : Announced(T, o) /\ (own_process[o] # t => Served(T, o))

\* A thread that finds nothing to run for owner o is done with it.
LEMMA ActionEndsHandover ==
  ASSUME NEW T \in GoodTable, NEW t \in Threads, NEW o \in Owners, Handover(T),
         T.ast[t] = o, ~(T.own_count[o] > 0 /\ T.own_blocks[o] # << >>), NEW S \in GoodTable,
         Returned(T, S, t)
  PROVE  LET U == blocking_action(S, t, o)
         IN  AllBut(U, t) /\ U.sig = T.sig /\ U.pc = T.pc
<1> DEFINE U == blocking_action(S, t, o)
<1>1. T.ast \in [Threads -> Owners \cup {NoOwner}] /\ T \in Table
      /\ T.own_flags \in [Owners -> SUBSET OwnFlag]
  BY DEF GoodTable, Table
<1>2. /\ SameLists(T, S) /\ S.own_flags = T.own_flags /\ S.own_blocks = T.own_blocks
      /\ S.lbl = T.lbl /\ S.ast = [T.ast EXCEPT ![t] = NoOwner]
  BY DEF Returned
<1>3. \A x \in Requests : Blocking(S, x) <=> Blocking(T, x)
  BY <1>2 DEF Blocking, BlockOf
<1>4. /\ SameLists(S, U)
      /\ U.own_flags = [S.own_flags EXCEPT ![o] = S.own_flags[o] \ {"signaled"}]
      /\ U.own_blocks = S.own_blocks
      /\ U.ast = [S.ast EXCEPT ![t] = NoOwner]
      /\ \A x \in Requests : Blocking(U, x) <=> Blocking(S, x)
  <2>1. ~(S.own_count[o] > 0 /\ S.own_blocks[o] # << >>)
    BY <1>2 DEF SameLists
  <2>2. Stops(S, U, t, o)
    BY <2>1, ActionEndsIs
  <2> HIDE DEF U
  <2> QED BY <2>2 DEF Stops
<1> HIDE DEF U
<1>5. /\ SameLists(T, U) /\ U.own_blocks = T.own_blocks
      /\ U.own_flags = [T.own_flags EXCEPT ![o] = T.own_flags[o] \ {"signaled"}]
      /\ U.ast[t] = NoOwner /\ \A s \in Threads \ {t} : U.ast[s] = T.ast[s]
      /\ \A x \in Requests : Blocking(U, x) <=> Blocking(T, x)
  BY <1>1, <1>2, <1>3, <1>4 DEF SameLists
<1>6. QueueExact(U)
  <2>1. \A p \in Owners : \A i \in DOMAIN T.own_blocks[p] :
          T.own_blocks[p][i] # Repost => T.own_blocks[p][i] \in Requests
    BY <1>1 DEF Table
  <2>2. QueueExact(T)
    BY DEF Handover
  <2> QED BY <1>5, <2>1, <2>2 DEF QueueExact, SameLists
<1>7. AstsInPlace(U)
  BY <1>5 DEF Handover, SameLists, AstsInPlace
<1>8. \A x \in Requests \ {t} : ListInPlace(U, x)
  <2>1. \A x \in Requests \ {t} : x \in Threads \ {t}
    BY DEF Threads
  <2> QED BY <1>5, <2>1 DEF Handover, SameLists, ListsInPlace, ListInPlace
<1>9. ASSUME NEW p \in Living(U)
      PROVE  Announced(U, p) /\ (own_process[p] # t => Served(U, p))
  <2>1. p \in Living(T) /\ p \in Owners /\ own_process[p] \in Threads
    BY <1>1, <1>5, ManagerAssumption DEF Living, SameLists, Table, Threads
  <2>2. Served(T, p) /\ Announced(T, p)
    BY <2>1 DEF Handover
  <2>3. CASE p = o
    <3>1. "signaled" \notin U.own_flags[p]
      BY <1>1, <1>5, <2>3
    <3>2. ~(U.own_count[p] > 0 /\ U.own_blocks[p] # << >>)
      BY <1>5, <2>3 DEF SameLists
    <3> QED BY <3>1, <3>2 DEF Announced, Served
  <2>4. CASE p # o
    <3>1. U.own_flags[p] = T.own_flags[p]
      BY <1>1, <1>5, <2>1, <2>4
    <3>2. Announced(U, p)
      BY <1>5, <2>2, <3>1 DEF Announced, SameLists
    <3>3. ASSUME own_process[p] # t PROVE Served(U, p)
      <4>1. \A s \in Threads : T.ast[s] = p => U.ast[s] = p
        BY <1>5, <2>4
      <4>2. U.ast[own_process[p]] = T.ast[own_process[p]]
        BY <1>5, <2>1, <3>3
      <4> QED BY <1>5, <2>2, <3>1, <4>1, <4>2 DEF Served, SameLists
    <3> QED BY <3>2, <3>3
  <2> QED BY <2>3, <2>4
<1> QED BY <1>5, <1>6, <1>7, <1>8, <1>9 DEF AllBut, SameLists, U

\* A round of the blocking thread of process p looks after the owners of the process:
\* they are done with, or an AST of one of them runs and the thread will be back.
LEMMA BlockingThreadHandover ==
  ASSUME NEW T \in GoodTable, NEW p \in Processes, AllBut(T, p),
         NEW U \in blocking_action_thread(T, p)
  PROVE  Handover(U)
<1> DEFINE signaled == {o \in T.lhb_owners : own_process[o] = p /\ "signaled" \in T.own_flags[o]}
           runs == {o \in signaled : T.own_count[o] > 0 /\ T.own_blocks[o] # << >>}
           Clear(S) == ClearSignaled(T, S)
<1>1. /\ T \in Table /\ T.own_flags \in [Owners -> SUBSET OwnFlag]
      /\ T.lhb_owners \in SUBSET Owners /\ T.ast \in [Threads -> Owners \cup {NoOwner}]
      /\ T.own_blocks \in [Owners -> Seq(Requests \cup {Repost})]
  BY DEF GoodTable, Table
<1>2. p \in Threads /\ p \notin Requests /\ p \notin Owners
  BY ManagerAssumption DEF Threads
<1>3. \A x \in Requests : ListInPlace(T, x)
  BY <1>2 DEF AllBut
<1>4. ASSUME NEW S
      PROVE  /\ Clear(S) \in GoodTable /\ SameLists(T, Clear(S))
             /\ Clear(S).own_blocks = T.own_blocks /\ Clear(S).ast = T.ast
             /\ \A o \in Owners : "signaled" \in Clear(S).own_flags[o]
                                    <=> "signaled" \in T.own_flags[o] /\ o \notin S
             /\ \A x \in Requests : Blocking(Clear(S), x) <=> Blocking(T, x)
  <2> DEFINE F == [o \in Owners |-> IF o \in S THEN T.own_flags[o] \ {"signaled"}
                                    ELSE T.own_flags[o]]
  <2>1. F \in [Owners -> SUBSET OwnFlag]
    BY <1>1
  <2>2. Clear(S) = [T EXCEPT !.own_flags = F]
    BY DEF ClearSignaled
  <2>3. \A o \in Owners : "signaled" \in F[o] <=> "signaled" \in T.own_flags[o] /\ o \notin S
    OBVIOUS
  <2> HIDE DEF F, Clear
  <2>4. /\ Clear(S) \in Table /\ SameLists(T, Clear(S)) /\ Clear(S).lbl = T.lbl
        /\ Clear(S).own_blocks = T.own_blocks /\ Clear(S).ast = T.ast /\ Clear(S).own_flags = F
    BY <1>1, <2>1, <2>2 DEF Table, SameLists
  <2>5. \A x \in Requests : Blocking(Clear(S), x) <=> Blocking(T, x)
    BY <2>4 DEF Blocking, BlockOf
  <2>6. Clear(S) \in GoodTable
    BY <2>4, SameLocks DEF SameLists
  <2> QED BY <2>3, <2>4, <2>5, <2>6
<1>5. /\ \A o : o \in signaled <=> /\ o \in T.lhb_owners /\ own_process[o] = p
                                   /\ "signaled" \in T.own_flags[o]
      /\ \A o : o \in runs <=> o \in signaled /\ T.own_count[o] > 0 /\ T.own_blocks[o] # << >>
  OBVIOUS
<1>6. U \in IF runs = {} THEN {Clear(signaled)}
            ELSE {blocking_action(Clear(S), p, o) : o \in runs, S \in SUBSET (signaled \ runs)}
  BY DEF blocking_action_thread
<1> HIDE DEF Clear, runs, signaled
\* Clearing marks of owners of p with nothing to run.
<1>7. ASSUME NEW S \in SUBSET (signaled \ runs)
      PROVE  LET V == Clear(S)
             IN  /\ AstsInPlace(V) /\ ListsInPlace(V) /\ QueueExact(V)
                 /\ \A o \in Living(V) : Announced(V, o) /\ (own_process[o] # p => Served(V, o))
  <2> DEFINE V == Clear(S)
  <2>1. /\ SameLists(T, V) /\ V.own_blocks = T.own_blocks /\ V.ast = T.ast
        /\ \A o \in Owners : "signaled" \in V.own_flags[o]
                               <=> "signaled" \in T.own_flags[o] /\ o \notin S
        /\ \A x \in Requests : Blocking(V, x) <=> Blocking(T, x)
    BY <1>4
  <2> HIDE DEF V
  <2>2. AstsInPlace(V)
    BY <2>1 DEF AllBut, SameLists, AstsInPlace
  <2>3. ListsInPlace(V)
    BY <1>3, <2>1 DEF SameLists, ListsInPlace, ListInPlace
  <2>4. QueueExact(V)
    <3>1. \A o \in Owners : \A i \in DOMAIN T.own_blocks[o] :
            T.own_blocks[o][i] # Repost => T.own_blocks[o][i] \in Requests
      BY <1>1
    <3>2. QueueExact(T)
      BY DEF AllBut
    <3> QED BY <2>1, <3>1, <3>2 DEF QueueExact, SameLists
  <2>5. ASSUME NEW o \in Living(V)
        PROVE  Announced(V, o) /\ (own_process[o] # p => Served(V, o))
    <3>1. o \in Living(T) /\ o \in Owners
      BY <1>1, <2>1 DEF Living, SameLists
    <3>2. Announced(T, o) /\ (own_process[o] # p => Served(T, o))
      BY <3>1 DEF AllBut
    <3>3. Announced(V, o)
      <4>1. CASE o \in S
        <5>1. ~(T.own_count[o] > 0 /\ T.own_blocks[o] # << >>)
          BY <1>5, <4>1
        <5> QED BY <2>1, <5>1 DEF Announced, SameLists
      <4>2. CASE o \notin S
        BY <2>1, <3>1, <3>2, <4>2 DEF Announced, SameLists
      <4> QED BY <4>1, <4>2
    <3>4. own_process[o] # p => Served(V, o)
      BY <2>1, <3>1, <3>2 DEF Served, SameLists
    <3> QED BY <3>3, <3>4
  <2> QED BY <2>2, <2>3, <2>4, <2>5 DEF V
<1>8. CASE runs = {}
  <2> DEFINE V == Clear(signaled)
  <2>1. U = V
    BY <1>6, <1>8
  <2>2. signaled \in SUBSET (signaled \ runs)
    BY <1>8
  <2>3. /\ AstsInPlace(V) /\ ListsInPlace(V) /\ QueueExact(V)
        /\ \A o \in Living(V) : Announced(V, o) /\ (own_process[o] # p => Served(V, o))
    BY <1>7, <2>2
  <2>4. ASSUME NEW o \in Living(V), own_process[o] = p PROVE Served(V, o)
    <3>1. o \in T.lhb_owners
      BY <1>4, <2>4 DEF Living, SameLists
    <3>2. "signaled" \in T.own_flags[o] => o \in signaled
      BY <1>5, <2>4, <3>1
    <3>3. "signaled" \notin V.own_flags[o]
      BY <1>1, <1>4, <3>1, <3>2
    <3> QED BY <3>3 DEF Served
  <2> HIDE DEF V
  <2> QED BY <2>1, <2>3, <2>4 DEF Handover
<1>9. CASE runs # {}
  <2>1. PICK o \in runs, S \in SUBSET (signaled \ runs) : U = blocking_action(Clear(S), p, o)
    BY <1>6, <1>9
  <2> DEFINE V == Clear(S)
  <2>2. /\ AstsInPlace(V) /\ ListsInPlace(V) /\ QueueExact(V)
        /\ \A n \in Living(V) : Announced(V, n) /\ (own_process[n] # p => Served(V, n))
    BY <1>7
  <2>3. V \in GoodTable /\ SameLists(T, V) /\ V.own_blocks = T.own_blocks /\ V.ast = T.ast
    BY <1>4
  <2> HIDE DEF V
  <2>4. /\ o \in T.lhb_owners /\ o \in Owners /\ own_process[o] = p
        /\ V.own_count[o] > 0 /\ V.own_blocks[o] # << >>
    BY <1>1, <1>5, <2>1, <2>3 DEF SameLists
  <2>5. /\ SameLists(V, U) /\ U.own_flags = V.own_flags
        /\ U.own_blocks = [V.own_blocks EXCEPT ![o] = Tail(V.own_blocks[o])]
        /\ U.ast = [V.ast EXCEPT ![p] = o]
        /\ \A x \in Requests : Blocking(U, x) <=> Blocking(V, x) /\ x # Head(V.own_blocks[o])
    <3>1. U = blocking_action(V, p, o)
      BY <2>1 DEF V
    <3>2. Starts(V, U, p, o)
      BY <1>2, <2>3, <2>4, <3>1, ActionRunsIs
    <3> QED BY <3>2 DEF Starts
  <2>6. QueueExact(U)
    BY <2>2, <2>3, <2>4, <2>5, ActionQueueExact DEF SameLists
  <2>7. /\ U.ast[p] = o /\ \A t \in Threads \ {p} : U.ast[t] = V.ast[t]
        /\ V.ast[p] = NoOwner /\ o # NoOwner
    BY <1>1, <1>2, <2>3, <2>4, <2>5, ManagerAssumption DEF AllBut
  <2>8. AstsInPlace(U)
    <3>1. ASSUME NEW t \in Threads \ {p}, U.ast[t] # NoOwner
          PROVE  /\ U.ast[t] \in U.lhb_owners
                 /\ own_process[U.ast[t]] = ProcessOf(t)
                 /\ t \in Owners => U.ast[t] = t
                 /\ t \in Requests => U.pc[t] = "post" /\ Neighbour(t, U.ast[t])
      BY <2>2, <2>5, <2>7, <3>1 DEF AstsInPlace, SameLists
    <3>2. U.ast[p] \in U.lhb_owners /\ own_process[U.ast[p]] = ProcessOf(p)
      BY <2>3, <2>4, <2>5, <2>7 DEF SameLists, ProcessOf
    <3> QED BY <1>2, <3>1, <3>2 DEF AstsInPlace
  <2>9. ListsInPlace(U)
    <3>1. \A x \in Requests : U.ast[x] = V.ast[x]
      BY <1>2, <2>7 DEF Threads
    <3> QED BY <2>2, <2>5, <3>1 DEF SameLists, ListsInPlace, ListInPlace
  <2>10. ASSUME NEW n \in Living(U) PROVE Served(U, n) /\ Announced(U, n)
    <3>1. n \in Living(V) /\ n \in Owners /\ own_process[n] \in Processes
      BY <1>1, <2>3, <2>5, ManagerAssumption DEF Living, SameLists
    <3>2. Announced(V, n) /\ (own_process[n] # p => Served(V, n))
      BY <2>2, <3>1
    <3>3. U.own_blocks[n] # << >> => V.own_blocks[n] # << >>
      <4>1. V.own_blocks \in [Owners -> Seq(Requests \cup {Repost})]
        BY <1>1, <2>3
      <4> QED BY <2>4, <2>5, <3>1, <4>1
    <3>4. Announced(U, n)
      BY <2>5, <3>2, <3>3 DEF Announced, SameLists
    <3>5. CASE own_process[n] = p
      BY <2>7, <3>4, <3>5 DEF Served
    <3>6. CASE own_process[n] # p
      <4>1. \A t \in Threads : V.ast[t] = n => U.ast[t] = n
        BY <2>7, <3>1, ManagerAssumption
      <4>2. U.ast[own_process[n]] = V.ast[own_process[n]]
        BY <2>7, <3>1, <3>6 DEF Threads
      <4> QED BY <2>5, <3>2, <3>4, <3>6, <4>1, <4>2 DEF Served, SameLists
    <3> QED BY <3>5, <3>6
  <2> QED BY <2>6, <2>8, <2>9, <2>10 DEF Handover
<1> QED BY <1>8, <1>9
-------------------------------------------------------------------------
(* probe_processes.                                                      *)

\* The registered owners of dead processes.
Gone(T) == {o \in T.lhb_owners : own_process[o] \in T.dead}

\* What becomes of queues, marks and threads when the owners of dead processes go.
ProbeLists(T, U) ==
  /\ \A o \in Owners : U.own_blocks[o] = IF o \in Gone(T) THEN << >> ELSE T.own_blocks[o]
  /\ \A o \in Owners : "signaled" \in U.own_flags[o]
                         <=> o \notin Gone(T) /\ "signaled" \in T.own_flags[o]
  /\ \A p \in Processes : U.prc_blocking[p] <=> p \notin T.dead /\ T.prc_blocking[p]
  /\ \A x \in Requests : U.sig[x] = IF lrq_owner[x] \in Gone(T) THEN << >> ELSE T.sig[x]
  /\ \A t \in Threads : U.ast[t] = IF ProcessOf(t) \in T.dead THEN NoOwner ELSE T.ast[t]

\* What probe_processes does to queues, marks and threads: those of the dead process are
\* gone, all others untouched.
LEMMA ProbeListsAre ==
  ASSUME NEW T \in GoodTable, T.dead # {}
  PROVE  ProbeLists(T, probe_processes(T))
<1> DEFINE gone == {o \in T.lhb_owners : own_process[o] \in T.dead}
           theirs(l) == {r \in Queued(T.lbl[l]) : lrq_owner[r] \in gone}
           lost(l) == CHOOSE r \in theirs(l) : TRUE
           wakes == UNION {IF theirs(l) = {} THEN {}
                           ELSE PostPendingWakes(unlink_request(T.lbl[l], lost(l))) : l \in Locks}
           T1 == post_wakeup(T, wakes)
           Reset(f, S, v) == [x \in DOMAIN f |-> IF x \in S THEN v ELSE f[x]]
           requests == {r \in Requests : lrq_owner[r] \in gone}
           threads == {t \in Threads : ProcessOf(t) \in T.dead}
           b == [l \in Locks |-> IF theirs(l) = {} THEN T.lbl[l]
                                 ELSE release_request(T.lbl[l], lost(l))]
           place == Reset(T1.pc, requests, "free")
           U == [T1 EXCEPT
                   !.lbl = b,
                   !.lhb_owners = T1.lhb_owners \ gone,
                   !.own_flags = Reset(T1.own_flags, gone, {}),
                   !.own_blocks = Reset(T1.own_blocks, gone, << >>),
                   !.prc_blocking = Reset(T1.prc_blocking, T.dead, FALSE),
                   !.pc = place,
                   !.sig = Reset(T1.sig, requests, << >>),
                   !.ast = Reset(T1.ast, threads, NoOwner),
                   !.dead = {}]
<1>1. probe_processes(T) = U
  BY DEF probe_processes
<1>2. T \in Table /\ Gone(T) = gone
  BY DEF GoodTable, Gone
<1> HIDE DEF wakes
<1>3. T1 \in Table /\ Quiet(T, T1)
  BY <1>2, PostWakeupIs, PostWakeupQuiet
<1> HIDE DEF T1, b, place, gone
<1>4. /\ U.own_flags = Reset(T1.own_flags, gone, {})
      /\ U.own_blocks = Reset(T1.own_blocks, gone, << >>)
      /\ U.prc_blocking = Reset(T1.prc_blocking, T.dead, FALSE)
      /\ U.sig = Reset(T1.sig, requests, << >>)
      /\ U.ast = Reset(T1.ast, threads, NoOwner)
  <2> HIDE DEF Reset, requests, threads
  <2> QED BY <1>3 DEF Table
<1> HIDE DEF U
<1>5. /\ T1.own_flags \in [Owners -> SUBSET OwnFlag]
      /\ T1.own_blocks \in [Owners -> Seq(Requests \cup {Repost})]
      /\ T1.prc_blocking \in [Processes -> BOOLEAN]
      /\ T1.sig \in [Requests -> Seq(Owners)]
      /\ T1.ast \in [Threads -> Owners \cup {NoOwner}]
  BY <1>3 DEF Table
<1>6. /\ T1.own_blocks = T.own_blocks /\ T1.prc_blocking = T.prc_blocking
      /\ T1.sig = T.sig /\ T1.ast = T.ast
      /\ \A o \in Owners : "signaled" \in T1.own_flags[o] <=> "signaled" \in T.own_flags[o]
  BY <1>3 DEF Quiet
<1>7. \A o \in Owners : U.own_blocks[o] = IF o \in gone THEN << >> ELSE T.own_blocks[o]
  BY <1>4, <1>5, <1>6
<1>8. \A o \in Owners : "signaled" \in U.own_flags[o]
                         <=> o \notin gone /\ "signaled" \in T.own_flags[o]
  BY <1>4, <1>5, <1>6
<1>9. \A p \in Processes : U.prc_blocking[p] <=> p \notin T.dead /\ T.prc_blocking[p]
  BY <1>4, <1>5, <1>6
<1>10. \A x \in Requests : U.sig[x] = IF lrq_owner[x] \in gone THEN << >> ELSE T.sig[x]
  BY <1>4, <1>5, <1>6
<1>11. \A t \in Threads : U.ast[t] = IF ProcessOf(t) \in T.dead THEN NoOwner ELSE T.ast[t]
  BY <1>4, <1>5, <1>6
<1> QED BY <1>1, <1>2, <1>7, <1>8, <1>9, <1>10, <1>11 DEF ProbeLists

\* Whom probe_processes leaves in the table, and where.
LEMMA ProbePlaces ==
  ASSUME NEW T \in GoodTable, T.dead # {}
  PROVE  LET U == probe_processes(T)
         IN  /\ U.lhb_owners = T.lhb_owners \ Gone(T)
             /\ U.own_count = T.own_count /\ U.dead = {}
             /\ \A x \in Requests : U.pc[x] = IF lrq_owner[x] \in Gone(T) THEN "free" ELSE T.pc[x]
             /\ \A l \in Locks : \/ U.lbl[l] = T.lbl[l]
                                 \/ \E r \in Queued(T.lbl[l]) :
                                      U.lbl[l] = release_request(T.lbl[l], r)
BY ProbeProcessesIs DEF Gone

\* The requests of those who stay keep their marks, the others lose them.
LEMMA ProbeBlocking ==
  ASSUME NEW T \in GoodTable, T.dead # {}, QueueExact(T), NEW x \in Requests
  PROVE  Blocking(probe_processes(T), x) <=> Blocking(T, x) /\ lrq_owner[x] \notin Gone(T)
<1> DEFINE U == probe_processes(T)
           l == lrq_lock[x]
           B == T.lbl[l]
<1>1. U \in GoodTable /\ l \in Locks /\ BlockOf(T, x) = B /\ B \in GoodBlock
  BY ProbeProcessesGood, OwnerOfRequest, BlockOfGood DEF BlockOf
<1>2. U.pc[x] = IF lrq_owner[x] \in Gone(T) THEN "free" ELSE T.pc[x]
  BY ProbePlaces
<1>3. U.lbl[l] = B \/ \E r \in Queued(B) : U.lbl[l] = release_request(B, r)
  BY <1>1, ProbePlaces
<1> HIDE DEF U
<1>4. \A y \in Requests : "blocking" \in B.lrq_flags[y] /\ lrq_lock[y] = l => y \in Queued(B)
  <2>1. ASSUME NEW y \in Requests, "blocking" \in B.lrq_flags[y], lrq_lock[y] = l
        PROVE  y \in Queued(B)
    <3>1. BlockOf(T, y) = B
      BY <2>1 DEF BlockOf
    <3> HIDE DEF B, l
    <3>2. T.pc[y] # "free"
      BY <2>1, <3>1 DEF QueueExact, Blocking
    <3> QED BY <3>1, <3>2, BlockOfGood
  <2> QED BY <2>1
<1>5. (x \in Queued(B) <=> T.pc[x] # "free") /\ (x \in Queued(U.lbl[l]) <=> U.pc[x] # "free")
  BY <1>1, BlockOfGood DEF BlockOf
<1>6. /\ Blocking(T, x) <=> "blocking" \in B.lrq_flags[x]
      /\ Blocking(U, x) <=> "blocking" \in U.lbl[l].lrq_flags[x]
  BY DEF Blocking, BlockOf
<1> DEFINE D == U.lbl[l]
<1>7. "blocking" \in B.lrq_flags[x] => x \in Queued(B)
  BY <1>4
<1> HIDE DEF B, l
<1>8. CASE D = B
  BY <1>2, <1>5, <1>6, <1>7, <1>8 DEF U
<1>9. CASE \E r \in Queued(B) : D = release_request(B, r)
  <2>1. PICK r \in Queued(B) : D = release_request(B, r)
    BY <1>9
  <2> DEFINE C == unlink_request(B, r)
  <2>2. Queued(D) = Queued(B) \ {r}
    BY <1>1, <2>1, ReleaseRequestGood
  <2>3. C \in GoodBlock
    BY <1>1, UnlinkRequestGood
  <2>4. "blocking" \in C.lrq_flags[x] <=> x # r /\ "blocking" \in B.lrq_flags[x]
    BY <1>1, <1>7, UnlinkBlocking
  <2>5. D = post_pending(C)
    BY <2>1 DEF release_request
  <2> HIDE DEF C, D
  <2>6. "blocking" \in D.lrq_flags[x] <=> "blocking" \in C.lrq_flags[x]
    BY <2>3, <2>5, PostPendingBlocking DEF KeepsBlocking
  <2> QED BY <1>2, <1>5, <1>6, <1>7, <2>2, <2>4, <2>6 DEF U, D
<1> QED BY <1>3, <1>8, <1>9

\* A process that may die has no thread in post_blockage: it would run the ASTs of
\* another owner of the process with a request for the same lock.
LEMMA DeadNotPosting ==
  ASSUME NEW T \in GoodTable, AstsInPlace(T), ListsInPlace(T), NEW r \in Requests,
         own_process[lrq_owner[r]] \in T.dead
  PROVE  T.pc[r] # "post" /\ T.sig[r] = << >>
<1>1. SUFFICES ASSUME T.pc[r] = "post" PROVE FALSE
  BY DEF ListsInPlace, ListInPlace
<1>2. T.ast[r] # NoOwner /\ r \in Threads
  BY <1>1 DEF ListsInPlace, ListInPlace, Threads
<1>3. own_process[T.ast[r]] = ProcessOf(r) /\ Neighbour(r, T.ast[r])
  BY <1>2 DEF AstsInPlace
<1>4. ProcessOf(r) = own_process[lrq_owner[r]]
  BY ManagerAssumption DEF ProcessOf
<1>5. PICK b \in Requests \ {r} : lrq_lock[b] = lrq_lock[r] /\ lrq_owner[b] = T.ast[r]
  BY <1>3 DEF Neighbour
<1>6. own_process[lrq_owner[r]] \in Crashable
  BY DEF GoodTable, OneDead
<1> QED BY <1>3, <1>4, <1>5, <1>6, CrashAssumption
\* probe_processes leaves the table in order: what the dead had to do concerned
\* themselves only.
LEMMA ProbeHandover ==
  ASSUME NEW T \in GoodTable, Registered(T), Handover(T)
  PROVE  Handover(probe_processes(T))
<1> DEFINE U == probe_processes(T)
           gone == Gone(T)
<1>1. CASE T.dead = {}
  BY <1>1 DEF probe_processes
<1>2. CASE T.dead # {}
  <2>1. /\ U.lhb_owners = T.lhb_owners \ gone /\ U.own_count = T.own_count /\ U.dead = {}
        /\ \A x \in Requests : U.pc[x] = IF lrq_owner[x] \in gone THEN "free" ELSE T.pc[x]
    BY <1>2, ProbePlaces
  <2>2. ProbeLists(T, U)
    BY <1>2, ProbeListsAre
  <2>3. \A x \in Requests : Blocking(U, x) <=> Blocking(T, x) /\ lrq_owner[x] \notin gone
    BY <1>2, ProbeBlocking DEF Handover
  <2>4. \A x \in Requests : own_process[lrq_owner[x]] \in T.dead =>
          T.pc[x] # "post" /\ T.sig[x] = << >>
    BY DeadNotPosting DEF Handover
  <2>5. /\ \A o \in T.lhb_owners : o \in gone <=> own_process[o] \in T.dead
        /\ gone \subseteq T.lhb_owners
    BY DEF Gone
  <2>6. T \in Table /\ T.lhb_owners \in SUBSET Owners
        /\ T.own_blocks \in [Owners -> Seq(Requests \cup {Repost})]
    BY DEF GoodTable, Table
  <2>7. \A x \in Requests : ProcessOf(x) = own_process[lrq_owner[x]] /\ x \in Threads
    BY ManagerAssumption DEF ProcessOf, Threads
  <2> HIDE DEF U, gone
  <2>8. /\ \A o \in Owners : U.own_blocks[o] = IF o \in gone THEN << >> ELSE T.own_blocks[o]
        /\ \A o \in Owners : "signaled" \in U.own_flags[o]
                               <=> o \notin gone /\ "signaled" \in T.own_flags[o]
        /\ \A p \in Processes : U.prc_blocking[p] <=> p \notin T.dead /\ T.prc_blocking[p]
        /\ \A x \in Requests : U.sig[x] = IF lrq_owner[x] \in gone THEN << >> ELSE T.sig[x]
        /\ \A t \in Threads : U.ast[t] = IF ProcessOf(t) \in T.dead THEN NoOwner ELSE T.ast[t]
    BY <2>2 DEF ProbeLists, gone
  <2>9. AstsInPlace(U)
    <3>1. ASSUME NEW t \in Threads, U.ast[t] # NoOwner
          PROVE  /\ U.ast[t] \in U.lhb_owners
                 /\ own_process[U.ast[t]] = ProcessOf(t)
                 /\ t \in Owners => U.ast[t] = t
                 /\ t \in Requests => U.pc[t] = "post" /\ Neighbour(t, U.ast[t])
      <4>1. ProcessOf(t) \notin T.dead /\ U.ast[t] = T.ast[t]
        BY <2>8, <3>1
      <4>2. /\ T.ast[t] \in T.lhb_owners
            /\ own_process[T.ast[t]] = ProcessOf(t)
            /\ t \in Owners => T.ast[t] = t
            /\ t \in Requests => T.pc[t] = "post" /\ Neighbour(t, T.ast[t])
        BY <3>1, <4>1 DEF Handover, AstsInPlace
      <4>3. T.ast[t] \in U.lhb_owners
        BY <2>1, <2>5, <4>1, <4>2
      <4>4. ASSUME t \in Requests PROVE U.pc[t] = T.pc[t]
        <5>1. lrq_owner[t] \notin gone
          BY <2>5, <2>7, <4>1, <4>4
        <5> QED BY <2>1, <4>4, <5>1
      <4> QED BY <4>1, <4>2, <4>3, <4>4
    <3> QED BY <3>1 DEF AstsInPlace
  <2>10. ListsInPlace(U)
    <3>1. ASSUME NEW x \in Requests PROVE ListInPlace(U, x)
      <4>1. ListInPlace(T, x)
        BY DEF Handover, ListsInPlace
      <4>2. CASE lrq_owner[x] \in gone
        <5>1. U.pc[x] = "free" /\ U.sig[x] = << >>
          BY <2>1, <2>8, <4>2
        <5> QED BY <5>1 DEF ListInPlace
      <4>3. CASE lrq_owner[x] \notin gone
        <5>1. U.pc[x] = T.pc[x] /\ U.sig[x] = T.sig[x]
          BY <2>1, <2>8, <4>3
        <5>2. T.pc[x] = "post" => U.ast[x] = T.ast[x]
          BY <2>4, <2>7, <2>8
        <5> QED BY <4>1, <5>1, <5>2 DEF ListInPlace
      <4> QED BY <4>2, <4>3
    <3> QED BY <3>1 DEF ListsInPlace
  <2>11. QueueExact(U)
    <3>1. ASSUME NEW o \in Owners
          PROVE  /\ o \notin U.lhb_owners => U.own_blocks[o] = << >>
                 /\ \A i \in DOMAIN U.own_blocks[o] : U.own_blocks[o][i] # Repost =>
                      /\ lrq_owner[U.own_blocks[o][i]] = o
                      /\ Blocking(U, U.own_blocks[o][i])
                      /\ \A j \in DOMAIN U.own_blocks[o] :
                           U.own_blocks[o][i] = U.own_blocks[o][j] => i = j
      <4>1. /\ o \notin T.lhb_owners => T.own_blocks[o] = << >>
            /\ \A i \in DOMAIN T.own_blocks[o] : T.own_blocks[o][i] # Repost =>
                 /\ T.own_blocks[o][i] \in Requests
                 /\ lrq_owner[T.own_blocks[o][i]] = o
                 /\ Blocking(T, T.own_blocks[o][i])
                 /\ \A j \in DOMAIN T.own_blocks[o] :
                      T.own_blocks[o][i] = T.own_blocks[o][j] => i = j
        BY <2>6 DEF Handover, QueueExact
      <4>2. CASE o \in gone
        <5>1. U.own_blocks[o] = << >>
          BY <2>8, <4>2
        <5>2. DOMAIN U.own_blocks[o] = {}
          BY <5>1
        <5> QED BY <5>1, <5>2
      <4>3. CASE o \notin gone
        <5>1. U.own_blocks[o] = T.own_blocks[o]
          BY <2>8, <4>3
        <5> QED BY <2>1, <2>3, <4>1, <4>3, <5>1
      <4> QED BY <4>2, <4>3
    <3>2. ASSUME NEW x \in Requests, Blocking(U, x)
          PROVE  /\ U.pc[x] # "free"
                 /\ \E i \in DOMAIN U.own_blocks[lrq_owner[x]] : U.own_blocks[lrq_owner[x]][i] = x
      <4>1. Blocking(T, x) /\ lrq_owner[x] \notin gone /\ lrq_owner[x] \in Owners
        BY <2>3, <3>2, OwnerOfRequest
      <4>2. /\ T.pc[x] # "free"
            /\ \E i \in DOMAIN T.own_blocks[lrq_owner[x]] : T.own_blocks[lrq_owner[x]][i] = x
        BY <4>1 DEF Handover, QueueExact
      <4> QED BY <2>1, <2>8, <4>1, <4>2
    <3> QED BY <3>1, <3>2 DEF QueueExact
  <2>12. ASSUME NEW o \in Living(U) PROVE Served(U, o) /\ Announced(U, o)
    <3>1. o \in T.lhb_owners /\ o \notin gone /\ o \in Owners
      BY <2>1, <2>6 DEF Living
    <3>2. own_process[o] \notin T.dead /\ own_process[o] \in Processes
      BY <2>5, <3>1, ManagerAssumption
    <3>3. Served(T, o) /\ Announced(T, o)
      BY <3>1, <3>2 DEF Handover, Living
    <3>4. Served(U, o)
      <4>1. \A t \in Threads : T.ast[t] = o => U.ast[t] = o
        <5>1. \A t \in Threads : T.ast[t] = o => own_process[o] = ProcessOf(t)
          BY <3>1, ManagerAssumption DEF Handover, AstsInPlace
        <5> QED BY <2>8, <3>2, <5>1
      <4>2. U.ast[own_process[o]] = T.ast[own_process[o]]
        <5>1. own_process[o] \in Threads /\ ProcessOf(own_process[o]) = own_process[o]
          BY <3>2 DEF Threads, ProcessOf
        <5> QED BY <2>8, <3>2, <5>1
      <4>3. "signaled" \in U.own_flags[o] => "signaled" \in T.own_flags[o]
        BY <2>8, <3>1
      <4>4. U.prc_blocking[own_process[o]] <=> T.prc_blocking[own_process[o]]
        BY <2>8, <3>2
      <4> QED BY <3>3, <4>1, <4>2, <4>3, <4>4 DEF Served
    <3>5. Announced(U, o)
      <4>1. /\ U.own_blocks[o] = T.own_blocks[o] /\ U.own_count[o] = T.own_count[o]
            /\ "signaled" \in T.own_flags[o] => "signaled" \in U.own_flags[o]
        BY <2>1, <2>8, <3>1
      <4>2. \A x \in Requests : \A j \in DOMAIN T.sig[x] : T.sig[x][j] = o => U.sig[x] = T.sig[x]
        <5>1. ASSUME NEW x \in Requests, NEW j \in DOMAIN T.sig[x] PROVE U.sig[x] = T.sig[x]
          <6>1. T.sig[x] # << >>
            OBVIOUS
          <6>2. own_process[lrq_owner[x]] \notin T.dead
            BY <2>4, <6>1
          <6> QED BY <2>5, <2>8, <6>2
        <5> QED BY <5>1
      <4> QED BY <3>3, <4>1, <4>2 DEF Announced
    <3> QED BY <3>4, <3>5
  <2> QED BY <2>9, <2>10, <2>11, <2>12 DEF Handover, U
<1> QED BY <1>1, <1>2

-------------------------------------------------------------------------
(* Calls on requests.  Of the routines that work on a block, only         *)
(* unlink_request, mark_blocking and mark_seen touch LRQ_blocking.         *)

\* grant changes no flag.
LEMMA GrantBlocking ==
  ASSUME NEW B, NEW r
  PROVE  KeepsBlocking(B, grant(B, r)) /\ KeepsBlocking(B, grant_convert(B, r))
BY DEF KeepsBlocking, grant, grant_convert

\* Nor does the end of a conversion that gives up.
LEMMA EndConvertBlocking ==
  ASSUME NEW B, NEW r
  PROVE  KeepsBlocking(B, end_convert(B, r))
BY DEF KeepsBlocking, end_convert

\* A conversion begins: its holder may be told again.
LEMMA BeginConvertBlocking ==
  ASSUME NEW B \in Block, NEW r, NEW type
  PROVE  KeepsBlocking(B, begin_convert(B, r, type))
<1> DEFINE C == ClearFlags(B, {r}, {"blocking_seen"})
<1>1. KeepsBlocking(B, C)
  BY AddFlagsBlocking
<1>2. begin_convert(B, r, type).lrq_flags = C.lrq_flags
  BY DEF begin_convert
<1> QED BY <1>1, <1>2 DEF KeepsBlocking

\* A request starts to wait, is rejected, or is through with waiting.
LEMMA WaitBlocking ==
  ASSUME NEW B \in Block, NEW r \in Requests, NEW timed
  PROVE  /\ KeepsBlocking(B, begin_wait(B, r, timed))
         /\ KeepsBlocking(B, reject(B, r))
         /\ KeepsBlocking(B, end_wait(B, r))
<1>1. B.lrq_flags \in [Requests -> SUBSET LrqFlag]
  BY DEF Block
<1>2. KeepsBlocking(B, begin_wait(B, r, timed))
  BY <1>1 DEF KeepsBlocking, begin_wait
<1>3. KeepsBlocking(B, reject(B, r))
  BY <1>1 DEF KeepsBlocking, reject
<1>4. KeepsBlocking(B, end_wait(B, r))
  BY AddFlagsBlocking DEF end_wait
<1> QED BY <1>2, <1>3, <1>4

\* A new request is on no blocking queue.
LEMMA InsertBlocking ==
  ASSUME NEW B \in Block, NEW r \in Requests, NEW type, "blocking" \notin B.lrq_flags[r]
  PROVE  KeepsBlocking(B, insert_request(B, r, type))
<1>1. B.lrq_flags \in [Requests -> SUBSET LrqFlag]
  BY DEF Block
<1>2. insert_request(B, r, type).lrq_flags = [B.lrq_flags EXCEPT ![r] = {}]
  BY DEF insert_request
<1> QED BY <1>1, <1>2 DEF KeepsBlocking

\* A request moves, its block changes, and the owner forgets what it knew of scans and
\* wake-ups: wait_for_request up to post_blockage.
LEMMA BeginWaitQuiet ==
  ASSUME NEW T \in GoodTable, NEW r \in Requests, T.pc[r] = "idle", NEW C \in Block,
         KeepsBlocking(BlockOf(T, r), C), NEW F, "signaled" \notin F
  PROVE  LET U == DropFlags(At(WithBlock(T, r, C), r, "wait"), lrq_owner[r], F)
         IN  Quiet(T, U) /\ U.pc = [T.pc EXCEPT ![r] = "wait"] /\ SameOwners(T, U)
<1> DEFINE X == WithBlock(T, r, C)
           Y == At(X, r, "wait")
           U == DropFlags(Y, lrq_owner[r], F)
<1>1. T \in Table /\ lrq_owner[r] \in Owners
  BY OwnerOfRequest DEF GoodTable
<1>2. X \in Table /\ X.pc = T.pc /\ SameOwners(T, X)
  BY <1>1, WithBlockIs
<1>3. Quiet(T, X)
  BY <1>1, WithBlockQuiet
<1> HIDE DEF X
<1>4. Y \in Table /\ Y.pc = [X.pc EXCEPT ![r] = "wait"] /\ SameOwners(X, Y)
  BY <1>2, AtIs DEF Place
<1>5. Quiet(X, Y)
  BY <1>2, AtQuiet
<1> HIDE DEF Y
<1>6. Quiet(Y, U)
  BY <1>1, <1>4, DropFlagsQuiet
<1>7. U.pc = Y.pc /\ SameOwners(Y, U)
  BY <1>4 DEF DropFlags, Table, SameOwners
<1> HIDE DEF U
<1>8. Quiet(T, U)
  BY <1>3, <1>5, <1>6, QuietTwice
<1> QED BY <1>2, <1>4, <1>7, <1>8 DEF SameOwners, U, Y, X

\* A thread begins to wait and tells the holders in its way.
LEMMA BeginWaitHandover ==
  ASSUME NEW T \in GoodTable, NEW r \in Requests, T.pc[r] = "idle", Registered(T), Handover(T),
         NEW B, Keeps(BlockOf(T, r), B), KeepsBlocking(BlockOf(T, r), B), NEW timed \in BOOLEAN
  PROVE  Handover(begin_wait_for_request(T, r, B, timed))
<1> DEFINE C == begin_wait(B, r, timed)
           V == At(WithBlock(T, r, C), r, "wait")
           W == DropFlags(V, lrq_owner[r], {"scanned", "wakeup"})
<1>1. /\ T \in Table /\ B \in GoodBlock /\ B \in Block
      /\ r \in Queued(B) /\ ~IsPending(B, r) /\ lrq_lock[r] \in Locks
  BY BlockOfGood DEF Keeps, GoodBlock
<1>2. /\ C \in GoodBlock /\ C \in Block
      /\ Queued(C) = Queued(B)
      /\ \A x \in Requests \ {r} : IsPending(C, x) => IsPending(B, x)
  BY <1>1, BeginWaitGood DEF GoodBlock
<1>3. KeepsBlocking(BlockOf(T, r), C)
  BY <1>1, WaitBlocking DEF KeepsBlocking
<1> HIDE DEF C
<1>4. /\ V \in Table /\ V.lbl = [T.lbl EXCEPT ![lrq_lock[r]] = C]
      /\ V.pc = [T.pc EXCEPT ![r] = "wait"] /\ V.dead = T.dead /\ V.pc[r] = "wait"
  BY <1>1, <1>2 DEF At, WithBlock, Table, Place
<1>5. Quiet(T, W) /\ W.pc = [T.pc EXCEPT ![r] = "wait"] /\ SameOwners(T, W)
  <2> DEFINE F == {"scanned", "wakeup"}
  <2>1. "signaled" \notin F
    OBVIOUS
  <2> HIDE DEF F
  <2> QED BY <1>2, <1>3, <2>1, BeginWaitQuiet DEF F
<1> HIDE DEF V
<1>6. V \in GoodTable
  BY <1>1, <1>2, <1>4, MoveGood DEF Keeps, Place
<1>7. W \in GoodTable
  BY <1>6, DropFlagsGood, OwnerOfRequest
<1> HIDE DEF W
<1>8. W.pc[r] = "wait" /\ Registered(W)
  <2>1. T.pc \in [Requests -> Place]
    BY <1>1 DEF Table
  <2>2. \A x \in Requests : W.pc[x] # "free" => T.pc[x] # "free"
    BY <1>5, <2>1
  <2> QED BY <1>5, <2>1, <2>2, RegisteredKept
<1>9. Handover(W)
  BY <1>1, <1>5, QuietHandover
<1>10. begin_wait_for_request(T, r, B, timed) = post_blockage(W, r)
  BY DEF begin_wait_for_request, W, V, C
<1> QED BY <1>7, <1>8, <1>9, <1>10, PostBlockageHandover

\* A thread leaves wait_for_request.
LEMMA EndWaitHandover ==
  ASSUME NEW T \in GoodTable, NEW r \in Requests, T.pc[r] = "wait",
         ~IsPending(BlockOf(T, r), r), Handover(T)
  PROVE  Handover(end_wait_for_request(T, r))
<1> DEFINE B == end_wait(BlockOf(T, r), r)
           X == WithBlock(T, r, B)
           T1 == At(X, r, "idle")
           T2 == PostPending(T1, r, B)
           C == end_convert(BlockOf(T2, r), r)
<1>1. /\ T \in Table /\ lrq_lock[r] \in Locks /\ r \in Queued(BlockOf(T, r))
      /\ BlockOf(T, r) \in GoodBlock /\ BlockOf(T, r) \in Block
  BY BlockOfGood DEF GoodBlock
<1>2. Keeps(BlockOf(T, r), B) /\ B \in Block /\ B \in GoodBlock
  BY <1>1, EndWaitGood DEF Keeps, GoodBlock
<1>3. KeepsBlocking(BlockOf(T, r), B)
  BY <1>1, WaitBlocking
<1> HIDE DEF B
<1>4. /\ T1 \in Table /\ T1.lbl = [T.lbl EXCEPT ![lrq_lock[r]] = B]
      /\ T1.pc = [T.pc EXCEPT ![r] = "idle"] /\ T1.dead = T.dead /\ T1.pc[r] = "idle"
  BY <1>1, <1>2 DEF At, WithBlock, Table, Place
<1>5. BlockOf(T1, r) = B
  BY <1>1, <1>4 DEF BlockOf, Table
<1>6. Quiet(T, T1)
  <2>1. X \in Table /\ X.pc = T.pc
    BY <1>1, <1>2, WithBlockIs
  <2>2. Quiet(T, X)
    BY <1>1, <1>3, WithBlockQuiet
  <2> HIDE DEF X
  <2>3. Quiet(X, At(X, r, "idle"))
    BY <2>1, AtQuiet
  <2> QED BY <2>2, <2>3, QuietTwice
<1>7. end_wait_for_request(T, r) = IF "rejected" \notin B.lrq_flags[r] THEN T1
                                   ELSE IF B.lrq_state[r] = LCK_none THEN ReleaseRequest(T1, r)
                                   ELSE WithBlock(T2, r, C)
  BY DEF end_wait_for_request, B
<1> HIDE DEF T1, X
<1>8. T1 \in GoodTable
  BY <1>1, <1>2, <1>4, MoveGood DEF Keeps, Place
<1>9. Handover(T1)
  BY <1>1, <1>6, QuietHandover
<1>10. Handover(ReleaseRequest(T1, r))
  BY <1>4, <1>8, <1>9, ReleaseRequestHandover
<1>11. Handover(WithBlock(T2, r, C))
  <2>1. Keeps(BlockOf(T1, r), B) /\ KeepsBlocking(BlockOf(T1, r), B)
    BY <1>2, <1>5 DEF Keeps, KeepsBlocking
  <2>2. T2 \in GoodTable /\ Quiet(T1, T2)
    BY <1>2, <1>4, <1>8, <2>1, PostPendingTableGood, PostPendingQuiet
  <2> HIDE DEF T2
  <2>3. T2 \in Table
    BY <2>2 DEF GoodTable
  <2>4. Quiet(T2, WithBlock(T2, r, C))
    BY <2>3, EndConvertBlocking, WithBlockQuiet
  <2>5. Quiet(T1, WithBlock(T2, r, C))
    BY <2>2, <2>4, QuietTwice
  <2> QED BY <1>4, <1>9, <2>5, QuietHandover
<1> QED BY <1>7, <1>9, <1>10, <1>11

\* What the invariant says when a call begins.
LEMMA HandoverNow ==
  ASSUME Now \in SoundTable, Handover(Now)
  PROVE  /\ Now \in GoodTable /\ Now \in Table /\ Registered(Now) /\ Now.pc = pc
         /\ \A x \in Requests : pc[x] = "free" => "blocking" \notin BlockOf(Now, x).lrq_flags[x]
<1>1. Now \in GoodTable /\ Now \in Table /\ Registered(Now) /\ Now.pc = pc
  BY SoundNow DEF GoodTable
<1> QED BY <1>1 DEF Handover, QueueExact, Blocking

\* A step to a table that is as quiet as the present one.
LEMMA QuietBecomes ==
  ASSUME Now \in SoundTable, Handover(Now), NEW U \in GoodTable, Becomes(U), Quiet(Now, U)
  PROVE  Handover(Now')
<1>1. Now' = U
  BY BecomesIs
<1>2. Handover(U)
  BY HandoverNow, QuietHandover
<1> QED BY <1>1, <1>2

\* dequeue, and a downgrade to nothing.
LEMMA ReleaseSignals ==
  ASSUME Now \in SoundTable, Handover(Now), NEW r \in Requests, pc[r] = "idle",
         Becomes(ReleaseRequest(Now, r))
  PROVE  Handover(Now')
<1> DEFINE U == ReleaseRequest(Now, r)
<1>1. Now \in GoodTable /\ Now.pc[r] = "idle"
  BY HandoverNow
<1>2. U \in GoodTable /\ Handover(U)
  BY <1>1, ReleaseRequestTableGood, ReleaseRequestHandover
<1>3. Becomes(U)
  OBVIOUS
<1> HIDE DEF U
<1>4. Now' = U
  BY <1>2, <1>3, BecomesIs
<1> QED BY <1>2, <1>4

\* internal_convert.
LEMMA ConvertSignals ==
  ASSUME Now \in SoundTable, Handover(Now), NEW r \in Requests, Active(lrq_owner[r]),
         pc[r] = "idle", NEW type \in Level, NEW lck_wait, internal_convert(r, type, lck_wait)
  PROVE  Handover(Now')
<1> DEFINE A == BlockOf(Now, r)
           B == begin_convert(A, r, type)
           fits == compatibility(type, StateWithout(B, r))
<1>1. \/ fits /\ Becomes(GrantAndPost(Now, r, grant_convert(B, r)))
      \/ Becomes(WithBlock(Now, r, end_convert(B, r)))
      \/ Becomes(begin_wait_for_request(Now, r, B, lck_wait = "timeout"))
  BY DEF internal_convert
<1>2. /\ Now \in GoodTable /\ Now \in Table /\ Registered(Now) /\ Now.pc[r] = "idle"
      /\ A \in GoodBlock /\ A \in Block /\ r \in Queued(A)
  BY HandoverNow, BlockOfGood DEF GoodBlock
<1>3. /\ Keeps(A, B) /\ B \in GoodBlock /\ r \in Queued(B) /\ B.lrq_requested[r] = type
      /\ KeepsBlocking(A, B)
  BY <1>2, BeginConvertGood, BeginConvertBlocking DEF Keeps
<1> HIDE DEF B, fits
<1>4. ASSUME fits, Becomes(GrantAndPost(Now, r, grant_convert(B, r)))
      PROVE  Handover(Now')
  <2> DEFINE G == grant_convert(B, r)
             U == GrantAndPost(Now, r, G)
  <2>1. Keeps(A, G) /\ G \in GoodBlock /\ KeepsBlocking(A, G)
    <3>1. KeepsBlocking(B, G)
      BY GrantBlocking
    <3>2. Keeps(A, G) /\ G \in GoodBlock
      BY <1>3, <1>4, GrantConvertGood DEF Keeps, fits
    <3> HIDE DEF G
    <3> QED BY <1>3, <3>1, <3>2 DEF KeepsBlocking
  <2>2. Becomes(U)
    BY <1>4
  <2> HIDE DEF G
  <2>3. U \in GoodTable /\ Quiet(Now, U)
    BY <1>2, <2>1, GrantAndPostGood, GrantAndPostQuiet
  <2> HIDE DEF U
  <2> QED BY <2>2, <2>3, QuietBecomes
<1>5. ASSUME Becomes(WithBlock(Now, r, end_convert(B, r)))
      PROVE  Handover(Now')
  <2> DEFINE C == end_convert(B, r)
             U == WithBlock(Now, r, C)
  <2>1. Keeps(A, C) /\ KeepsBlocking(A, C)
    <3>1. KeepsBlocking(B, C) /\ Keeps(B, C)
      BY <1>3, EndConvertBlocking, EndConvertGood
    <3> HIDE DEF C
    <3> QED BY <1>3, <3>1 DEF KeepsBlocking, Keeps
  <2>2. Becomes(U)
    BY <1>5
  <2> HIDE DEF C
  <2>3. U \in GoodTable /\ Quiet(Now, U)
    BY <1>2, <2>1, WithBlockGood, WithBlockQuiet
  <2> HIDE DEF U
  <2> QED BY <2>2, <2>3, QuietBecomes
<1>6. ASSUME Becomes(begin_wait_for_request(Now, r, B, lck_wait = "timeout"))
      PROVE  Handover(Now')
  <2> DEFINE timed == lck_wait = "timeout"
             U == begin_wait_for_request(Now, r, B, timed)
  <2>1. timed \in BOOLEAN /\ Becomes(U)
    BY <1>6
  <2> HIDE DEF timed
  <2>2. U \in GoodTable /\ Handover(U)
    BY <1>2, <1>3, <2>1, BeginWaitTableGood, BeginWaitHandover
  <2> HIDE DEF U
  <2>3. Now' = U
    BY <2>1, <2>2, BecomesIs
  <2> QED BY <2>2, <2>3
<1> QED BY <1>1, <1>4, <1>5, <1>6

\* enqueue.
LEMMA EnqueueSignals ==
  ASSUME Now \in SoundTable, Handover(Now), NEW r \in Requests, NEW type \in Level, NEW lck_wait,
         Enqueue(r, type, lck_wait)
  PROVE  Handover(Now')
<1> DEFINE T == IF pc[r] = "idle" THEN ReleaseRequest(Now, r) ELSE Now
           A == BlockOf(T, r)
           B == insert_request(A, r, type)
           X == WithBlock(T, r, B)
           T1 == At(X, r, "idle")
<1>1. Active(lrq_owner[r]) /\ pc[r] \in {"free", "idle"}
  BY DEF Enqueue
<1>2. /\ T \in GoodTable /\ T \in Table /\ T.pc[r] = "free" /\ SameOwners(Now, T)
      /\ SamePlaces(Now, T, {r})
  BY <1>1, EnqueueBegins DEF GoodTable
<1>3. Handover(T)
  <2>1. CASE pc[r] = "idle"
    <3>1. Handover(ReleaseRequest(Now, r))
      BY <2>1, HandoverNow, ReleaseRequestHandover
    <3> QED BY <2>1, <3>1
  <2>2. CASE pc[r] # "idle"
    BY <2>2
  <2> QED BY <2>1, <2>2
<1>4. \/ grant_now(A, type) /\ Becomes(GrantAndPost(T1, r, grant(B, r)))
      \/ Becomes(ReleaseRequest(T1, r))
      \/ Becomes(begin_wait_for_request(T1, r, B, lck_wait = "timeout"))
  BY DEF Enqueue
<1> HIDE DEF T
<1>5. /\ A \in GoodBlock /\ A \in Block /\ r \notin Queued(A) /\ lrq_lock[r] \in Locks
      /\ "blocking" \notin A.lrq_flags[r]
  <2>1. "blocking" \notin A.lrq_flags[r]
    BY <1>2, <1>3 DEF Handover, QueueExact, Blocking
  <2> QED BY <1>2, <2>1, BlockOfGood DEF GoodBlock
<1> HIDE DEF A
<1>6. /\ B \in GoodBlock /\ B \in Block
      /\ Queued(B) = Queued(A) \cup {r}
      /\ B.lrq_requested[r] = type
      /\ B.lrq_state[r] = LCK_none
      /\ B.lrq_state = A.lrq_state
      /\ ~IsPending(B, r)
      /\ \A x \in Requests : IsPending(B, x) => IsPending(A, x)
  BY <1>5, InsertRequestGood DEF GoodBlock
<1>7. B.lbl_state = A.lbl_state /\ KeepsBlocking(A, B)
  <2>1. B.lbl_state = A.lbl_state
    BY DEF insert_request
  <2>2. KeepsBlocking(A, B)
    BY <1>5, InsertBlocking
  <2> QED BY <2>1, <2>2
<1> HIDE DEF B
<1>8. /\ T1 \in Table /\ T1.lbl = [T.lbl EXCEPT ![lrq_lock[r]] = B]
      /\ T1.pc = [T.pc EXCEPT ![r] = "idle"] /\ T1.dead = T.dead /\ T1.pc[r] = "idle"
      /\ SameOwners(T, T1)
  BY <1>2, <1>5, <1>6 DEF At, WithBlock, Table, Place, SameOwners
<1>9. BlockOf(T1, r) = B
  BY <1>2, <1>5, <1>8 DEF BlockOf, Table
<1>10. Quiet(T, T1)
  <2>1. X \in Table /\ X.pc = T.pc
    BY <1>2, <1>6, WithBlockIs
  <2>2. Quiet(T, X)
    BY <1>2, <1>7, WithBlockQuiet DEF A
  <2> HIDE DEF X
  <2>3. Quiet(X, At(X, r, "idle"))
    BY <1>2, <2>1, AtQuiet
  <2> QED BY <2>2, <2>3, QuietTwice
<1> HIDE DEF T1, X
<1>11. T1 \in GoodTable
  <2>1. Queued(B) \ {r} = Queued(BlockOf(T, r)) \ {r} /\ r \in Queued(B)
    BY <1>6 DEF A
  <2>2. \A x \in Requests \ {r} : IsPending(B, x) => IsPending(BlockOf(T, r), x)
    BY <1>6 DEF A
  <2> QED BY <1>2, <1>6, <1>8, <2>1, <2>2, MoveGood DEF Place
<1>12. Handover(T1)
  BY <1>2, <1>3, <1>10, QuietHandover
<1>13. Registered(T1)
  <2>1. lrq_owner[r] \in lhb_owners /\ own_count[lrq_owner[r]] > 0
    BY <1>1 DEF Active
  <2>2. \A x \in Requests \ {r} : T1.pc[x] # "free" => Now.pc[x] # "free"
    <3>1. T.pc \in [Requests -> Place]
      BY <1>2 DEF Table
    <3> QED BY <1>2, <1>8, <3>1 DEF SamePlaces
  <2>3. SameOwners(Now, T1)
    BY <1>2, <1>8 DEF SameOwners
  <2> QED BY <2>1, <2>2, <2>3, SoundNow DEF Registered, SameOwners
<1>14. ASSUME grant_now(A, type), Becomes(GrantAndPost(T1, r, grant(B, r)))
       PROVE  Handover(Now')
  <2> DEFINE G == grant(B, r)
             U == GrantAndPost(T1, r, G)
  <2>1. Keeps(B, G) /\ G \in GoodBlock /\ KeepsBlocking(B, G)
    <3>1. compatibility(B.lrq_requested[r], B.lbl_state)
      BY <1>6, <1>7, <1>14 DEF grant_now
    <3> QED BY <1>6, <3>1, GrantGood, GrantBlocking DEF Keeps
  <2>2. Becomes(U)
    BY <1>14
  <2> HIDE DEF G
  <2>3. U \in GoodTable /\ Quiet(T1, U)
    BY <1>8, <1>9, <1>11, <2>1, GrantAndPostGood, GrantAndPostQuiet
  <2> HIDE DEF U
  <2>4. Handover(U)
    BY <1>8, <1>12, <2>3, QuietHandover
  <2>5. Now' = U
    BY <2>2, <2>3, BecomesIs
  <2> QED BY <2>4, <2>5
<1>15. ASSUME Becomes(ReleaseRequest(T1, r)) PROVE Handover(Now')
  <2> DEFINE U == ReleaseRequest(T1, r)
  <2>1. U \in GoodTable /\ Handover(U)
    BY <1>8, <1>11, <1>12, ReleaseRequestTableGood, ReleaseRequestHandover
  <2>2. Becomes(U)
    BY <1>15
  <2> HIDE DEF U
  <2>3. Now' = U
    BY <2>1, <2>2, BecomesIs
  <2> QED BY <2>1, <2>3
<1>16. ASSUME Becomes(begin_wait_for_request(T1, r, B, lck_wait = "timeout"))
       PROVE  Handover(Now')
  <2> DEFINE timed == lck_wait = "timeout"
             U == begin_wait_for_request(T1, r, B, timed)
  <2>1. timed \in BOOLEAN /\ Becomes(U)
    BY <1>16
  <2> HIDE DEF timed
  <2>2. Keeps(BlockOf(T1, r), B) /\ KeepsBlocking(BlockOf(T1, r), B)
    BY <1>6, <1>9 DEF Keeps, KeepsBlocking
  <2>3. U \in GoodTable /\ Handover(U)
    BY <1>8, <1>11, <1>12, <1>13, <2>1, <2>2, BeginWaitTableGood, BeginWaitHandover
  <2> HIDE DEF U
  <2>4. Now' = U
    BY <2>1, <2>3, BecomesIs
  <2> QED BY <2>3, <2>4
<1> QED BY <1>4, <1>14, <1>15, <1>16

\* Every call on a request.
LEMMA RequestStepSignals ==
  ASSUME Now \in SoundTable, Handover(Now), NEW r \in Requests, RequestStep(r)
  PROVE  Handover(Now')
<1>1. ASSUME NEW type \in RequestLevels[r], NEW lck_wait \in WaitModes[r],
             Enqueue(r, type, lck_wait) \/ Convert(r, type, lck_wait)
      PROVE  Handover(Now')
  <2>1. type \in Level
    BY ManagerAssumption DEF GrantedLevel, Level, LCK_none, LCK_null, LCK_EX
  <2> QED BY <1>1, <2>1, EnqueueSignals, ConvertSignals DEF Convert
<1>2. CASE Downgrade(r)
  <2> DEFINE to == DowngradeTo(BlockOf(Now, r), r)
  <2>1. to \in Level
    BY SoundNow, BlockOfGood, DowngradeToType
  <2>2. Active(lrq_owner[r]) /\ pc[r] = "idle"
        /\ (Becomes(ReleaseRequest(Now, r)) \/ internal_convert(r, to, "no_wait"))
    BY <1>2 DEF Downgrade
  <2> HIDE DEF to
  <2> QED BY <2>1, <2>2, ReleaseSignals, ConvertSignals
<1>3. CASE Dequeue(r)
  BY <1>3, ReleaseSignals DEF Dequeue
<1> QED BY <1>1, <1>2, <1>3 DEF RequestStep

-------------------------------------------------------------------------
(* Owners and processes.                                                 *)

\* An owner that is in use stays in use or leaves, a process dies: nobody has more to be
\* looked after than before.
LEMMA FewerHandover ==
  ASSUME NEW T \in Table, NEW U \in Table, Handover(T),
         U.lbl = T.lbl, U.pc = T.pc, U.lhb_owners = T.lhb_owners, U.own_blocks = T.own_blocks,
         U.own_flags = T.own_flags, U.prc_blocking = T.prc_blocking, U.sig = T.sig, U.ast = T.ast,
         \A o \in Owners : U.own_count[o] > 0 => T.own_count[o] > 0,
         T.dead \subseteq U.dead
  PROVE  Handover(U)
<1>1. \A x \in Requests : Blocking(U, x) <=> Blocking(T, x)
  BY DEF Blocking, BlockOf
<1>2. AstsInPlace(U)
  BY DEF Handover, AstsInPlace
<1>3. ListsInPlace(U)
  BY DEF Handover, ListsInPlace, ListInPlace
<1>4. QueueExact(U)
  <2>1. \A o \in Owners : \A i \in DOMAIN T.own_blocks[o] :
          T.own_blocks[o][i] # Repost => T.own_blocks[o][i] \in Requests
    BY DEF Table
  <2> QED BY <1>1, <2>1 DEF Handover, QueueExact
<1>5. ASSUME NEW o \in Living(U) PROVE Served(U, o) /\ Announced(U, o)
  <2>1. o \in Living(T) /\ o \in Owners
    BY DEF Living, Table
  <2>2. Served(T, o) /\ Announced(T, o)
    BY <2>1 DEF Handover
  <2> QED BY <2>1, <2>2 DEF Served, Announced
<1> QED BY <1>2, <1>3, <1>4, <1>5 DEF Handover

\* initializeOwner, another user.
LEMMA InitializeAgainSignals ==
  ASSUME Now \in SoundTable, Handover(Now), NEW o \in Owners, InitializeAgain(o)
  PROVE  Handover(Now')
<1>1. Now \in GoodTable /\ Now \in Table
  BY HandoverNow
<1>2. Now' \in Table
  BY <1>1, InitializeAgainGood DEF GoodTable
<1>3. /\ Now' = [Now EXCEPT !.own_count = [own_count EXCEPT ![o] = @ + 1]]
      /\ own_count[o] > 0
  BY DEF InitializeAgain, Becomes, Now, Active
<1>4. \A p \in Owners : Now'.own_count[p] > 0 => Now.own_count[p] > 0
  BY <1>1, <1>3, NowFields DEF Now
<1> QED BY <1>1, <1>2, <1>3, <1>4, FewerHandover DEF Now

\* shutdownOwner.
LEMMA ShutdownOwnerSignals ==
  ASSUME Now \in SoundTable, Handover(Now), NEW o \in Owners, ShutdownOwner(o)
  PROVE  Handover(Now')
<1>1. Now \in GoodTable /\ Now \in Table
  BY HandoverNow
<1>2. Now' \in Table
  BY <1>1, ShutdownOwnerGood DEF GoodTable
<1>3. /\ Now' = [Now EXCEPT !.own_count = [own_count EXCEPT ![o] = @ - 1]]
      /\ own_count[o] > 0
  BY DEF ShutdownOwner, Becomes, Now, Active
<1>4. \A p \in Owners : Now'.own_count[p] > 0 => Now.own_count[p] > 0
  BY <1>1, <1>3, NowFields DEF Now
<1> QED BY <1>1, <1>2, <1>3, <1>4, FewerHandover DEF Now

\* A process dies; nobody need look after its owners any more.
LEMMA ProcessDiesSignals ==
  ASSUME Now \in SoundTable, Handover(Now), NEW p \in Processes, ProcessDies(p)
  PROVE  Handover(Now')
<1>1. Now \in GoodTable /\ Now \in Table
  BY HandoverNow
<1>2. Now' \in Table
  BY <1>1, ProcessDiesGood DEF GoodTable
<1>3. Now' = [Now EXCEPT !.dead = {p}] /\ Now.dead = {}
  BY DEF ProcessDies, Becomes, Now
<1> QED BY <1>1, <1>2, <1>3, FewerHandover DEF Now

\* cancelWait.
LEMMA CancelWaitSignals ==
  ASSUME Now \in SoundTable, Handover(Now), NEW o \in Owners, CancelWait(o)
  PROVE  Handover(Now')
<1>1. Now \in GoodTable /\ Now \in Table
  BY HandoverNow
<1>2. /\ lbl' = lbl /\ lhb_owners' = lhb_owners /\ own_count' = own_count /\ dead' = dead
      /\ own_blocks' = own_blocks /\ prc_blocking' = prc_blocking /\ pc' = pc
      /\ sig' = sig /\ ast' = ast
      /\ own_flags' = [own_flags EXCEPT ![o] = @ \cup {"wakeup"}]
  BY DEF CancelWait, Becomes, Now
<1>3. own_flags \in [Owners -> SUBSET OwnFlag]
  BY <1>1, NowFields
<1>4. Quiet(Now, Now')
  BY <1>2, <1>3 DEF Quiet, Now, Blocking, BlockOf
<1> QED BY <1>1, <1>4, QuietHandover

\* create_owner: dead processes are purged, the owner is new and has nothing to run.
LEMMA InitializeOwnerSignals ==
  ASSUME Now \in SoundTable, Handover(Now), NEW o \in Owners, InitializeOwner(o)
  PROVE  Handover(Now')
<1> DEFINE T == probe_processes(Now)
           U == Now'
<1>1. Now \in GoodTable /\ Registered(Now)
  BY HandoverNow
<1>2. T \in GoodTable /\ T \in Table /\ Handover(T)
  BY <1>1, ProbeProcessesGood, ProbeHandover DEF GoodTable
<1>3. o \notin T.lhb_owners /\ Becomes([T EXCEPT !.lhb_owners = @ \cup {o},
                             !.own_count = [@ EXCEPT ![o] = 1],
                             !.own_flags = [@ EXCEPT ![o] = {}],
                             !.own_blocks = [@ EXCEPT ![o] = << >>]])
  BY DEF InitializeOwner
<1> HIDE DEF T
<1>4. /\ lbl' = T.lbl /\ pc' = T.pc /\ lhb_owners' = T.lhb_owners \cup {o} /\ dead' = T.dead
      /\ own_count' = [T.own_count EXCEPT ![o] = 1]
      /\ own_flags' = [T.own_flags EXCEPT ![o] = {}]
      /\ own_blocks' = [T.own_blocks EXCEPT ![o] = << >>]
      /\ prc_blocking' = T.prc_blocking /\ sig' = T.sig /\ ast' = T.ast
  BY <1>2, <1>3 DEF Becomes, Table
<1>5. /\ U.lbl = T.lbl /\ U.pc = T.pc /\ U.lhb_owners = T.lhb_owners \cup {o} /\ U.dead = T.dead
      /\ U.own_count = [T.own_count EXCEPT ![o] = 1]
      /\ U.own_flags = [T.own_flags EXCEPT ![o] = {}]
      /\ U.own_blocks = [T.own_blocks EXCEPT ![o] = << >>]
      /\ U.prc_blocking = T.prc_blocking /\ U.sig = T.sig /\ U.ast = T.ast
  BY <1>4 DEF Now
<1> HIDE DEF U
<1>6. /\ T.own_count \in [Owners -> Nat] /\ T.own_flags \in [Owners -> SUBSET OwnFlag]
      /\ T.own_blocks \in [Owners -> Seq(Requests \cup {Repost})]
  BY <1>2 DEF Table
<1>7. U.own_blocks = T.own_blocks
  <2>1. T.own_blocks[o] = << >>
    BY <1>2, <1>3 DEF Handover, QueueExact
  <2> DEFINE f == T.own_blocks
             S == Seq(Requests \cup {Repost})
  <2>2. f \in [Owners -> S] /\ f[o] = << >>
    BY <1>6, <2>1
  <2> HIDE DEF f, S
  <2>3. [f EXCEPT ![o] = << >>] = f
    BY <2>2
  <2> QED BY <1>5, <2>3 DEF f
<1>8. \A x \in Requests : Blocking(U, x) <=> Blocking(T, x)
  BY <1>5 DEF Blocking, BlockOf
<1>9. AstsInPlace(U)
  BY <1>2, <1>5 DEF Handover, AstsInPlace
<1>10. ListsInPlace(U)
  BY <1>2, <1>5 DEF Handover, ListsInPlace, ListInPlace
<1>11. QueueExact(U)
  <2>1. \A p \in Owners : \A i \in DOMAIN T.own_blocks[p] :
          T.own_blocks[p][i] # Repost => T.own_blocks[p][i] \in Requests
    BY <1>6
  <2> QED BY <1>2, <1>5, <1>7, <1>8, <2>1 DEF Handover, QueueExact
<1>12. ASSUME NEW p \in Living(U) PROVE Served(U, p) /\ Announced(U, p)
  <2>1. CASE p = o
    BY <1>5, <1>6, <2>1 DEF Served, Announced
  <2>2. CASE p # o
    <3>1. p \in Living(T) /\ p \in Owners
      BY <1>2, <1>5, <2>2 DEF Living, Table
    <3>2. Served(T, p) /\ Announced(T, p)
      BY <1>2, <3>1 DEF Handover
    <3>3. U.own_flags[p] = T.own_flags[p] /\ U.own_count[p] = T.own_count[p]
      BY <1>5, <1>6, <2>2, <3>1
    <3> QED BY <1>5, <1>7, <3>2, <3>3 DEF Served, Announced
  <2> QED BY <2>1, <2>2
<1> QED BY <1>9, <1>10, <1>11, <1>12 DEF Handover, U

\* own_ast_count is zero when no thread runs ASTs of the owner.
LEMMA AstCountZero ==
  ASSUME Now \in GoodTable, AstsInPlace(Now), NEW o \in Owners, own_ast_count(o) = 0
  PROVE  \A t \in Threads : ast[t] # o
<1> DEFINE S == {t \in Threads : ast[t] = o}
           R == Requests \cup {o, own_process[o]}
<1>1. S \in SUBSET R
  <2>1. ASSUME NEW t \in Threads, ast[t] = o, t \notin Requests PROVE t \in R
    <3>1. /\ own_process[o] = ProcessOf(t)
          /\ t \in Owners => o = t
      BY <2>1, ManagerAssumption DEF AstsInPlace, Now
    <3>2. t \in Processes => ProcessOf(t) = t
      BY DEF ProcessOf
    <3> QED BY <2>1, <3>1, <3>2 DEF Threads
  <2> QED BY <2>1
<1>2. IsFiniteSet(R)
  <2>1. IsFiniteSet({o, own_process[o]})
    <3>1. IsFiniteSet({}) /\ {o, own_process[o]} = ({} \cup {o}) \cup {own_process[o]}
      BY FS_EmptySet
    <3>2. IsFiniteSet({} \cup {o})
      BY <3>1, FS_AddElement
    <3> QED BY <3>1, <3>2, FS_AddElement
  <2> QED BY <2>1, RequestsAssumption, FS_Union
<1>3. IsFiniteSet(S) /\ Cardinality(S) = 0
  BY <1>1, <1>2, FS_Subset DEF own_ast_count
<1> HIDE DEF S
<1>4. S = {}
  BY <1>3, FS_EmptySet
<1> QED BY <1>4 DEF S

\* purge_owner: no AST of the owner runs, and it has no request left.
LEMMA PurgeOwnerSignals ==
  ASSUME Now \in SoundTable, Handover(Now), NEW o \in Owners, PurgeOwner(o)
  PROVE  Handover(Now')
<1> DEFINE U == Now'
<1>1. Now \in GoodTable /\ Now \in Table /\ Registered(Now) /\ Now.pc = pc
  BY HandoverNow
<1>2. /\ Now.own_count[o] = 0
      /\ \A t \in Threads : ast[t] # o
  BY <1>1, AstCountZero DEF PurgeOwner, Handover, Now
<1>3. /\ lbl' = lbl /\ pc' = pc /\ lhb_owners' = lhb_owners \ {o} /\ dead' = dead
      /\ own_count' = own_count
      /\ own_flags' = [own_flags EXCEPT ![o] = {}]
      /\ own_blocks' = [own_blocks EXCEPT ![o] = << >>]
      /\ prc_blocking' = prc_blocking /\ sig' = sig /\ ast' = ast
  BY DEF PurgeOwner, Becomes, Now
<1> DEFINE T == Now
<1>4. /\ U.lbl = T.lbl /\ U.pc = T.pc /\ U.lhb_owners = T.lhb_owners \ {o} /\ U.dead = T.dead
      /\ U.own_count = T.own_count
      /\ U.own_flags = [T.own_flags EXCEPT ![o] = {}]
      /\ U.own_blocks = [T.own_blocks EXCEPT ![o] = << >>]
      /\ U.prc_blocking = T.prc_blocking /\ U.sig = T.sig /\ U.ast = T.ast /\ T.ast = ast
  BY <1>3 DEF Now
<1>5. /\ T \in Table /\ Handover(T) /\ Registered(T) /\ T.own_count[o] = 0
      /\ \A t \in Threads : T.ast[t] # o
  BY <1>1, <1>2, <1>4
<1> HIDE DEF U, T
<1>6. /\ T.own_flags \in [Owners -> SUBSET OwnFlag] /\ T.lhb_owners \in SUBSET Owners
      /\ T.own_blocks \in [Owners -> Seq(Requests \cup {Repost})]
  BY <1>5 DEF Table
<1>7. \A x \in Requests : Blocking(U, x) <=> Blocking(T, x)
  BY <1>4 DEF Blocking, BlockOf
<1>8. AstsInPlace(U)
  BY <1>4, <1>5 DEF Handover, AstsInPlace
<1>9. ListsInPlace(U)
  BY <1>4, <1>5 DEF Handover, ListsInPlace, ListInPlace
<1>10. /\ U.own_blocks[o] = << >>
       /\ \A p \in Owners \ {o} : U.own_blocks[p] = T.own_blocks[p]
  BY <1>4, <1>6
<1>11. QueueExact(U)
  <2>1. \A p \in Owners : \A i \in DOMAIN T.own_blocks[p] :
          T.own_blocks[p][i] # Repost => T.own_blocks[p][i] \in Requests
    BY <1>6
  <2>2. QueueExact(T)
    BY <1>5 DEF Handover
  <2>3. ASSUME NEW p \in Owners
        PROVE  /\ p \notin U.lhb_owners => U.own_blocks[p] = << >>
               /\ \A i \in DOMAIN U.own_blocks[p] : U.own_blocks[p][i] # Repost =>
                    /\ lrq_owner[U.own_blocks[p][i]] = p
                    /\ Blocking(U, U.own_blocks[p][i])
                    /\ \A j \in DOMAIN U.own_blocks[p] :
                         U.own_blocks[p][i] = U.own_blocks[p][j] => i = j
    <3>1. CASE p = o
      BY <1>10, <3>1
    <3>2. CASE p # o
      BY <1>4, <1>7, <1>10, <2>1, <2>2, <3>2 DEF QueueExact
    <3> QED BY <3>1, <3>2
  <2>4. ASSUME NEW x \in Requests, Blocking(U, x)
        PROVE  /\ U.pc[x] # "free"
               /\ \E i \in DOMAIN U.own_blocks[lrq_owner[x]] : U.own_blocks[lrq_owner[x]][i] = x
    <3>1. /\ T.pc[x] # "free" /\ lrq_owner[x] \in Owners
          /\ \E i \in DOMAIN T.own_blocks[lrq_owner[x]] : T.own_blocks[lrq_owner[x]][i] = x
      BY <1>7, <2>2, <2>4, OwnerOfRequest DEF QueueExact
    <3>2. lrq_owner[x] # o
      BY <1>5, <3>1 DEF Registered
    <3> QED BY <1>4, <1>10, <3>1, <3>2
  <2> QED BY <2>3, <2>4 DEF QueueExact
<1>12. ASSUME NEW p \in Living(U) PROVE Served(U, p) /\ Announced(U, p)
  <2>1. p \in Living(T) /\ p \in Owners /\ p # o
    BY <1>4, <1>6 DEF Living
  <2>2. Served(T, p) /\ Announced(T, p)
    BY <1>5, <2>1 DEF Handover
  <2>3. U.own_flags[p] = T.own_flags[p] /\ U.own_blocks[p] = T.own_blocks[p]
    BY <1>4, <1>6, <2>1
  <2> QED BY <1>4, <2>2, <2>3 DEF Served, Announced
<1> QED BY <1>8, <1>9, <1>11, <1>12 DEF Handover, U

\* A repost on the queue of a registered owner is no request.
LEMMA RepostQueue ==
  ASSUME NEW T \in Table, NEW U, NEW o \in Owners, QueueExact(T), o \in T.lhb_owners,
         U.lbl = T.lbl, U.pc = T.pc, U.lhb_owners = T.lhb_owners,
         U.own_blocks = [T.own_blocks EXCEPT ![o] = Append(T.own_blocks[o], Repost)]
  PROVE  QueueExact(U)
<1> DEFINE q == T.own_blocks[o]
           u == Append(q, Repost)
<1>1. /\ T.own_blocks \in [Owners -> Seq(Requests \cup {Repost})]
      /\ q \in Seq(Requests \cup {Repost})
  BY DEF Table
<1>2. /\ Len(q) \in Nat /\ DOMAIN q = 1 .. Len(q) /\ DOMAIN u = 1 .. (Len(q) + 1)
      /\ u[Len(q) + 1] = Repost /\ \A i \in 1 .. Len(q) : u[i] = q[i]
  <2>1. q \in Seq(Requests \cup {Repost})
    BY <1>1
  <2> HIDE DEF q
  <2> QED BY <2>1
<1>3. /\ U.own_blocks[o] = u
      /\ \A p \in Owners \ {o} : U.own_blocks[p] = T.own_blocks[p]
  BY <1>1
<1>4. \A x \in Requests : Blocking(U, x) <=> Blocking(T, x)
  BY DEF Blocking, BlockOf
<1>5. \A p \in Owners : \A i \in DOMAIN T.own_blocks[p] :
        T.own_blocks[p][i] # Repost => T.own_blocks[p][i] \in Requests
  BY <1>1
<1>6. \A i \in DOMAIN q : q[i] # Repost =>
        /\ lrq_owner[q[i]] = o
        /\ Blocking(U, q[i])
        /\ \A j \in DOMAIN q : q[i] = q[j] => i = j
  BY <1>4, <1>5 DEF QueueExact
<1> HIDE DEF q, u
<1>7. ASSUME NEW p \in Owners
      PROVE  /\ p \notin U.lhb_owners => U.own_blocks[p] = << >>
             /\ \A i \in DOMAIN U.own_blocks[p] : U.own_blocks[p][i] # Repost =>
                  /\ lrq_owner[U.own_blocks[p][i]] = p
                  /\ Blocking(U, U.own_blocks[p][i])
                  /\ \A j \in DOMAIN U.own_blocks[p] :
                       U.own_blocks[p][i] = U.own_blocks[p][j] => i = j
  <2>1. CASE p = o
    <3>1. ASSUME NEW i \in DOMAIN u, u[i] # Repost
          PROVE  /\ lrq_owner[u[i]] = o /\ Blocking(U, u[i])
                 /\ \A j \in DOMAIN u : u[i] = u[j] => i = j
      <4>1. i \in DOMAIN q /\ u[i] = q[i]
        BY <1>2, <3>1
      <4>2. \A j \in DOMAIN u : u[i] = u[j] => j \in DOMAIN q /\ u[j] = q[j]
        BY <1>2, <3>1
      <4> QED BY <1>6, <3>1, <4>1, <4>2
    <3> QED BY <1>3, <2>1, <3>1
  <2>2. CASE p # o
    BY <1>3, <1>4, <1>5, <2>2 DEF QueueExact
  <2> QED BY <2>1, <2>2
<1>8. ASSUME NEW x \in Requests, Blocking(U, x)
      PROVE  /\ U.pc[x] # "free"
             /\ \E i \in DOMAIN U.own_blocks[lrq_owner[x]] : U.own_blocks[lrq_owner[x]][i] = x
  <2>1. /\ T.pc[x] # "free" /\ lrq_owner[x] \in Owners
        /\ \E i \in DOMAIN T.own_blocks[lrq_owner[x]] : T.own_blocks[lrq_owner[x]][i] = x
    BY <1>4, <1>8, OwnerOfRequest DEF QueueExact
  <2>2. CASE lrq_owner[x] = o
    <3>1. PICK i \in DOMAIN q : q[i] = x
      BY <2>1, <2>2 DEF q
    <3>2. i \in DOMAIN u /\ u[i] = x
      BY <1>2, <3>1
    <3> QED BY <1>3, <2>1, <2>2, <3>2
  <2>3. CASE lrq_owner[x] # o
    BY <1>3, <2>1, <2>3
  <2> QED BY <2>2, <2>3
<1> QED BY <1>7, <1>8 DEF QueueExact

\* repost: somebody has been told to run the queue, or the caller runs it.
LEMMA RepostAstSignals ==
  ASSUME Now \in SoundTable, Handover(Now), NEW o \in Owners, RepostAst(o)
  PROVE  Handover(Now')
<1> DEFINE x == [own_blocks EXCEPT ![o] = Append(@, Repost)]
           T == [Now EXCEPT !.own_blocks = x]
           F == [T.own_flags EXCEPT ![o] = own_flags[o] \cup {"signaled"}]
           V == [T EXCEPT !.own_flags = F]
           U == blocking_action(V, o, o)
           N == Now
<1>1. Now \in GoodTable /\ Now \in Table
  BY HandoverNow
<1>2. /\ own_process[o] \notin dead /\ o \in lhb_owners /\ ast[o] = NoOwner
      /\ \/ "signaled" \in own_flags[o] /\ Becomes(T)
         \/ "signaled" \notin own_flags[o] /\ Becomes(U)
  BY DEF RepostAst
<1>3. x \in [Owners -> Seq(Requests \cup {Repost})] /\ Now.own_blocks = own_blocks
  BY <1>1, NowFields
<1>4. x = [N.own_blocks EXCEPT ![o] = Append(N.own_blocks[o], Repost)]
  BY <1>3
<1> HIDE DEF x
<1>5. /\ T \in Table /\ T.lbl = N.lbl /\ T.own_flags = N.own_flags /\ T.own_blocks = x
      /\ T.ast = N.ast /\ SameLists(N, T)
  BY <1>1, <1>3 DEF Table, SameLists
<1>6. /\ N \in Table /\ Handover(N) /\ N.own_flags[o] = own_flags[o]
      /\ o \in N.lhb_owners /\ N.ast[o] = NoOwner
      /\ N.own_flags \in [Owners -> SUBSET OwnFlag] /\ N.lhb_owners \in SUBSET Owners
      /\ N.ast \in [Threads -> Owners \cup {NoOwner}]
      /\ N.own_blocks \in [Owners -> Seq(Requests \cup {Repost})]
  BY <1>1, <1>2 DEF Now, Table
<1>7. T \in GoodTable
  BY <1>1, <1>5, SameLocks DEF SameLists
<1> HIDE DEF T, N
<1>8. /\ V \in Table /\ V.lbl = T.lbl /\ V.own_flags = F /\ V.own_blocks = T.own_blocks
      /\ V.ast = T.ast /\ SameLists(T, V)
  <2>1. F \in [Owners -> SUBSET OwnFlag]
    BY <1>5, <1>6 DEF OwnFlag
  <2> HIDE DEF F
  <2> QED BY <1>5, <2>1 DEF Table, SameLists
<1>9. V \in GoodTable
  BY <1>7, <1>8, SameLocks DEF SameLists
<1>10. /\ F[o] = N.own_flags[o] \cup {"signaled"}
       /\ \A p \in Owners \ {o} : F[p] = N.own_flags[p]
  BY <1>5, <1>6
<1> HIDE DEF F, V
<1>11. QueueExact(T)
  BY <1>4, <1>5, <1>6, RepostQueue DEF SameLists, Handover
<1>12. \A y \in Requests : /\ Blocking(T, y) <=> Blocking(N, y)
                           /\ Blocking(V, y) <=> Blocking(T, y)
  BY <1>5, <1>8 DEF Blocking, BlockOf
<1>13. ListsInPlace(T) /\ AstsInPlace(T)
  BY <1>5, <1>6 DEF Handover, SameLists, ListsInPlace, ListInPlace, AstsInPlace
<1>14. /\ \A p \in Owners \ {o} : x[p] = N.own_blocks[p]
       /\ x[o] # << >> /\ x[o] \in Seq(Requests \cup {Repost})
  <2>1. N.own_blocks[o] \in Seq(Requests \cup {Repost})
    BY <1>6
  <2>2. Append(N.own_blocks[o], Repost) # << >>
    BY <2>1
  <2> QED BY <1>3, <1>4, <1>6, <2>2
<1>15. ASSUME NEW p \in Living(T), p # o
       PROVE  Served(N, p) /\ Announced(T, p) /\ p \in Owners
  <2>1. p \in Living(N) /\ p \in Owners
    BY <1>5, <1>6 DEF SameLists, Living
  <2>2. Served(N, p) /\ Announced(N, p)
    BY <1>6, <2>1 DEF Handover
  <2> QED BY <1>5, <1>14, <1>15, <2>1, <2>2 DEF SameLists, Announced
<1>16. CASE "signaled" \in own_flags[o] /\ Becomes(T)
  <2>1. Now' = T
    BY <1>7, <1>16, BecomesIs
  <2>2. ASSUME NEW p \in Living(T) PROVE Served(T, p) /\ Announced(T, p)
    <3>1. p \in Living(N)
      BY <1>5 DEF SameLists, Living
    <3>2. Served(T, p)
      BY <1>5, <1>6, <3>1 DEF Handover, Served, SameLists
    <3>3. Announced(T, p)
      BY <1>5, <1>6, <1>15, <1>16 DEF Announced
    <3> QED BY <3>2, <3>3
  <2> QED BY <1>11, <1>13, <2>1, <2>2 DEF Handover
<1>17. CASE "signaled" \notin own_flags[o] /\ Becomes(U)
  <2>1. o \in Threads /\ o \notin Requests /\ o \notin Processes /\ o # NoOwner
    BY ManagerAssumption DEF Threads
  <2>2. U \in GoodTable
    BY <1>9, <2>1, BlockingActionGood
  <2>3. Now' = U
    BY <1>17, <2>2, BecomesIs
  <2>4. QueueExact(V)
    <3>1. \A p \in Owners : \A i \in DOMAIN T.own_blocks[p] :
            T.own_blocks[p][i] # Repost => T.own_blocks[p][i] \in Requests
      BY <1>3, <1>5
    <3> QED BY <1>8, <1>11, <1>12, <3>1 DEF QueueExact, SameLists
  <2>5. CASE V.own_count[o] > 0
    <3>1. Starts(V, U, o, o)
      BY <1>5, <1>8, <1>9, <1>14, <2>1, <2>5, ActionRunsIs
    <3> HIDE DEF U
    <3>2. /\ SameLists(V, U) /\ U.own_flags = V.own_flags
          /\ U.own_blocks = [V.own_blocks EXCEPT ![o] = Tail(V.own_blocks[o])]
          /\ U.ast = [V.ast EXCEPT ![o] = o]
          /\ \A y \in Requests : Blocking(U, y) <=> Blocking(V, y) /\ y # Head(V.own_blocks[o])
      BY <3>1 DEF Starts
    <3>3. QueueExact(U)
      BY <1>5, <1>8, <1>9, <1>14, <2>4, <3>2, ActionQueueExact DEF SameLists
    <3>4. U.ast[o] = o /\ \A t \in Threads \ {o} : U.ast[t] = N.ast[t]
      BY <1>5, <1>6, <1>8, <2>1, <3>2
    <3>5. SameLists(N, U)
      BY <1>5, <1>8, <3>2 DEF SameLists
    <3>6. AstsInPlace(U)
      <4>1. own_process[o] = ProcessOf(o)
        BY <2>1 DEF ProcessOf
      <4> QED BY <1>6, <2>1, <3>4, <3>5, <4>1 DEF Handover, AstsInPlace, SameLists
    <3>7. ListsInPlace(U)
      <4>1. \A y \in Requests : U.ast[y] = N.ast[y]
        BY <2>1, <3>4 DEF Threads
      <4> QED BY <1>6, <3>5, <4>1 DEF Handover, SameLists, ListsInPlace, ListInPlace
    <3>8. ASSUME NEW p \in Living(U) PROVE Served(U, p) /\ Announced(U, p)
      <4>1. CASE p = o
        <5>1. "signaled" \in U.own_flags[o]
          BY <1>8, <1>10, <3>2
        <5> QED BY <2>1, <3>4, <4>1, <5>1 DEF Served, Announced
      <4>2. CASE p # o
        <5>1. p \in Living(T)
          BY <1>8, <3>2 DEF Living, SameLists
        <5>2. Served(N, p) /\ Announced(T, p) /\ p \in Owners
          BY <1>15, <4>2, <5>1
        <5>3. U.own_flags[p] = N.own_flags[p] /\ U.own_blocks[p] = T.own_blocks[p]
          <6>1. V.own_blocks \in [Owners -> Seq(Requests \cup {Repost})]
            BY <1>8 DEF Table
          <6> QED BY <1>8, <1>10, <3>2, <4>2, <5>2, <6>1
        <5>4. Announced(U, p)
          BY <1>5, <1>8, <3>2, <5>2, <5>3 DEF Announced, SameLists
        <5>5. Served(U, p)
          <6>1. own_process[p] \in Threads \ {o}
            BY <2>1, <5>2, ManagerAssumption DEF Threads
          <6>2. \A t \in Threads : N.ast[t] = p => U.ast[t] = p
            BY <1>6, <3>4, <5>2, ManagerAssumption
          <6> QED BY <3>4, <3>5, <5>2, <5>3, <6>1, <6>2 DEF Served, SameLists
        <5> QED BY <5>4, <5>5
      <4> QED BY <4>1, <4>2
    <3> QED BY <2>3, <3>3, <3>6, <3>7, <3>8 DEF Handover
  <2>6. CASE ~(V.own_count[o] > 0)
    <3>1. Stops(V, U, o, o)
      BY <1>9, <2>1, <2>6, ActionEndsIs
    <3> HIDE DEF U
    <3>2. /\ SameLists(V, U)
          /\ U.own_flags = [V.own_flags EXCEPT ![o] = V.own_flags[o] \ {"signaled"}]
          /\ U.own_blocks = V.own_blocks
          /\ U.ast = [V.ast EXCEPT ![o] = NoOwner]
          /\ \A y \in Requests : Blocking(U, y) <=> Blocking(V, y)
      BY <3>1 DEF Stops
    <3>3. QueueExact(U)
      <4>1. \A p \in Owners : \A i \in DOMAIN V.own_blocks[p] :
              V.own_blocks[p][i] # Repost => V.own_blocks[p][i] \in Requests
        BY <1>8 DEF Table
      <4> QED BY <2>4, <3>2, <4>1 DEF QueueExact, SameLists
    <3>4. \A t \in Threads : U.ast[t] = N.ast[t]
      BY <1>5, <1>6, <1>8, <2>1, <3>2
    <3>5. SameLists(N, U)
      BY <1>5, <1>8, <3>2 DEF SameLists
    <3>6. AstsInPlace(U)
      BY <1>6, <3>4, <3>5 DEF Handover, AstsInPlace, SameLists
    <3>7. ListsInPlace(U)
      <4>1. \A y \in Requests : U.ast[y] = N.ast[y]
        BY <3>4 DEF Threads
      <4> QED BY <1>6, <3>5, <4>1 DEF Handover, SameLists, ListsInPlace, ListInPlace
    <3>8. ASSUME NEW p \in Living(U) PROVE Served(U, p) /\ Announced(U, p)
      <4>1. CASE p = o
        <5>1. "signaled" \notin U.own_flags[o]
          <6>1. V.own_flags \in [Owners -> SUBSET OwnFlag]
            BY <1>8 DEF Table
          <6> QED BY <3>2, <6>1
        <5>2. ~(U.own_count[o] > 0)
          BY <2>6, <3>2 DEF SameLists
        <5> QED BY <4>1, <5>1, <5>2 DEF Served, Announced
      <4>2. CASE p # o
        <5>1. p \in Living(T)
          BY <1>8, <3>2 DEF Living, SameLists
        <5>2. Served(N, p) /\ Announced(T, p) /\ p \in Owners
          BY <1>15, <4>2, <5>1
        <5>3. U.own_flags[p] = N.own_flags[p] /\ U.own_blocks[p] = T.own_blocks[p]
          <6>1. V.own_flags \in [Owners -> SUBSET OwnFlag]
            BY <1>8 DEF Table
          <6> QED BY <1>8, <1>10, <3>2, <4>2, <5>2, <6>1
        <5>4. Announced(U, p)
          BY <1>5, <1>8, <3>2, <5>2, <5>3 DEF Announced, SameLists
        <5>5. Served(U, p)
          <6>1. own_process[p] \in Threads
            BY <5>2, ManagerAssumption DEF Threads
          <6> QED BY <3>4, <3>5, <5>2, <5>3, <6>1 DEF Served, SameLists
        <5> QED BY <5>4, <5>5
      <4> QED BY <4>1, <4>2
    <3> QED BY <2>3, <3>3, <3>6, <3>7, <3>8 DEF Handover
  <2> QED BY <2>5, <2>6
<1> QED BY <1>2, <1>16, <1>17

\* With a thread of an owner or of a request nothing is left undone but its own list.
LEMMA AllButServed ==
  ASSUME NEW T \in Table, NEW t \in Threads, t \notin Processes, AllBut(T, t)
  PROVE  /\ AstsInPlace(T) /\ QueueExact(T)
         /\ \A x \in Requests \ {t} : ListInPlace(T, x)
         /\ \A o \in Living(T) : Served(T, o) /\ Announced(T, o)
<1>1. ASSUME NEW o \in Living(T) PROVE own_process[o] # t
  BY ManagerAssumption DEF Living, Table
<1> QED BY <1>1 DEF AllBut

\* An AST returns and its thread goes on.
LEMMA AstReturnsSignals ==
  ASSUME Now \in SoundTable, Handover(Now), NEW t \in Threads, AstReturns(t)
  PROVE  Handover(Now')
<1> DEFINE o == ast[t]
           a == [ast EXCEPT ![t] = NoOwner]
           V == [Now EXCEPT !.ast = a]
           T == blocking_action(V, t, o)
           N == Now
<1>1. Now \in GoodTable /\ Now \in Table
  BY HandoverNow
<1>2. o \in Owners /\ o # NoOwner
  BY <1>1, NowFields, ManagerAssumption DEF AstReturns
<1>3. \/ T.ast[t] # NoOwner /\ Becomes(T)
      \/ T.ast[t] = NoOwner /\ t \in Owners /\ Becomes(T)
      \/ /\ T.ast[t] = NoOwner /\ t \in Requests /\ pc[t] = "post"
         /\ Becomes(signal_owners(T, t, sig[t]))
      \/ /\ T.ast[t] = NoOwner /\ t \in Processes
         /\ \E T1 \in blocking_action_thread(T, t) : Becomes(T1)
  BY DEF AstReturns
<1>4. /\ N \in GoodTable /\ Handover(N) /\ N.ast = ast /\ N.pc = pc /\ N.sig = sig
      /\ N.ast[t] = o
  BY <1>1 DEF Now
<1>5. a = [N.ast EXCEPT ![t] = NoOwner] /\ a \in [Threads -> Owners \cup {NoOwner}]
  BY <1>1, NowFields DEF Now
<1> HIDE DEF a
<1>6. V \in Table /\ Returned(N, V, t) /\ SameLists(N, V) /\ V.lbl = N.lbl
  <2>1. N \in Table
    BY <1>1
  <2> HIDE DEF N
  <2>2. V = [N EXCEPT !.ast = a]
    BY DEF N
  <2> HIDE DEF V
  <2> QED BY <1>5, <2>1, <2>2 DEF Table, Returned, SameLists
<1> HIDE DEF V, N
<1>7. V \in GoodTable
  BY <1>4, <1>6, SameLocks DEF SameLists
<1>8. T \in GoodTable
  BY <1>2, <1>7, BlockingActionGood
<1> HIDE DEF T, o
<1>9. CASE N.own_count[o] > 0 /\ N.own_blocks[o] # << >>
  <2>1. Handover(T)
    BY <1>2, <1>4, <1>6, <1>7, <1>9, ActionRunsHandover DEF T
  <2>2. T.ast[t] # NoOwner
    <3>1. V.own_count[o] > 0 /\ V.own_blocks[o] # << >>
      BY <1>6, <1>9 DEF Returned, SameLists
    <3>2. Starts(V, T, t, o)
      BY <1>2, <1>7, <3>1, ActionRunsIs DEF T
    <3>3. V.ast \in [Threads -> Owners \cup {NoOwner}]
      BY <1>6 DEF Table
    <3> QED BY <1>2, <3>2, <3>3 DEF Starts
  <2>3. Now' = T
    BY <1>3, <1>8, <2>2, BecomesIs
  <2> QED BY <2>1, <2>3
<1>10. CASE ~(N.own_count[o] > 0 /\ N.own_blocks[o] # << >>)
  <2>1. AllBut(T, t) /\ T.sig = N.sig /\ T.pc = N.pc
    BY <1>2, <1>4, <1>6, <1>7, <1>10, ActionEndsHandover DEF T
  <2>2. T.ast[t] = NoOwner /\ T \in Table
    BY <1>8, <2>1 DEF AllBut, GoodTable
  <2>3. CASE t \in Owners /\ Becomes(T)
    <3>1. t \notin Processes /\ t \notin Requests
      BY <2>3, ManagerAssumption
    <3>2. Handover(T)
      BY <2>1, <2>2, <3>1, AllButServed DEF Handover, ListsInPlace
    <3>3. Now' = T
      BY <1>8, <2>3, BecomesIs
    <3> QED BY <3>2, <3>3
  <2>4. CASE t \in Requests /\ pc[t] = "post" /\ Becomes(signal_owners(T, t, sig[t]))
    <3> DEFINE q == sig[t]
               U == signal_owners(T, t, q)
    <3>1. t \in Requests /\ t \notin Processes /\ q \in Seq(Owners)
      BY <1>1, <2>4, NowFields, ManagerAssumption
    <3>2. T.pc[t] = "post" /\ T.sig[t] = q
      BY <1>4, <2>1, <2>4
    <3>3. \A j \in DOMAIN q : Neighbour(t, q[j])
      BY <1>4, <3>1 DEF Handover, ListsInPlace, ListInPlace
    <3> HIDE DEF q
    <3>4. Signalling(T, t, q)
      BY <2>1, <2>2, <3>1, <3>2, <3>3, AllButServed DEF Signalling
    <3>5. U \in GoodTable /\ Handover(U)
      BY <1>8, <3>1, <3>2, <3>4, SignalOwnersGood, SignalHandover
    <3>6. Becomes(U)
      BY <2>4 DEF q
    <3> HIDE DEF U
    <3>7. Now' = U
      BY <3>5, <3>6, BecomesIs
    <3> QED BY <3>5, <3>7
  <2>5. CASE t \in Processes /\ \E T1 \in blocking_action_thread(T, t) : Becomes(T1)
    <3>1. PICK U \in blocking_action_thread(T, t) : Becomes(U)
      BY <2>5
    <3>2. U \in GoodTable /\ Handover(U)
      BY <1>8, <2>1, <2>5, BlockingThreadGood, BlockingThreadHandover
    <3>3. Now' = U
      BY <3>1, <3>2, BecomesIs
    <3> QED BY <3>2, <3>3
  <2> QED BY <1>3, <2>2, <2>3, <2>4, <2>5
<1> QED BY <1>9, <1>10

\* A blocking thread wakes up for its event.
LEMMA BlockingThreadWakesSignals ==
  ASSUME Now \in SoundTable, Handover(Now), NEW p \in Processes, BlockingThreadWakes(p)
  PROVE  Handover(Now')
<1> DEFINE b == [prc_blocking EXCEPT ![p] = FALSE]
           T == [Now EXCEPT !.prc_blocking = b]
           N == Now
<1>1. Now \in GoodTable /\ Now \in Table
  BY HandoverNow
<1>2. PICK U \in blocking_action_thread(T, p) : Becomes(U)
  BY DEF BlockingThreadWakes
<1>3. /\ N \in GoodTable /\ N \in Table /\ Handover(N) /\ N.ast[p] = NoOwner
      /\ b \in [Processes -> BOOLEAN]
      /\ \A s \in Processes \ {p} : b[s] = N.prc_blocking[s]
  BY <1>1, NowFields DEF BlockingThreadWakes, Now
<1>4. T = [N EXCEPT !.prc_blocking = b]
  OBVIOUS
<1> HIDE DEF N, T, b
<1>5. /\ T \in Table /\ T.lbl = N.lbl /\ T.pc = N.pc /\ T.dead = N.dead
      /\ T.lhb_owners = N.lhb_owners /\ T.own_count = N.own_count /\ T.own_flags = N.own_flags
      /\ T.own_blocks = N.own_blocks /\ T.sig = N.sig /\ T.ast = N.ast /\ T.prc_blocking = b
  BY <1>3, <1>4 DEF Table
<1>6. T \in GoodTable
  BY <1>3, <1>5, SameLocks
<1>7. AllBut(T, p)
  <2>1. \A x \in Requests : Blocking(T, x) <=> Blocking(N, x)
    BY <1>5 DEF Blocking, BlockOf
  <2>2. AstsInPlace(T)
    BY <1>3, <1>5 DEF Handover, AstsInPlace
  <2>3. \A x \in Requests : ListInPlace(T, x)
    BY <1>3, <1>5 DEF Handover, ListsInPlace, ListInPlace
  <2>4. QueueExact(T)
    <3>1. \A o \in Owners : \A i \in DOMAIN N.own_blocks[o] :
            N.own_blocks[o][i] # Repost => N.own_blocks[o][i] \in Requests
      BY <1>3 DEF Table
    <3> QED BY <1>3, <1>5, <2>1, <3>1 DEF Handover, QueueExact
  <2>5. ASSUME NEW o \in Living(T)
        PROVE  Announced(T, o) /\ (own_process[o] # p => Served(T, o))
    <3>1. o \in Living(N) /\ own_process[o] \in Processes
      BY <1>3, <1>5, ManagerAssumption DEF Living, Table
    <3>2. Served(N, o) /\ Announced(N, o)
      BY <1>3, <3>1 DEF Handover
    <3> QED BY <1>3, <1>5, <3>1, <3>2 DEF Served, Announced
  <2> QED BY <1>3, <1>5, <2>2, <2>3, <2>4, <2>5 DEF AllBut
<1>8. U \in GoodTable /\ Handover(U)
  BY <1>2, <1>6, <1>7, BlockingThreadGood, BlockingThreadHandover
<1>9. Now' = U
  BY <1>2, <1>8, BecomesIs
<1> QED BY <1>8, <1>9

-------------------------------------------------------------------------
(* The loop of wait_for_request.                                         *)

\* The thread finds its request granted or rejected.
LEMMA WaitResolvedSignals ==
  ASSUME Now \in SoundTable, Handover(Now), NEW r \in Requests, WaitResolved(r)
  PROVE  Handover(Now')
<1> DEFINE U == end_wait_for_request(Now, r)
<1>1. Now \in GoodTable /\ Now.pc[r] = "wait" /\ ~IsPending(BlockOf(Now, r), r) /\ Becomes(U)
  BY HandoverNow DEF WaitResolved, Waiting
<1>2. U \in GoodTable /\ Handover(U)
  BY <1>1, EndWaitTableGood, EndWaitHandover
<1> HIDE DEF U
<1>3. Now' = U
  BY <1>1, <1>2, BecomesIs
<1> QED BY <1>2, <1>3

\* It is woken without a grant, and tells the holders again.
LEMMA WaitWokenSignals ==
  ASSUME Now \in SoundTable, Handover(Now), NEW r \in Requests, WaitWoken(r)
  PROVE  Handover(Now')
<1> DEFINE F == {"wakeup"}
           T == DropFlags(Now, lrq_owner[r], F)
           U == post_blockage(T, r)
<1>1. /\ Now \in GoodTable /\ Now \in Table /\ Registered(Now)
      /\ Now.pc[r] = "wait" /\ Becomes(U) /\ lrq_owner[r] \in Owners
  BY HandoverNow, OwnerOfRequest DEF WaitWoken, Waiting
<1>2. "signaled" \notin F
  OBVIOUS
<1> HIDE DEF F
<1>3. T \in GoodTable /\ T.pc = Now.pc /\ SameOwners(Now, T)
  BY <1>1, DropFlagsGood DEF DropFlags, Now, SameOwners
<1>4. Handover(T) /\ Registered(T)
  <2>1. Quiet(Now, T)
    BY <1>1, <1>2, DropFlagsQuiet
  <2> HIDE DEF T
  <2> QED BY <1>1, <1>3, <2>1, QuietHandover, RegisteredKept
<1> HIDE DEF T
<1>5. U \in GoodTable /\ Handover(U)
  BY <1>1, <1>3, <1>4, PostBlockageGood, PostBlockageHandover
<1> HIDE DEF U
<1>6. Now' = U
  BY <1>1, <1>5, BecomesIs
<1> QED BY <1>5, <1>6

\* The timeout has passed, or the attachment is cancelled.
LEMMA WaitRejectedSignals ==
  ASSUME Now \in SoundTable, Handover(Now), NEW r \in Requests, WaitRejected(r)
  PROVE  Handover(Now')
<1> DEFINE F == {"wakeup"}
           T == DropFlags(Now, lrq_owner[r], F)
           B == reject(BlockOf(T, r), r)
           V == WithBlock(T, r, B)
           W == probe_processes(V)
           U == end_wait_for_request(W, r)
<1>1. /\ Now \in GoodTable /\ Now \in Table /\ Registered(Now) /\ Waiting(r)
      /\ Now.pc[r] = "wait" /\ Becomes(U) /\ lrq_owner[r] \in Owners
      /\ IsPending(BlockOf(Now, r), r)
  BY HandoverNow, OwnerOfRequest DEF WaitRejected, Waiting
<1>2. "signaled" \notin F
  OBVIOUS
<1> HIDE DEF F
<1>3. T \in GoodTable /\ T \in Table /\ T.pc = Now.pc /\ T.lbl = Now.lbl
  BY <1>1, DropFlagsGood DEF GoodTable
<1>4. SameOwners(Now, T) /\ T.dead = Now.dead
  BY DEF DropFlags, Now, SameOwners
<1>5. Quiet(Now, T)
  BY <1>1, <1>2, DropFlagsQuiet
<1> HIDE DEF T
<1>6. /\ BlockOf(T, r) \in GoodBlock /\ BlockOf(T, r) \in Block
      /\ r \in Queued(BlockOf(T, r)) /\ IsPending(BlockOf(T, r), r)
  BY <1>1, <1>3, BlockOfGood DEF GoodBlock, BlockOf
<1>7. Keeps(BlockOf(T, r), B) /\ ~IsPending(B, r) /\ KeepsBlocking(BlockOf(T, r), B)
  BY <1>6, RejectGood, WaitBlocking
<1> HIDE DEF B
<1>8. V \in GoodTable /\ V.pc = T.pc /\ BlockOf(V, r) = B
  BY <1>3, <1>7, WithBlockGood
<1>9. SameOwners(T, V) /\ V.dead = T.dead
  BY <1>3, WithBlockIs
<1>10. Quiet(T, V)
  BY <1>3, <1>7, WithBlockQuiet
<1> HIDE DEF V
<1>11. Handover(V)
  BY <1>1, <1>5, <1>10, QuietTwice, QuietHandover
<1>12. Registered(V) /\ own_process[lrq_owner[r]] \notin V.dead
  <2>1. SameOwners(Now, V) /\ V.pc = Now.pc /\ V.dead = Now.dead
    BY <1>3, <1>4, <1>8, <1>9 DEF SameOwners
  <2>2. ProcessOf(r) = own_process[lrq_owner[r]]
    BY ManagerAssumption DEF ProcessOf
  <2>3. ProcessOf(r) \notin Now.dead
    BY <1>1 DEF Waiting, Now
  <2> QED BY <1>1, <2>1, <2>2, <2>3, RegisteredKept
<1>13. /\ W \in GoodTable /\ Handover(W)
       /\ W.pc[r] = "wait" /\ ~IsPending(BlockOf(W, r), r)
  <2>1. /\ W \in GoodTable
        /\ \A x \in Requests : own_process[lrq_owner[x]] \notin V.dead =>
             /\ W.pc[x] = V.pc[x]
             /\ IsPending(BlockOf(W, x), x) => IsPending(BlockOf(V, x), x)
    BY <1>8, ProbeProcessesGood
  <2>2. Handover(W)
    BY <1>8, <1>11, <1>12, ProbeHandover
  <2> HIDE DEF W
  <2> QED BY <1>1, <1>3, <1>7, <1>8, <1>12, <2>1, <2>2
<1> HIDE DEF W
<1>14. U \in GoodTable /\ Handover(U)
  BY <1>13, EndWaitTableGood, EndWaitHandover
<1> HIDE DEF U
<1>15. Now' = U
  BY <1>1, <1>14, BecomesIs
<1> QED BY <1>14, <1>15

\* A scan begins by purging the owners of dead processes.
LEMMA PurgeFirstSignals ==
  ASSUME Now \in SoundTable, Handover(Now), NEW r \in Requests, Waiting(r)
  PROVE  LET T == probe_processes(Now)
         IN  T \in GoodTable /\ T \in Table /\ Registered(T) /\ Handover(T) /\ T.pc[r] = "wait"
<1> DEFINE T == probe_processes(Now)
<1>1. T \in GoodTable /\ Registered(T) /\ T.pc[r] = "wait"
  BY PurgeFirst
<1>2. Handover(T)
  BY HandoverNow, ProbeHandover
<1> QED BY <1>1, <1>2 DEF GoodTable

\* The purge before a scan grants the request.
LEMMA WaitScanResolvedSignals ==
  ASSUME Now \in SoundTable, Handover(Now), NEW r \in Requests, WaitScanResolved(r)
  PROVE  Handover(Now')
<1> DEFINE T == probe_processes(Now)
           U == end_wait_for_request(T, r)
<1>1. Waiting(r) /\ ~IsPending(BlockOf(T, r), r) /\ Becomes(U)
  BY DEF WaitScanResolved, ScanDue
<1>2. T \in GoodTable /\ Handover(T) /\ T.pc[r] = "wait"
  BY <1>1, PurgeFirstSignals
<1> HIDE DEF T
<1>3. U \in GoodTable /\ Handover(U)
  BY <1>1, <1>2, EndWaitTableGood, EndWaitHandover
<1> HIDE DEF U
<1>4. Now' = U
  BY <1>1, <1>3, BecomesIs
<1> QED BY <1>3, <1>4

\* A deadlock is found, and its victim rejected.
LEMMA WaitScanDeadlockSignals ==
  ASSUME Now \in SoundTable, Handover(Now), NEW r \in Requests, WaitScanDeadlock(r)
  PROVE  Handover(Now')
<1> DEFINE P == probe_processes(Now)
           F == {"scanned"}
<1>1. Waiting(r)
  BY DEF WaitScanDeadlock, ScanDue
<1>2. PICK v \in deadlock_walk(P, r) :
        LET T1 == DropFlags(WithBlock(P, v, reject(BlockOf(P, v), v)), lrq_owner[v], F)
        IN  Becomes(IF v = r THEN end_wait_for_request(T1, r) ELSE post_wakeup(T1, {v}))
  BY DEF WaitScanDeadlock
<1>3. /\ P \in GoodTable /\ P \in Table /\ Handover(P) /\ P.pc[r] = "wait"
      /\ "signaled" \notin F
  BY <1>1, PurgeFirstSignals
<1>4. v \in Requests /\ IsPending(BlockOf(P, v), v)
  BY <1>2 DEF deadlock_walk
<1> HIDE DEF P, F
<1> DEFINE B == reject(BlockOf(P, v), v)
           V == WithBlock(P, v, B)
           T1 == DropFlags(V, lrq_owner[v], F)
<1>5. /\ BlockOf(P, v) \in GoodBlock /\ BlockOf(P, v) \in Block /\ v \in Queued(BlockOf(P, v))
      /\ lrq_owner[v] \in Owners
  BY <1>3, <1>4, BlockOfGood, OwnerOfRequest DEF GoodBlock
<1>6. Keeps(BlockOf(P, v), B) /\ ~IsPending(B, v) /\ KeepsBlocking(BlockOf(P, v), B)
  BY <1>4, <1>5, RejectGood, WaitBlocking
<1>7. Becomes(IF v = r THEN end_wait_for_request(T1, r) ELSE post_wakeup(T1, {v}))
  BY <1>2
<1> HIDE DEF B
<1>8. V \in GoodTable /\ V \in Table /\ V.pc = P.pc /\ BlockOf(V, v) = B
  BY <1>3, <1>4, <1>6, WithBlockGood DEF GoodTable
<1>9. Quiet(P, V)
  BY <1>3, <1>4, <1>6, WithBlockQuiet
<1> HIDE DEF V
<1>10. T1 \in GoodTable /\ T1 \in Table /\ T1.pc = P.pc /\ T1.lbl = V.lbl
  BY <1>5, <1>8, DropFlagsGood DEF GoodTable
<1>11. Quiet(V, T1)
  BY <1>3, <1>5, <1>8, DropFlagsQuiet
<1> HIDE DEF T1
<1>12. Handover(T1)
  BY <1>3, <1>9, <1>11, QuietTwice, QuietHandover
<1>13. CASE v = r
  <2> DEFINE U == end_wait_for_request(T1, v)
  <2>1. Becomes(U) /\ T1.pc[v] = "wait" /\ ~IsPending(BlockOf(T1, v), v)
    BY <1>3, <1>6, <1>7, <1>8, <1>10, <1>13 DEF BlockOf
  <2>2. U \in GoodTable /\ Handover(U)
    BY <1>4, <1>10, <1>12, <2>1, EndWaitTableGood, EndWaitHandover
  <2> HIDE DEF U
  <2>3. Now' = U
    BY <2>1, <2>2, BecomesIs
  <2> QED BY <2>2, <2>3
<1>14. CASE v # r
  <2> DEFINE U == post_wakeup(T1, {v})
  <2>1. Becomes(U)
    BY <1>7, <1>14
  <2>2. U \in GoodTable /\ Quiet(T1, U)
    BY <1>10, PostWakeupGood, PostWakeupQuiet
  <2> HIDE DEF U
  <2>3. Handover(U)
    BY <1>10, <1>12, <2>2, QuietHandover
  <2>4. Now' = U
    BY <2>1, <2>2, BecomesIs
  <2> QED BY <2>3, <2>4
<1> QED BY <1>13, <1>14

\* No deadlock is found; the holders are told again.
LEMMA WaitScanRepostSignals ==
  ASSUME Now \in SoundTable, Handover(Now), NEW r \in Requests, WaitScanRepost(r)
  PROVE  Handover(Now')
<1> DEFINE P == probe_processes(Now)
           o == lrq_owner[r]
           certain == Scannable(P, r) /\ ~maybe_deadlock(P, r)
           F == [P.own_flags EXCEPT ![o] = P.own_flags[o] \cup (IF certain THEN {"scanned"} ELSE {})]
           T1 == [P EXCEPT !.own_flags = F]
           U == post_blockage(T1, r)
<1>1. Waiting(r)
  BY DEF WaitScanRepost, ScanDue
<1>2. /\ P \in GoodTable /\ P \in Table /\ Registered(P) /\ Handover(P) /\ P.pc[r] = "wait"
      /\ o \in Owners
  BY <1>1, PurgeFirstSignals, OwnerOfRequest
<1>3. Becomes(U)
  BY DEF WaitScanRepost, ScanAndRepost
<1> HIDE DEF P, certain
<1>4. /\ F \in [Owners -> SUBSET OwnFlag]
      /\ \A p \in Owners : "signaled" \in F[p] <=> "signaled" \in P.own_flags[p]
  BY <1>2 DEF Table, OwnFlag
<1> HIDE DEF F
<1>5. /\ T1 \in Table /\ T1.lbl = P.lbl /\ T1.pc = P.pc /\ T1.dead = P.dead /\ SameOwners(P, T1)
      /\ T1.own_flags = F /\ T1.own_blocks = P.own_blocks /\ T1.ast = P.ast /\ T1.sig = P.sig
      /\ T1.prc_blocking = P.prc_blocking
  BY <1>2, <1>4 DEF Table, SameOwners
<1> HIDE DEF T1
<1>6. T1 \in GoodTable
  BY <1>2, <1>5, SameLocks
<1>7. Quiet(P, T1)
  <2>1. \A x \in Requests : Blocking(T1, x) <=> Blocking(P, x)
    BY <1>5 DEF Blocking, BlockOf
  <2> QED BY <1>4, <1>5, <2>1 DEF Quiet, SameOwners
<1>8. Handover(T1) /\ Registered(T1)
  BY <1>2, <1>5, <1>7, QuietHandover, RegisteredKept
<1>9. U \in GoodTable /\ Handover(U)
  BY <1>2, <1>5, <1>6, <1>8, PostBlockageGood, PostBlockageHandover
<1> HIDE DEF U
<1>10. Now' = U
  BY <1>3, <1>9, BecomesIs
<1> QED BY <1>9, <1>10

---------------------------------------------------------------------------

\* Every step of the lock manager leaves all that is queued or marked in somebody's hands.
LEMMA SignalsNext ==
  ASSUME Now \in SoundTable, Handover(Now), Next
  PROVE  Handover(Now')
<1>1. ASSUME NEW o \in Owners, OwnerStep(o) PROVE Handover(Now')
  BY <1>1, InitializeAgainSignals, InitializeOwnerSignals, ShutdownOwnerSignals,
     PurgeOwnerSignals, RepostAstSignals, CancelWaitSignals DEF OwnerStep
<1>2. ASSUME NEW r \in Requests, RequestStep(r) PROVE Handover(Now')
  BY <1>2, RequestStepSignals
<1>3. ASSUME NEW r \in Requests, WaitStep(r) PROVE Handover(Now')
  BY <1>3, WaitResolvedSignals, WaitWokenSignals, WaitRejectedSignals,
     WaitScanResolvedSignals, WaitScanDeadlockSignals, WaitScanRepostSignals DEF WaitStep
<1>4. ASSUME NEW t \in Threads, AstReturns(t) PROVE Handover(Now')
  BY <1>4, AstReturnsSignals
<1>5. ASSUME NEW p \in Processes, ProcessDies(p) \/ BlockingThreadWakes(p)
      PROVE  Handover(Now')
  BY <1>5, ProcessDiesSignals, BlockingThreadWakesSignals
<1> QED BY <1>1, <1>2, <1>3, <1>4, <1>5 DEF Next

\* In an empty lock table nothing is queued and nobody is marked.
LEMMA SignalsInit ==
  ASSUME Init
  PROVE  Handover(Now)
<1>1. /\ \A o \in Owners : Now.own_blocks[o] = << >> /\ Now.own_flags[o] = {}
      /\ \A t \in Threads : Now.ast[t] = NoOwner
      /\ \A r \in Requests : Now.sig[r] = << >> /\ Now.pc[r] = "free"
      /\ Now.lhb_owners \subseteq Owners
  BY DEF Init, Now
<1>2. \A x \in Requests : ~Blocking(Now, x)
  <2>1. \A x \in Requests : BlockOf(Now, x) = FreeBlock
    BY ManagerAssumption DEF Init, Now, BlockOf
  <2> QED BY <2>1 DEF Blocking, FreeBlock
<1>3. AstsInPlace(Now)
  BY <1>1 DEF AstsInPlace
<1>4. ListsInPlace(Now)
  BY <1>1 DEF ListsInPlace, ListInPlace
<1>5. QueueExact(Now)
  BY <1>1, <1>2 DEF QueueExact
<1>6. \A o \in Living(Now) : Served(Now, o) /\ Announced(Now, o)
  BY <1>1 DEF Living, Served, Announced
<1> QED BY <1>3, <1>4, <1>5, <1>6 DEF Handover

\* Whichever threads run and whichever processes die, the blocking queues hold exactly the
\* requests marked blocking, an owner with ASTs to run is marked signalled or about to be,
\* one marked signalled has somebody to run them, and that thread stands where the code
\* that runs ASTs can be: the invariant behind the theorems below.
THEOREM HandoverAlways == Spec => [](Now \in SoundTable /\ Handover(Now))
<1>1. Init => Now \in SoundTable /\ Handover(Now)
  BY SoundInit, SignalsInit
<1>2. Now \in SoundTable /\ Handover(Now) /\ [Next]_vars
        => (Now \in SoundTable /\ Handover(Now))'
  <2>1. Now \in SoundTable /\ Handover(Now) /\ Next => Now' \in SoundTable /\ Handover(Now')
    BY SoundNext, SignalsNext DEF SoundStep
  <2>2. UNCHANGED vars => Now' = Now
    BY DEF vars, Now
  <2>3. Handover(Now') => Handover(Now)'
    BY DEF Handover, AstsInPlace, ListsInPlace, ListInPlace, QueueExact, Blocking, Neighbour,
           Living, Served, Announced, BlockOf
  <2> QED BY <2>1, <2>2, <2>3
<1> QED BY <1>1, <1>2, PTL DEF Spec

\* A blocking AST that signal_owner or blocking_action_thread queued is not forgotten: its
\* owner is marked signalled, or the thread that queued it has yet to reach it in its list.
THEOREM NoLostBlockAlways == Spec => []NoLostBlock
<1>1. Now \in SoundTable /\ Handover(Now) => NoLostBlock
  BY DEF Handover, Living, Announced, NoLostBlock, Now
<1> QED BY <1>1, HandoverAlways, PTL

\* An owner marked signalled has somebody to look after it: a thread in blocking_action,
\* the event of its process posted, or the blocking thread of its process on its round.
THEOREM SignalServedAlways == Spec => []SignalServed
<1>1. Now \in SoundTable /\ Handover(Now) => SignalServed
  BY DEF Handover, Living, Served, SignalServed, Now
<1> QED BY <1>1, HandoverAlways, PTL

\* purge_owner never takes an owner from the table whose AST a thread is running, and
\* leaves no request of it behind.
THEOREM NoAstAfterPurgeAlways == Spec => []NoAstAfterPurge
<1>1. ASSUME Now \in SoundTable, Handover(Now) PROVE NoAstAfterPurge
  <2>1. \A t \in Threads : Now.ast[t] # NoOwner => Now.ast[t] \in Now.lhb_owners
    BY <1>1 DEF Handover, AstsInPlace
  <2>2. \A r \in Requests : Now.pc[r] # "free" => lrq_owner[r] \in Now.lhb_owners
    BY <1>1 DEF SoundTable, Registered
  <2> QED BY <2>1, <2>2 DEF NoAstAfterPurge, Now
<1> QED BY <1>1, HandoverAlways, PTL

\* What validate_owner and validate_request check in debug builds: a request marked
\* LRQ_blocking is on the blocking queue of its owner, once, and nothing else is; a pending
\* one has a thread that waits for it and is not rejected.
THEOREM ValidateOwnerAlways == Spec => []validate_owner
<1>1. ASSUME Now \in SoundTable, Handover(Now) PROVE validate_owner
  <2>1. Now \in GoodTable /\ Now \in Table /\ QueueExact(Now)
    BY <1>1 DEF SoundTable, GoodTable, Handover
  <2>2. ASSUME NEW r \in Requests
        PROVE  LET B == lbl[lrq_lock[r]]
                   entries == {i \in DOMAIN own_blocks[lrq_owner[r]] :
                                 own_blocks[lrq_owner[r]][i] = r}
               IN  /\ Cardinality(entries) = IF "blocking" \in B.lrq_flags[r] THEN 1 ELSE 0
                   /\ IsPending(B, r) => /\ pc[r] \in {"wait", "post"}
                                         /\ "rejected" \notin B.lrq_flags[r]
                   /\ r \in Queued(B) <=> pc[r] # "free"
                   /\ r \in Queued(B) => lrq_owner[r] \in lhb_owners
    <3> DEFINE B == lbl[lrq_lock[r]]
               o == lrq_owner[r]
               entries == {i \in DOMAIN own_blocks[o] : own_blocks[o][i] = r}
    <3>1. o \in Owners /\ BlockOf(Now, r) = B /\ r # Repost
      BY OwnerOfRequest, ManagerAssumption DEF BlockOf, Now
    <3>2. /\ \A i, j \in entries : i = j
          /\ \A i \in entries : "blocking" \in B.lrq_flags[r]
          /\ "blocking" \in B.lrq_flags[r] => \E i \in DOMAIN own_blocks[o] : own_blocks[o][i] = r
      <4>1. Now.own_blocks = own_blocks
        BY DEF Now
      <4> QED BY <2>1, <3>1, <4>1 DEF QueueExact, Blocking
    <3>3. Cardinality(entries) = IF "blocking" \in B.lrq_flags[r] THEN 1 ELSE 0
      <4>1. CASE "blocking" \in B.lrq_flags[r]
        <5>1. PICK i \in entries : entries = {i}
          BY <3>2, <4>1
        <5> QED BY <4>1, <5>1, FS_Singleton
      <4>2. CASE "blocking" \notin B.lrq_flags[r]
        <5>1. entries = {}
          BY <3>2, <4>2
        <5> QED BY <4>2, <5>1, FS_EmptySet
      <4> QED BY <4>1, <4>2
    <3>4. /\ IsPending(B, r) => pc[r] \in {"wait", "post"}
          /\ r \in Queued(B) <=> pc[r] # "free"
      BY <2>1, <3>1, BlockOfGood DEF Now
    <3>5. IsPending(B, r) => "rejected" \notin B.lrq_flags[r]
      BY <1>1, <3>1 DEF SoundTable, ProperIn, Rejected
    <3>6. pc[r] # "free" => o \in lhb_owners
      BY <1>1 DEF SoundTable, Registered, Now
    <3> QED BY <3>3, <3>4, <3>5, <3>6
  <2>3. \A o \in Owners : \A i \in DOMAIN own_blocks[o] :
          own_blocks[o][i] = Repost \/ lrq_owner[own_blocks[o][i]] = o
    BY <2>1 DEF QueueExact, Now
  <2> QED BY <2>2, <2>3 DEF validate_owner
<1> QED BY <1>1, HandoverAlways, PTL
====
