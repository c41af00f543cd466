--------------------- MODULE LockManagerServiceProofs ---------------------
(***************************************************************************)
(* The lock manager implements the lock service, and its queues move on.   *)
(*                                                                         *)
(* Advance says what any routine may do to a lock block on behalf of a set *)
(* of requests, whatever it does to those; it holds of each operation of   *)
(* LockBlock and composes, hence holds of each routine of LockManager.     *)
(* SoundTable strengthens the invariant of LockManagerProofs.  A step is   *)
(* sound when it leads from a sound table to a sound one, advances every   *)
(* lock on behalf of its actor and of the dead, and moves the actor as the *)
(* service allows (SoundStep).  A sound step is a step of the service      *)
(* (ServiceStep), and every action of the lock manager is sound.           *)
(***************************************************************************)
EXTENDS LockManagerService, LockManagerProofs

USE DEF LCK_none, LCK_null, LCK_SR, LCK_PR, LCK_SW, LCK_PW, LCK_EX

\* The wait of the request has been refused, as a victim of a deadlock.
Rejected(B, r) == "rejected" \in B.lrq_flags[r]

\* The request holds and wants in block C what it held and wanted in block B.
SameIn(B, C, x) ==
  /\ C.lrq_state[x] = B.lrq_state[x]
  /\ IsPending(C, x) <=> IsPending(B, x)
  /\ IsPending(C, x) => C.lrq_requested[x] = B.lrq_requested[x]

\* The request has been given what it wanted.
GrantedIn(B, C, x) ==
  /\ IsPending(B, x) /\ ~IsPending(C, x)
  /\ C.lrq_state[x] = B.lrq_requested[x]

\* What one routine, or several, may do to a lock on behalf of the requests in A:
\* everybody else keeps its place and is at most given what it wants, and only
\* after whoever stands before it in the line.
Advance(B, C, A) ==
  /\ \A x \in Requests \ A : /\ SameIn(B, C, x) \/ GrantedIn(B, C, x)
                             /\ x \in Queued(C) <=> x \in Queued(B)
                             /\ x \in Queued(B) => (Rejected(C, x) <=> Rejected(B, x))
  /\ \A x, y \in Requests \ A :
       /\ NewWaiter(C, x) /\ NewWaiter(C, y) => (Before(C, x, y) <=> Before(B, x, y))
       /\ NewWaiter(B, x) /\ ~NewWaiter(C, x) /\ NewWaiter(B, y) /\ Before(B, y, x)
            => ~NewWaiter(C, y)

\* Whoever is no actor never comes to wait, nor changes place in the line, and is not
\* served before those ahead of it.
LEMMA AdvanceWaiters ==
  ASSUME NEW B, NEW C, NEW A, Advance(B, C, A), NEW x \in Requests \ A, NEW y \in Requests \ A
  PROVE  /\ NewWaiter(C, x) => NewWaiter(B, x)
         /\ IsPending(C, x) => IsPending(B, x)
         /\ NewWaiter(C, x) /\ NewWaiter(C, y) => (Before(C, x, y) <=> Before(B, x, y))
         /\ NewWaiter(B, x) /\ ~NewWaiter(C, x) /\ NewWaiter(B, y) /\ Before(B, y, x)
              => ~NewWaiter(C, y)
BY DEF Advance, SameIn, GrantedIn, NewWaiter

\* Two routines one after the other do no more than one may.
LEMMA AdvanceTwice ==
  ASSUME NEW B, NEW C, NEW D, NEW A, Advance(B, C, A), Advance(C, D, A)
  PROVE  Advance(B, D, A)
<1>1. ASSUME NEW x \in Requests \ A
      PROVE  /\ SameIn(B, D, x) \/ GrantedIn(B, D, x)
             /\ x \in Queued(D) <=> x \in Queued(B)
             /\ x \in Queued(B) => (Rejected(D, x) <=> Rejected(B, x))
  BY DEF Advance, SameIn, GrantedIn
<1>2. ASSUME NEW x \in Requests \ A, NEW y \in Requests \ A
      PROVE  /\ NewWaiter(D, x) /\ NewWaiter(D, y) => (Before(D, x, y) <=> Before(B, x, y))
             /\ NewWaiter(B, x) /\ ~NewWaiter(D, x) /\ NewWaiter(B, y) /\ Before(B, y, x)
                  => ~NewWaiter(D, y)
  BY AdvanceWaiters
<1> QED BY <1>1, <1>2 DEF Advance

\* What is allowed on behalf of few requests is allowed on behalf of more.
LEMMA AdvanceMore ==
  ASSUME NEW B, NEW C, NEW A, NEW E, Advance(B, C, A), A \subseteq E
  PROVE  Advance(B, C, E)
BY DEF Advance

\* A block that does not change.
LEMMA AdvanceIdle ==
  ASSUME NEW B, NEW A
  PROVE  Advance(B, B, A)
BY DEF Advance, SameIn

\* Nothing but flags that do not matter to the service changes.
FlagsOnly(B, C) ==
  /\ C.lbl_requests = B.lbl_requests
  /\ C.lrq_state = B.lrq_state
  /\ C.lrq_requested = B.lrq_requested
  /\ \A x \in Requests : /\ IsPending(C, x) <=> IsPending(B, x)
                         /\ Rejected(C, x) <=> Rejected(B, x)

\* Flags the service does not see are nobody's business.
LEMMA FlagsOnlyAdvance ==
  ASSUME NEW B, NEW C, FlagsOnly(B, C), NEW A
  PROVE  Advance(B, C, A)
<1>1. \A x, y \in Requests : /\ NewWaiter(C, x) <=> NewWaiter(B, x)
                             /\ Before(C, x, y) <=> Before(B, x, y)
  BY DEF FlagsOnly, NewWaiter, Before
<1>2. Queued(C) = Queued(B)
  BY DEF FlagsOnly, Queued
<1> QED BY <1>1, <1>2 DEF Advance, FlagsOnly, SameIn

\* One request changes, the queue of the others does not.
LEMMA OneMoves ==
  ASSUME NEW B, NEW C, NEW r,
         \A x \in Requests \ {r} :
           /\ C.lrq_state[x] = B.lrq_state[x]
           /\ C.lrq_flags[x] = B.lrq_flags[x]
           /\ C.lrq_requested[x] = B.lrq_requested[x],
         Queued(C) \ {r} = Queued(B) \ {r},
         \A x, y \in Requests \ {r} : Before(C, x, y) <=> Before(B, x, y)
  PROVE  Advance(B, C, {r})
<1>1. \A x \in Requests \ {r} :
        /\ SameIn(B, C, x)
        /\ Rejected(C, x) <=> Rejected(B, x)
        /\ NewWaiter(C, x) <=> NewWaiter(B, x)
  BY DEF SameIn, Rejected, NewWaiter, IsPending
<1> QED BY <1>1 DEF Advance

\* Setting flags other than LRQ_pending and LRQ_rejected.
LEMMA AddFlagsOnly ==
  ASSUME NEW B \in Block, NEW S, NEW F \in SUBSET (LrqFlag \ {"pending", "rejected"})
  PROVE  FlagsOnly(B, AddFlags(B, S, F))
BY DEF FlagsOnly, AddFlags, Block, IsPending, Rejected

\* Clearing flags other than LRQ_pending and LRQ_rejected.
LEMMA ClearFlagsOnly ==
  ASSUME NEW B \in Block, NEW S, NEW F \in SUBSET (LrqFlag \ {"pending", "rejected"})
  PROVE  FlagsOnly(B, ClearFlags(B, S, F))
BY DEF FlagsOnly, ClearFlags, Block, IsPending, Rejected

\* post_blockage, marking blockers, changes flags alone.
LEMMA MarkBlockingOnly ==
  ASSUME NEW B \in GoodBlock, NEW S
  PROVE  FlagsOnly(B, mark_blocking(B, S))
<1>1. FlagsOnly(B, ClearFlags(B, S, {"blocking_seen", "just_granted"}))
  BY ClearFlagsOnly DEF LrqFlag, GoodBlock
<1>2. ClearFlags(B, S, {"blocking_seen", "just_granted"}) \in Block
  BY ClearFlagsGood DEF LrqFlag, Keeps, GoodBlock
<1> QED BY <1>1, <1>2, AddFlagsOnly DEF mark_blocking, LrqFlag, FlagsOnly

\* blocking_action, marking a blocker as told, changes flags alone.
LEMMA MarkSeenOnly ==
  ASSUME NEW B \in GoodBlock, NEW r
  PROVE  FlagsOnly(B, mark_seen(B, r))
<1>1. FlagsOnly(B, ClearFlags(B, {r}, {"blocking"}))
  BY ClearFlagsOnly DEF LrqFlag, GoodBlock
<1>2. ClearFlags(B, {r}, {"blocking"}) \in Block
  BY ClearFlagsGood DEF LrqFlag, Keeps, GoodBlock
<1> QED BY <1>1, <1>2, AddFlagsOnly DEF mark_seen, LrqFlag, FlagsOnly

\* Leaving wait_for_request changes flags alone.
LEMMA EndWaitOnly ==
  ASSUME NEW B \in GoodBlock, NEW r
  PROVE  FlagsOnly(B, end_wait(B, r))
BY ClearFlagsOnly DEF end_wait, LrqFlag, GoodBlock

\* post_pending grants the pending requests up to some place in the queue.
LEMMA GrantedFirst ==
  ASSUME NEW B \in GoodBlock
  PROVE  /\ \A x \in Granted(B) : x \in Requests /\ IsPending(B, x)
         /\ \A x, y : x \in Granted(B) /\ Before(B, y, x) /\ IsPending(B, y) => y \in Granted(B)
<1> DEFINE q == B.lbl_requests
<1>1. q \in Seq(Requests) /\ NoDuplicates(B) /\ DOMAIN q \in SUBSET Nat
  BY DEF GoodBlock, Block, BlockInv
<1>2. ASSUME NEW x \in Granted(B), NEW y, Before(B, y, x), IsPending(B, y)
      PROVE  y \in Granted(B)
  <2>1. PICK k \in DOMAIN q : x = q[k] /\ \A j \in Refused(B) : k < j
    BY DEF Granted
  <2>2. PICK i \in DOMAIN q, j \in DOMAIN q : i < j /\ q[i] = y /\ q[j] = x
    BY <1>2 DEF Before
  <2>3. j = k
    BY <1>1, <2>1, <2>2 DEF NoDuplicates
  <2>4. \A n \in Refused(B) : i < n
    BY <1>1, <2>1, <2>2, <2>3 DEF Refused
  <2> QED BY <2>2, <2>4, <1>2 DEF Granted
<1>3. \A x \in Granted(B) : x \in Requests /\ IsPending(B, x)
  BY <1>1 DEF Granted
<1> QED BY <1>2, <1>3

\* Granting that prefix serves waiters in the order of the line.
LEMMA GrantAllAdvance ==
  ASSUME NEW B \in GoodBlock
  PROVE  Advance(B, GrantAll(B, Granted(B)), {})
<1> DEFINE S == Granted(B)
           C == GrantAll(B, S)
<1>1. /\ C.lbl_requests = B.lbl_requests
      /\ C.lrq_requested = B.lrq_requested
      /\ \A x \in Requests : C.lrq_state[x] = IF x \in S THEN B.lrq_requested[x] ELSE B.lrq_state[x]
      /\ \A x \in Requests : C.lrq_flags[x] = IF x \in S THEN B.lrq_flags[x] \ {"pending"}
                                              ELSE B.lrq_flags[x]
  BY DEF GrantAll, GoodBlock, Block
<1> HIDE DEF C, S
<1>2. ASSUME NEW x \in Requests
      PROVE  IF x \in S THEN GrantedIn(B, C, x) ELSE SameIn(B, C, x)
  BY <1>1, GrantedFirst DEF S, GrantedIn, SameIn, IsPending
<1>3. ASSUME NEW x \in Requests PROVE Rejected(C, x) <=> Rejected(B, x)
  BY <1>1 DEF Rejected
<1>4. Queued(C) = Queued(B) /\ \A x, y : Before(C, x, y) <=> Before(B, x, y)
  BY <1>1 DEF Before, Queued
<1>5. ASSUME NEW x \in Requests, NEW y \in Requests,
             NewWaiter(B, x), ~NewWaiter(C, x), NewWaiter(B, y), Before(B, y, x)
      PROVE  ~NewWaiter(C, y)
  <2>1. x \in S
    BY <1>5, <1>2 DEF SameIn, NewWaiter
  <2>2. y \in S
    BY <2>1, <1>5, GrantedFirst DEF S, NewWaiter
  <2> QED BY <2>2, <1>2 DEF GrantedIn, NewWaiter
<1>6. Advance(B, C, {})
  BY <1>2, <1>3, <1>4, <1>5 DEF Advance
<1> QED BY <1>6 DEF C, S

\* post_pending serves waiters in the order of the line, whoever calls it.
LEMMA PostPendingAdvance ==
  ASSUME NEW B \in GoodBlock, NEW A
  PROVE  Advance(B, post_pending(B), A)
<1> DEFINE C == GrantAll(B, Granted(B))
<1>1. Advance(B, C, A) /\ C \in GoodBlock
  BY GrantAllAdvance, AdvanceMore, GrantAllGood DEF Keeps
<1>2. Advance(C, AddFlags(C, JustGranted(C), {"just_granted"}), A)
  BY <1>1, AddFlagsOnly, FlagsOnlyAdvance DEF LrqFlag, GoodBlock
<1> QED BY <1>1, <1>2, AdvanceTwice, AdvanceIdle DEF post_pending

Precedes(q, x, y) == \E i, j \in DOMAIN q : i < j /\ q[i] = x /\ q[j] = y

\* Taking a request out of a queue leaves the others in their order.
LEMMA RemoveRequestOrder ==
  ASSUME NEW q \in Seq(Requests), NEW r \in Requests, \E i \in DOMAIN q : q[i] = r,
         NEW x, NEW y, x # r, y # r
  PROVE  Precedes(RemoveRequest(q, r), x, y) <=> Precedes(q, x, y)
<1>1. PICK n \in 1 .. Len(q) :
        /\ q[n] = r
        /\ RemoveRequest(q, r) = [i \in 1 .. (Len(q) - 1) |-> IF i < n THEN q[i] ELSE q[i + 1]]
  BY RemoveRequestIs
<1> DEFINE p == [i \in 1 .. (Len(q) - 1) |-> IF i < n THEN q[i] ELSE q[i + 1]]
<1>2. Len(q) \in Nat /\ DOMAIN q = 1 .. Len(q) /\ DOMAIN p = 1 .. (Len(q) - 1)
  OBVIOUS
<1>3. ASSUME Precedes(p, x, y) PROVE Precedes(q, x, y)
  <2>1. PICK i \in DOMAIN p, j \in DOMAIN p : i < j /\ p[i] = x /\ p[j] = y
    BY <1>3 DEF Precedes
  <2> DEFINE up(k) == IF k < n THEN k ELSE k + 1
  <2>2. up(i) \in DOMAIN q /\ up(j) \in DOMAIN q /\ up(i) < up(j)
    BY <1>2, <2>1
  <2>3. q[up(i)] = x /\ q[up(j)] = y
    BY <1>2, <2>1
  <2> QED BY <2>2, <2>3 DEF Precedes
<1>4. ASSUME Precedes(q, x, y) PROVE Precedes(p, x, y)
  <2>1. PICK i \in DOMAIN q, j \in DOMAIN q : i < j /\ q[i] = x /\ q[j] = y
    BY <1>4 DEF Precedes
  <2>2. i # n /\ j # n
    BY <1>1, <2>1
  <2> DEFINE down(k) == IF k < n THEN k ELSE k - 1
  <2>3. down(i) \in DOMAIN p /\ down(j) \in DOMAIN p /\ down(i) < down(j)
    BY <1>2, <2>1, <2>2
  <2>4. p[down(i)] = x /\ p[down(j)] = y
    BY <1>2, <2>1, <2>2, <2>3
  <2> HIDE DEF p, down
  <2> QED BY <2>3, <2>4 DEF Precedes
<1> QED BY <1>1, <1>3, <1>4

\* A request appended to a queue comes after all the others, which keep their order.
LEMMA AppendOrder ==
  ASSUME NEW q \in Seq(Requests), NEW r \in Requests
  PROVE  /\ \A x, y : x # r /\ y # r => (Precedes(Append(q, r), x, y) <=> Precedes(q, x, y))
         /\ r \notin {q[i] : i \in DOMAIN q} =>
              \A x : /\ x \in {q[i] : i \in DOMAIN q} => Precedes(Append(q, r), x, r)
                     /\ ~Precedes(Append(q, r), r, x)
<1> DEFINE p == Append(q, r)
           n == Len(q)
<1>1. /\ n \in Nat /\ DOMAIN q = 1 .. n /\ DOMAIN p = 1 .. (n + 1)
      /\ p[n + 1] = r /\ \A i \in 1 .. n : p[i] = q[i]
  OBVIOUS
<1> HIDE DEF p, n
<1>2. ASSUME NEW x, NEW y, x # r, y # r PROVE Precedes(p, x, y) <=> Precedes(q, x, y)
  <2>1. ASSUME NEW i \in DOMAIN p, NEW j \in DOMAIN p, i < j, p[i] = x, p[j] = y
        PROVE  i \in DOMAIN q /\ j \in DOMAIN q /\ q[i] = x /\ q[j] = y
    BY <1>1, <1>2, <2>1
  <2>2. ASSUME NEW i \in DOMAIN q, NEW j \in DOMAIN q, i < j, q[i] = x, q[j] = y
        PROVE  i \in DOMAIN p /\ j \in DOMAIN p /\ p[i] = x /\ p[j] = y
    BY <1>1, <2>2
  <2> QED BY <2>1, <2>2 DEF Precedes
<1>3. ASSUME r \notin {q[i] : i \in DOMAIN q}, NEW x
      PROVE  /\ x \in {q[i] : i \in DOMAIN q} => Precedes(p, x, r)
             /\ ~Precedes(p, r, x)
  <2>1. ASSUME NEW k \in DOMAIN q, q[k] = x PROVE Precedes(p, x, r)
    <3>1. k \in DOMAIN p /\ n + 1 \in DOMAIN p /\ k < n + 1 /\ p[k] = x
      BY <1>1, <2>1
    <3> QED BY <1>1, <3>1 DEF Precedes
  <2>2. ASSUME NEW i \in DOMAIN p, NEW j \in DOMAIN p, i < j, p[i] = r PROVE FALSE
    <3>1. i \in 1 .. n
      BY <1>1, <2>2
    <3> QED BY <1>1, <1>3, <2>2, <3>1
  <2> QED BY <2>1, <2>2 DEF Precedes
<1> QED BY <1>2, <1>3 DEF p

\* Before in a block is precedence in its queue.
LEMMA BeforePrecedes == ASSUME NEW B, NEW x, NEW y PROVE Before(B, x, y) <=> Precedes(B.lbl_requests, x, y)
BY DEF Before, Precedes

\* Request r stands at the end of the queue of block C.
LastIn(C, r) == /\ r \in Queued(C)
                /\ \A x \in Queued(C) \ {r} : Before(C, x, r)
                /\ \A x : ~Before(C, r, x)

\* release_request, before its post_pending, moves the released request only.
LEMMA UnlinkAdvance ==
  ASSUME NEW B \in GoodBlock, NEW r \in Queued(B)
  PROVE  Advance(B, unlink_request(B, r), {r})
<1> DEFINE C == unlink_request(B, r)
           q == RemoveRequest(B.lbl_requests, r)
<1>1. B \in Block /\ BlockInv(B) /\ r \in Requests /\ B.lbl_requests \in Seq(Requests)
  BY GoodBlockCounts DEF GoodBlock, Block
<1>2. \E i \in DOMAIN B.lbl_requests : B.lbl_requests[i] = r
  BY DEF Queued
<1>3. CASE q = << >>
  <2>1. C = FreeBlock
    BY <1>3 DEF unlink_request
  <2>2. Queued(C) = Queued(B) \ {r} /\ Queued(FreeBlock) = {}
    BY UnlinkRequestGood DEF Queued, FreeBlock
  <2>3. \A x \in Requests \ {r} : B.lrq_state[x] = LCK_none /\ ~IsPending(B, x)
    BY <1>1, <2>1, <2>2 DEF BlockInv, OnlyQueuedCount
  <2>4. \A x \in Requests : C.lrq_state[x] = LCK_none /\ ~IsPending(C, x)
    BY <2>1 DEF FreeBlock, IsPending
  <2>5. Queued(C) = {} /\ \A x \in Requests \ {r} : x \notin Queued(B)
    BY <2>1, <2>2
  <2> HIDE DEF C
  <2>6. Advance(B, C, {r})
    BY <2>3, <2>4, <2>5 DEF Advance, SameIn, NewWaiter
  <2> QED BY <2>6 DEF C
<1>4. CASE q # << >>
  <2>1. /\ C.lbl_requests = q
        /\ \A x \in Requests \ {r} : /\ C.lrq_state[x] = B.lrq_state[x]
                                     /\ C.lrq_flags[x] = B.lrq_flags[x]
                                     /\ C.lrq_requested[x] = B.lrq_requested[x]
    BY <1>1, <1>4 DEF unlink_request, Block
  <2>2. \A x, y \in Requests \ {r} : Before(C, x, y) <=> Before(B, x, y)
    BY <1>1, <1>2, <2>1, RemoveRequestOrder, BeforePrecedes
  <2>4. Queued(C) \ {r} = Queued(B) \ {r}
    BY UnlinkRequestGood
  <2> HIDE DEF C
  <2>3. Advance(B, C, {r})
    BY <2>1, <2>2, <2>4, OneMoves
  <2> QED BY <2>3 DEF C
<1> QED BY <1>3, <1>4

\* A block in which only the fields of one request differ.
LEMMA FieldsMove ==
  ASSUME NEW B, NEW C, NEW r,
         C.lbl_requests = B.lbl_requests,
         \A x \in Requests \ {r} :
           /\ C.lrq_state[x] = B.lrq_state[x]
           /\ C.lrq_flags[x] = B.lrq_flags[x]
           /\ C.lrq_requested[x] = B.lrq_requested[x]
  PROVE  Advance(B, C, {r})
<1>1. Queued(C) = Queued(B) /\ \A x, y : Before(C, x, y) <=> Before(B, x, y)
  BY DEF Queued, Before
<1> QED BY <1>1, OneMoves

\* enqueue puts the new request at the end of the queue, not rejected.
LEMMA InsertAdvance ==
  ASSUME NEW B \in GoodBlock, NEW r \in Requests \ Queued(B), NEW type \in Level
  PROVE  LET C == insert_request(B, r, type)
         IN  Advance(B, C, {r}) /\ LastIn(C, r) /\ ~Rejected(C, r)
<1> DEFINE C == insert_request(B, r, type)
<1>1. B \in Block /\ B.lbl_requests \in Seq(Requests)
  BY DEF GoodBlock, Block
<1>2. /\ C.lbl_requests = Append(B.lbl_requests, r)
      /\ \A x \in Requests \ {r} : /\ C.lrq_state[x] = B.lrq_state[x]
                                   /\ C.lrq_flags[x] = B.lrq_flags[x]
                                   /\ C.lrq_requested[x] = B.lrq_requested[x]
      /\ C.lrq_flags[r] = {}
  BY <1>1 DEF insert_request, Block
<1>3. Queued(C) = Queued(B) \cup {r}
  BY InsertRequestGood
<1> HIDE DEF C
<1>4. \A x, y \in Requests \ {r} : Before(C, x, y) <=> Before(B, x, y)
  <2>1. \A x, y \in Requests \ {r} :
          Precedes(Append(B.lbl_requests, r), x, y) <=> Precedes(B.lbl_requests, x, y)
    BY <1>1, AppendOrder
  <2> QED BY <1>2, <2>1, BeforePrecedes
<1>5. LastIn(C, r)
  <2>1. r \notin {B.lbl_requests[i] : i \in DOMAIN B.lbl_requests}
    BY DEF Queued
  <2>2. \A x : /\ x \in Queued(B) => Precedes(C.lbl_requests, x, r)
               /\ ~Precedes(C.lbl_requests, r, x)
    BY <1>1, <1>2, <2>1, AppendOrder DEF Queued
  <2> QED BY <1>3, <2>2, BeforePrecedes DEF LastIn
<1>6. Advance(B, C, {r})
  BY <1>2, <1>3, <1>4, OneMoves
<1> QED BY <1>2, <1>5, <1>6 DEF Rejected, C

\* grant gives one request the level it asked for.
LEMMA GrantAdvance ==
  ASSUME NEW B \in GoodBlock, NEW r \in Requests
  PROVE  LET C == grant(B, r)
         IN  Advance(B, C, {r}) /\ C.lrq_state[r] = B.lrq_requested[r]
             /\ C.lrq_flags = B.lrq_flags
<1> DEFINE C == grant(B, r)
<1>1. B \in Block
  BY DEF GoodBlock
<1>2. /\ C.lbl_requests = B.lbl_requests
      /\ C.lrq_flags = B.lrq_flags
      /\ C.lrq_state[r] = B.lrq_requested[r]
      /\ \A x \in Requests \ {r} : C.lrq_state[x] = B.lrq_state[x]
      /\ C.lrq_requested = B.lrq_requested
  BY <1>1 DEF grant, Block
<1> HIDE DEF C
<1>3. Advance(B, C, {r})
  BY <1>2, FieldsMove
<1> QED BY <1>2, <1>3 DEF C

\* A conversion granted at once gives one request the level it asked for.
LEMMA GrantConvertAdvance ==
  ASSUME NEW B \in GoodBlock, NEW r \in Requests
  PROVE  LET C == grant_convert(B, r)
         IN  Advance(B, C, {r}) /\ C.lrq_state[r] = B.lrq_requested[r]
             /\ C.lrq_flags = B.lrq_flags
<1> DEFINE C == grant_convert(B, r)
<1>1. B \in Block
  BY DEF GoodBlock
<1>2. /\ C.lbl_requests = B.lbl_requests
      /\ C.lrq_flags = B.lrq_flags
      /\ C.lrq_state[r] = B.lrq_requested[r]
      /\ \A x \in Requests \ {r} : C.lrq_state[x] = B.lrq_state[x]
      /\ C.lrq_requested = B.lrq_requested
  BY <1>1 DEF grant_convert, grant, Block
<1> HIDE DEF C
<1>3. Advance(B, C, {r})
  BY <1>2, FieldsMove
<1> QED BY <1>2, <1>3 DEF C

\* The first half of internal_convert changes what one request asks for.
LEMMA BeginConvertAdvance ==
  ASSUME NEW B \in GoodBlock, NEW r \in Requests, NEW type
  PROVE  LET C == begin_convert(B, r, type)
         IN  /\ Advance(B, C, {r}) /\ C.lrq_state = B.lrq_state
             /\ C.lrq_requested[r] = type
             /\ IsPending(C, r) <=> IsPending(B, r)
<1> DEFINE C == begin_convert(B, r, type)
<1>1. B \in Block
  BY DEF GoodBlock
<1>2. /\ C.lbl_requests = B.lbl_requests
      /\ C.lrq_requested[r] = type
      /\ \A x \in Requests \ {r} : C.lrq_flags[x] = B.lrq_flags[x]
                                   /\ C.lrq_requested[x] = B.lrq_requested[x]
      /\ C.lrq_flags[r] = B.lrq_flags[r] \ {"blocking_seen"}
      /\ C.lrq_state = B.lrq_state
  BY <1>1 DEF begin_convert, ClearFlags, Block
<1> HIDE DEF C
<1>3. Advance(B, C, {r})
  BY <1>2, FieldsMove
<1> QED BY <1>2, <1>3 DEF C, IsPending

\* A rejected request keeps the level it has and no longer waits.
LEMMA RejectAdvance ==
  ASSUME NEW B \in GoodBlock, NEW r \in Requests
  PROVE  LET C == reject(B, r)
         IN  /\ Advance(B, C, {r}) /\ C.lrq_state = B.lrq_state
             /\ ~IsPending(C, r) /\ Rejected(C, r)
<1> DEFINE C == reject(B, r)
<1>1. B \in Block
  BY DEF GoodBlock
<1>2. /\ C.lbl_requests = B.lbl_requests
      /\ C.lrq_requested = B.lrq_requested
      /\ \A x \in Requests \ {r} : C.lrq_flags[x] = B.lrq_flags[x]
      /\ C.lrq_flags[r] = (B.lrq_flags[r] \ {"pending"}) \cup {"rejected"}
      /\ C.lrq_state = B.lrq_state
  BY <1>1 DEF reject, Block
<1> HIDE DEF C
<1>3. Advance(B, C, {r})
  BY <1>2, FieldsMove
<1> QED BY <1>2, <1>3 DEF C, IsPending, Rejected

\* A conversion given up leaves the level held.
LEMMA EndConvertAdvance ==
  ASSUME NEW B \in GoodBlock, NEW r \in Requests
  PROVE  LET C == end_convert(B, r)
         IN  /\ Advance(B, C, {r}) /\ C.lrq_state = B.lrq_state /\ C.lrq_flags = B.lrq_flags
<1> DEFINE C == end_convert(B, r)
<1>1. B \in Block
  BY DEF GoodBlock
<1>2. /\ C.lbl_requests = B.lbl_requests
      /\ \A x \in Requests \ {r} : C.lrq_requested[x] = B.lrq_requested[x]
      /\ C.lrq_flags = B.lrq_flags
      /\ C.lrq_state = B.lrq_state
  BY <1>1 DEF end_convert, Block
<1> HIDE DEF C
<1>3. Advance(B, C, {r})
  BY <1>2, FieldsMove
<1> QED BY <1>2, <1>3 DEF C

\* wait_for_request makes one request wait; if it holds nothing it goes to the end of
\* the line.
LEMMA BeginWaitAdvance ==
  ASSUME NEW B \in GoodBlock, NEW r \in Queued(B), NEW timed \in BOOLEAN
  PROVE  LET C == begin_wait(B, r, timed)
         IN  /\ Advance(B, C, {r})
             /\ C.lrq_state = B.lrq_state /\ C.lrq_requested = B.lrq_requested
             /\ IsPending(C, r) /\ ~Rejected(C, r)
             /\ B.lrq_state[r] = LCK_none => LastIn(C, r)
<1> DEFINE C == begin_wait(B, r, timed)
           q == B.lbl_requests
           p == RemoveRequest(q, r)
<1>1. B \in Block /\ q \in Seq(Requests) /\ r \in Requests /\ NoDuplicates(B)
  BY GoodBlockCounts DEF GoodBlock, Block, BlockInv
<1>2. /\ C.lbl_requests = IF B.lrq_state[r] = LCK_none THEN Append(p, r) ELSE q
      /\ C.lrq_requested = B.lrq_requested
      /\ \A x \in Requests \ {r} : C.lrq_flags[x] = B.lrq_flags[x]
      /\ C.lrq_flags[r] = (B.lrq_flags[r] \ {"rejected"}) \cup {"pending"}
                            \cup (IF timed THEN {"wait_timeout"} ELSE {})
      /\ C.lrq_state = B.lrq_state
  BY <1>1 DEF begin_wait, Block
<1>3. \E i \in DOMAIN q : q[i] = r
  BY DEF Queued
<1>4. p \in Seq(Requests) /\ {p[i] : i \in DOMAIN p} = Queued(B) \ {r}
  BY <1>1, <1>3, RemoveRequestProperties DEF NoDuplicates, Queued
<1> HIDE DEF C, p
<1>5. CASE B.lrq_state[r] # LCK_none
  BY <1>2, <1>5, FieldsMove DEF C, IsPending, Rejected
<1>6. CASE B.lrq_state[r] = LCK_none
  <2>1. Queued(C) = Queued(B)
    <3>1. {Append(p, r)[i] : i \in DOMAIN Append(p, r)} = {p[i] : i \in DOMAIN p} \cup {r}
      BY <1>1, <1>4, AppendRequestProperties
    <3>2. Queued(C) = {Append(p, r)[i] : i \in DOMAIN Append(p, r)}
      BY <1>2, <1>6 DEF Queued
    <3> QED BY <1>4, <3>1, <3>2
  <2>2. \A x, y \in Requests \ {r} : Before(C, x, y) <=> Before(B, x, y)
    <3>1. \A x, y \in Requests \ {r} : Precedes(Append(p, r), x, y) <=> Precedes(p, x, y)
      BY <1>1, <1>4, AppendOrder
    <3>2. \A x, y \in Requests \ {r} : Precedes(p, x, y) <=> Precedes(q, x, y)
      BY <1>1, <1>3, RemoveRequestOrder DEF p
    <3> QED BY <1>2, <1>6, <3>1, <3>2, BeforePrecedes
  <2>3. LastIn(C, r)
    <3>1. \A x : /\ x \in Queued(B) \ {r} => Precedes(Append(p, r), x, r)
                 /\ ~Precedes(Append(p, r), r, x)
      <4>1. r \notin {p[i] : i \in DOMAIN p}
        BY <1>4
      <4> QED BY <1>1, <1>4, <4>1, AppendOrder
    <3> QED BY <1>2, <1>6, <2>1, <3>1, BeforePrecedes DEF LastIn
  <2>4. Advance(B, C, {r})
    BY <1>2, <2>1, <2>2, OneMoves
  <2> QED BY <1>2, <2>3, <2>4 DEF C, IsPending, Rejected
<1> QED BY <1>5, <1>6

TableAdvance(T, U, A) == \A l \in Locks : Advance(T.lbl[l], U.lbl[l], A)

SameOwners(T, U) == U.lhb_owners = T.lhb_owners /\ U.own_count = T.own_count

\* Threads enter and leave the lock table for the requests in A only.
SamePlaces(T, U, A) ==
  \A x \in Requests \ A : U.pc[x] = T.pc[x] \/ {U.pc[x], T.pc[x]} \subseteq {"wait", "post"}

TableFlags(T, U) == \A l \in Locks : FlagsOnly(T.lbl[l], U.lbl[l])

\* Two changes of the lock table on behalf of the same requests.
LEMMA TableAdvanceTwice ==
  ASSUME NEW T, NEW U, NEW V, NEW A, TableAdvance(T, U, A), TableAdvance(U, V, A)
  PROVE  TableAdvance(T, V, A)
BY AdvanceTwice DEF TableAdvance

\* A lock table that does not change.
LEMMA TableAdvanceSame ==
  ASSUME NEW T, NEW U, NEW A, U.lbl = T.lbl
  PROVE  TableAdvance(T, U, A) /\ TableFlags(T, U)
BY AdvanceIdle DEF TableAdvance, TableFlags, FlagsOnly

\* A change of flags alone is allowed on anybody's behalf.
LEMMA TableFlagsAdvance ==
  ASSUME NEW T, NEW U, NEW A, TableFlags(T, U)
  PROVE  TableAdvance(T, U, A)
BY FlagsOnlyAdvance DEF TableAdvance, TableFlags

\* Two changes of flags alone.
LEMMA TableFlagsTwice ==
  ASSUME NEW T, NEW U, NEW V, TableFlags(T, U), TableFlags(U, V)
  PROVE  TableFlags(T, V)
BY DEF TableFlags, FlagsOnly

\* What does not depend on the table being good.
LEMMA WithBlockIs ==
  ASSUME NEW T \in Table, NEW r \in Requests, NEW C
  PROVE  LET U == WithBlock(T, r, C)
         IN  /\ U.lbl = [T.lbl EXCEPT ![lrq_lock[r]] = C]
             /\ BlockOf(U, r) = C
             /\ U.pc = T.pc /\ U.dead = T.dead /\ SameOwners(T, U)
             /\ U.own_blocks = T.own_blocks /\ U.own_flags = T.own_flags
             /\ U.ast = T.ast /\ U.sig = T.sig /\ U.prc_blocking = T.prc_blocking
             /\ C \in Block => U \in Table
BY OwnerOfRequest DEF WithBlock, BlockOf, SameOwners, Table

\* One lock advances, and so does the table.
LEMMA WithBlockAdvance ==
  ASSUME NEW T \in Table, NEW r \in Requests, NEW C, NEW A, Advance(BlockOf(T, r), C, A)
  PROVE  TableAdvance(T, WithBlock(T, r, C), A)
<1> DEFINE U == WithBlock(T, r, C)
<1>1. U.lbl = [T.lbl EXCEPT ![lrq_lock[r]] = C] /\ DOMAIN T.lbl = Locks
  BY ZenonT(60), WithBlockIs DEF Table
<1> HIDE DEF U
<1>2. \A l \in Locks : Advance(T.lbl[l], U.lbl[l], A)
  BY <1>1, AdvanceIdle DEF BlockOf
<1> QED BY <1>2 DEF TableAdvance, U

\* The flags of one lock change, and nothing else in the table.
LEMMA WithBlockFlags ==
  ASSUME NEW T \in Table, NEW r \in Requests, NEW C, FlagsOnly(BlockOf(T, r), C)
  PROVE  TableFlags(T, WithBlock(T, r, C))
<1> DEFINE U == WithBlock(T, r, C)
<1>1. U.lbl = [T.lbl EXCEPT ![lrq_lock[r]] = C] /\ DOMAIN T.lbl = Locks
  BY ZenonT(60), WithBlockIs DEF Table
<1> HIDE DEF U
<1>2. \A l \in Locks : FlagsOnly(T.lbl[l], U.lbl[l])
  BY <1>1 DEF BlockOf, FlagsOnly
<1> QED BY <1>2 DEF TableFlags, U

\* post_wakeup touches neither locks nor threads nor owners' use counts.
LEMMA PostWakeupIs ==
  ASSUME NEW T \in Table, NEW S
  PROVE  LET U == post_wakeup(T, S)
         IN  /\ U \in Table /\ U.lbl = T.lbl /\ U.pc = T.pc /\ U.dead = T.dead
             /\ SameOwners(T, U)
             /\ U.own_blocks = T.own_blocks /\ U.ast = T.ast /\ U.sig = T.sig
<1> DEFINE U == post_wakeup(T, S)
<1>1. U \in Table /\ U.pc = T.pc /\ U.lbl = T.lbl /\ U.dead = T.dead
  BY PostWakeupGood
<1>2. SameOwners(T, U) /\ U.own_blocks = T.own_blocks /\ U.ast = T.ast /\ U.sig = T.sig
  BY DEF post_wakeup, Table, SameOwners
<1> QED BY <1>1, <1>2

\* post_pending at the end of a routine, in the table.
LEMMA PostPendingTable ==
  ASSUME NEW T \in Table, NEW r \in Requests, NEW B \in GoodBlock, NEW A,
         Advance(BlockOf(T, r), B, A)
  PROVE  LET U == PostPending(T, r, B)
         IN  /\ TableAdvance(T, U, A) /\ U.pc = T.pc /\ SameOwners(T, U)
             /\ BlockOf(U, r) = post_pending(B) /\ U.dead = T.dead
<1> DEFINE C == post_pending(B)
           V == WithBlock(T, r, C)
           U == post_wakeup(V, PostPendingWakes(B))
<1>1. C \in Block /\ Advance(BlockOf(T, r), C, A)
  BY PostPendingGood, PostPendingAdvance, AdvanceTwice DEF Keeps, GoodBlock
<1> HIDE DEF C
<1>2. /\ V \in Table /\ V.pc = T.pc /\ SameOwners(T, V) /\ BlockOf(V, r) = C /\ V.dead = T.dead
      /\ TableAdvance(T, V, A)
  BY ZenonT(60), <1>1, WithBlockIs, WithBlockAdvance
<1> HIDE DEF V
<1>3. /\ U.lbl = V.lbl /\ U.pc = V.pc /\ U.dead = V.dead /\ SameOwners(V, U)
  BY <1>2, PostWakeupIs
<1> HIDE DEF U
<1>4. BlockOf(U, r) = C /\ SameOwners(T, U) /\ TableAdvance(V, U, A)
  BY <1>2, <1>3, TableAdvanceSame DEF BlockOf, SameOwners
<1>5. PostPending(T, r, B) = U
  BY DEF PostPending, U, V, C
<1> QED BY <1>2, <1>3, <1>4, <1>5, TableAdvanceTwice DEF C

\* The end of a granted enqueue or conversion, in the table.
LEMMA GrantAndPostTable ==
  ASSUME NEW T \in Table, NEW r \in Requests, NEW B \in GoodBlock, NEW A,
         Advance(BlockOf(T, r), B, A)
  PROVE  LET U == GrantAndPost(T, r, B)
         IN  /\ TableAdvance(T, U, A) /\ U.pc = T.pc /\ SameOwners(T, U)
             /\ BlockOf(U, r) = post_pending(B)
<1> DEFINE V == post_wakeup(T, {r})
           U == PostPending(V, r, B)
<1>1. V \in Table /\ V.lbl = T.lbl /\ V.pc = T.pc /\ SameOwners(T, V)
  BY PostWakeupIs
<1> HIDE DEF V
<1>2. Advance(BlockOf(V, r), B, A)
  BY <1>1 DEF BlockOf
<1>3. /\ TableAdvance(V, U, A) /\ U.pc = V.pc /\ SameOwners(V, U) /\ BlockOf(U, r) = post_pending(B)
  BY <1>1, <1>2, PostPendingTable
<1> HIDE DEF U
<1>4. TableAdvance(T, U, A) /\ SameOwners(T, U)
  BY <1>1, <1>3, TableAdvanceSame, TableAdvanceTwice DEF SameOwners
<1> QED BY <1>1, <1>3, <1>4 DEF GrantAndPost, U, V

\* A thread moves, and nothing else does.
LEMMA AtIs ==
  ASSUME NEW T \in Table, NEW r \in Requests, NEW where \in Place
  PROVE  LET U == At(T, r, where)
         IN  /\ U \in Table /\ U.lbl = T.lbl /\ U.dead = T.dead /\ SameOwners(T, U)
             /\ U.pc = [T.pc EXCEPT ![r] = where]
             /\ U.own_blocks = T.own_blocks /\ U.ast = T.ast /\ U.sig = T.sig
BY DEF At, Table, SameOwners

\* release_request moves its request alone, and serves waiters in their order.
LEMMA ReleaseRequestTable ==
  ASSUME NEW T \in GoodTable, NEW r \in Requests, T.pc[r] # "free"
  PROVE  LET U == ReleaseRequest(T, r)
         IN  /\ U \in GoodTable /\ U.pc = [T.pc EXCEPT ![r] = "free"]
             /\ TableAdvance(T, U, {r}) /\ SameOwners(T, U)
<1> DEFINE o == lrq_owner[r]
           q == T.own_blocks[o]
           e == EntriesAt(q, {i \in DOMAIN q : q[i] # r})
           x == [T.own_blocks EXCEPT ![o] = e]
           T1 == [At(T, r, "free") EXCEPT !.own_blocks = x]
           B == unlink_request(BlockOf(T, r), r)
<1>1. T \in Table /\ o \in Owners
  BY OwnerOfRequest DEF GoodTable
<1>2. ReleaseRequest(T, r) = PostPending(T1, r, B)
  BY <1>1, AtIs DEF ReleaseRequest, Place
<1>3. q \in Seq(Requests \cup {Repost})
  BY <1>1 DEF Table
<1>4. e \in Seq(Requests \cup {Repost})
  <2> HIDE DEF q
  <2> QED BY <1>3, EntriesAtType
<1> HIDE DEF e
<1>5. x \in [Owners -> Seq(Requests \cup {Repost})]
  BY <1>1, <1>4 DEF Table
<1> HIDE DEF x
<1>6. T1 \in Table /\ T1.lbl = T.lbl /\ SameOwners(T, T1)
  BY <1>1, <1>5 DEF At, Table, SameOwners, Place
<1> HIDE DEF T1
<1>7. r \in Queued(BlockOf(T, r)) /\ BlockOf(T, r) \in GoodBlock /\ BlockOf(T1, r) = BlockOf(T, r)
  BY <1>6, BlockOfGood DEF BlockOf
<1>8. B \in GoodBlock /\ Advance(BlockOf(T1, r), B, {r})
  BY <1>7, UnlinkRequestGood, UnlinkAdvance
<1> HIDE DEF B
<1>9. LET U == PostPending(T1, r, B) IN TableAdvance(T1, U, {r}) /\ SameOwners(T1, U)
  BY <1>6, <1>8, PostPendingTable
<1>10. LET U == PostPending(T1, r, B) IN TableAdvance(T, U, {r}) /\ SameOwners(T, U)
  BY <1>6, <1>9, TableAdvanceSame, TableAdvanceTwice DEF SameOwners
<1> QED BY <1>2, <1>10, ReleaseRequestTableGood

---------------------------------------------------------------------------

\* blocking_action changes nothing the service sees.
LEMMA BlockingActionFlags ==
  ASSUME NEW T \in GoodTable, NEW t \in Threads, NEW o \in Owners
  PROVE  LET U == blocking_action(T, t, o)
         IN  TableFlags(T, U) /\ SameOwners(T, U) /\ U.pc = T.pc
<1> DEFINE U == blocking_action(T, t, o)
           q == T.own_blocks[o]
           b == Head(q)
           x == [T.own_blocks EXCEPT ![o] = Tail(q)]
           a(v) == [T.ast EXCEPT ![t] = v]
           T1 == [T EXCEPT !.own_blocks = x, !.ast = a(o)]
<1>1. T \in Table /\ U.pc = T.pc
  BY BlockingActionGood DEF GoodTable
<1>2. q \in Seq(Requests \cup {Repost})
  BY <1>1 DEF Table
<1>3. CASE T.own_count[o] > 0 /\ q # << >>
  <2>1. b \in Requests \cup {Repost} /\ Tail(q) \in Seq(Requests \cup {Repost})
    <3> HIDE DEF q
    <3> QED BY <1>2, <1>3
  <2>2. x \in [Owners -> Seq(Requests \cup {Repost})] /\ a(o) \in [Threads -> Owners \cup {NoOwner}]
    BY <1>1, <2>1 DEF Table
  <2>3. U = IF b = Repost THEN T1 ELSE WithBlock(T1, b, mark_seen(BlockOf(T, b), b))
    BY <1>1, <1>3 DEF blocking_action, Table
  <2> HIDE DEF x, a, b
  <2>4. T1 \in Table /\ T1.lbl = T.lbl /\ SameOwners(T, T1)
    BY <1>1, <2>2 DEF Table, SameOwners
  <2> HIDE DEF T1, U
  <2>5. CASE b = Repost
    BY <2>3, <2>4, <2>5, TableAdvanceSame, <1>1 DEF U
  <2>6. CASE b # Repost
    <3>1. b \in Requests /\ BlockOf(T1, b) = BlockOf(T, b) /\ BlockOf(T, b) \in GoodBlock
      BY <2>1, <2>4, <2>6, BlockOfGood DEF BlockOf
    <3> DEFINE C == mark_seen(BlockOf(T, b), b)
    <3>2. FlagsOnly(BlockOf(T1, b), C)
      BY <3>1, MarkSeenOnly
    <3> HIDE DEF C
    <3>3. TableFlags(T1, WithBlock(T1, b, C)) /\ SameOwners(T1, WithBlock(T1, b, C))
      BY <2>4, <3>1, <3>2, WithBlockFlags, WithBlockIs
    <3>4. U = WithBlock(T1, b, C)
      BY <2>3, <2>6 DEF C
    <3>5. TableFlags(T, T1)
      BY <2>4, TableAdvanceSame
    <3>6. TableFlags(T, U) /\ SameOwners(T, U)
      BY <2>4, <3>3, <3>4, <3>5, TableFlagsTwice DEF SameOwners
    <3> QED BY <1>1, <3>6 DEF U
  <2> QED BY <2>5, <2>6
<1>4. CASE ~(T.own_count[o] > 0 /\ q # << >>)
  <2>1. U.lbl = T.lbl /\ SameOwners(T, U)
    BY <1>1, <1>4 DEF blocking_action, DropFlags, Table, SameOwners
  <2> HIDE DEF U
  <2> QED BY <1>1, <2>1, TableAdvanceSame DEF U
<1> QED BY <1>3, <1>4

\* The second loop of post_blockage changes nothing the service sees.
LEMMA SignalOwnersFlags ==
  ASSUME NEW T \in GoodTable, NEW r \in Requests, NEW q \in Seq(Owners),
         T.pc[r] \in {"wait", "post"}
  PROVE  LET U == signal_owners(T, r, q)
         IN  /\ TableFlags(T, U) /\ SameOwners(T, U)
             /\ \E where \in {"wait", "post"} : U.pc = [T.pc EXCEPT ![r] = where]
<1>1. T \in Table /\ r \in Threads
  BY DEF GoodTable, Threads
<1>2. PICK V \in Table, where \in {"wait", "post"} :
        /\ V.pc = [T.pc EXCEPT ![r] = where]
        /\ V.lbl = T.lbl /\ V.dead = T.dead /\ V.lhb_owners = T.lhb_owners
        /\ V.own_count = T.own_count
        /\ \/ signal_owners(T, r, q) = V
           \/ \E o \in Owners : signal_owners(T, r, q) = blocking_action(V, r, o)
  BY <1>1, SignalOwnersIs
<1>3. BlockOf(T, r) \in GoodBlock /\ r \in Queued(BlockOf(T, r))
  BY BlockOfGood
<1>4. V.lbl = [T.lbl EXCEPT ![lrq_lock[r]] = BlockOf(T, r)]
  BY <1>1, <1>2, OwnerOfRequest DEF BlockOf, Table
<1>5. V \in GoodTable
  BY ZenonT(60), <1>2, <1>3, <1>4, MoveGood DEF Place
<1>6. TableFlags(T, V) /\ SameOwners(T, V)
  BY <1>2, TableAdvanceSame DEF SameOwners
<1>7. CASE signal_owners(T, r, q) = V
  BY <1>2, <1>6, <1>7
<1>8. CASE \E o \in Owners : signal_owners(T, r, q) = blocking_action(V, r, o)
  <2>1. PICK o \in Owners : signal_owners(T, r, q) = blocking_action(V, r, o)
    BY <1>8
  <2>2. LET U == blocking_action(V, r, o) IN TableFlags(V, U) /\ SameOwners(V, U) /\ U.pc = V.pc
    BY <1>1, <1>5, BlockingActionFlags
  <2>3. LET U == blocking_action(V, r, o) IN TableFlags(T, U) /\ SameOwners(T, U)
    BY <1>6, <2>2, TableFlagsTwice DEF SameOwners
  <2> QED BY <1>2, <2>1, <2>2, <2>3
<1> QED BY <1>2, <1>7, <1>8

\* post_blockage changes nothing the service sees.
LEMMA PostBlockageFlags ==
  ASSUME NEW T \in GoodTable, NEW r \in Requests, T.pc[r] \in {"wait", "post"}
  PROVE  LET U == post_blockage(T, r)
         IN  /\ TableFlags(T, U) /\ SameOwners(T, U)
             /\ \E where \in {"wait", "post"} : U.pc = [T.pc EXCEPT ![r] = where]
<1>1. PICK V \in GoodTable, S \in SUBSET Requests, q \in Seq(Owners) :
        /\ post_blockage(T, r) = signal_owners(V, r, q)
        /\ V.lbl = WithBlock(T, r, mark_blocking(BlockOf(T, r), S)).lbl
        /\ V.pc = T.pc /\ V.lhb_owners = T.lhb_owners /\ V.own_count = T.own_count
  BY PostBlockageIs
<1>2. T \in Table /\ BlockOf(T, r) \in GoodBlock
  BY BlockOfGood DEF GoodTable
<1>3. FlagsOnly(BlockOf(T, r), mark_blocking(BlockOf(T, r), S))
  BY <1>2, MarkBlockingOnly
<1>4. TableFlags(T, WithBlock(T, r, mark_blocking(BlockOf(T, r), S)))
  BY <1>2, <1>3, WithBlockFlags
<1>5. TableFlags(T, V) /\ SameOwners(T, V)
  BY <1>1, <1>4 DEF TableFlags, SameOwners
<1>6. LET U == signal_owners(V, r, q)
      IN  /\ TableFlags(V, U) /\ SameOwners(V, U)
          /\ \E where \in {"wait", "post"} : U.pc = [V.pc EXCEPT ![r] = where]
  BY <1>1, SignalOwnersFlags
<1> QED BY <1>1, <1>5, <1>6, TableFlagsTwice DEF SameOwners

\* A blocking thread changes nothing the service sees.
LEMMA BlockingThreadFlags ==
  ASSUME NEW T \in GoodTable, NEW p \in Processes, NEW U \in blocking_action_thread(T, p)
  PROVE  TableFlags(T, U) /\ SameOwners(T, U) /\ U.pc = T.pc
<1>1. PICK V \in GoodTable :
        /\ V.lbl = T.lbl /\ V.pc = T.pc /\ V.lhb_owners = T.lhb_owners /\ V.own_count = T.own_count
        /\ \/ U = V
           \/ \E o \in Owners : U = blocking_action(V, p, o)
  BY BlockingThreadIs
<1>2. TableFlags(T, V) /\ SameOwners(T, V)
  BY <1>1, TableAdvanceSame DEF SameOwners
<1>3. ASSUME NEW o \in Owners, U = blocking_action(V, p, o)
      PROVE  TableFlags(T, U) /\ SameOwners(T, U) /\ U.pc = T.pc
  <2>1. p \in Threads
    BY DEF Threads
  <2>2. TableFlags(V, U) /\ SameOwners(V, U) /\ U.pc = V.pc
    BY <1>3, <2>1, BlockingActionFlags
  <2> QED BY <1>1, <1>2, <2>2, TableFlagsTwice DEF SameOwners
<1> QED BY <1>1, <1>2, <1>3

DeadRequests(T) == {x \in Requests : own_process[lrq_owner[x]] \in T.dead}

\* A request in use belongs to an owner in the lock table that is in use itself.
Registered(T) ==
  \A x \in Requests :
    T.pc[x] # "free" => lrq_owner[x] \in T.lhb_owners /\ T.own_count[lrq_owner[x]] > 0

\* What probe_processes does, field by field: per lock at most one request of a dead
\* process is released.
LEMMA ProbeProcessesIs ==
  ASSUME NEW T \in GoodTable, T.dead # {}
  PROVE  LET U == probe_processes(T)
             gone == {o \in T.lhb_owners : own_process[o] \in T.dead}
             theirs(l) == {r \in Queued(T.lbl[l]) : lrq_owner[r] \in gone}
         IN  /\ U.lhb_owners = T.lhb_owners \ gone
             /\ U.own_count = T.own_count
             /\ U.dead = {}
             /\ \A x \in Requests : U.pc[x] = IF lrq_owner[x] \in gone THEN "free" ELSE T.pc[x]
             /\ \A l \in Locks : \/ U.lbl[l] = T.lbl[l]
                                 \/ \E r \in theirs(l) : U.lbl[l] = release_request(T.lbl[l], r)
<1> DEFINE gone == {o \in T.lhb_owners : own_process[o] \in T.dead}
           theirs(l) == {r \in Queued(T.lbl[l]) : lrq_owner[r] \in gone}
           lost(l) == CHOOSE r \in theirs(l) : TRUE
           wakes == UNION {IF theirs(l) = {} THEN {}
                           ELSE PostPendingWakes(unlink_request(T.lbl[l], lost(l))) : l \in Locks}
           T1 == post_wakeup(T, wakes)
           Reset(f, S, v) == [x \in DOMAIN f |-> IF x \in S THEN v ELSE f[x]]
           requests == {r \in Requests : lrq_owner[r] \in gone}
           threads == {t \in Threads : ProcessOf(t) \in T.dead}
           b == [l \in Locks |-> IF theirs(l) = {} THEN T.lbl[l]
                                 ELSE release_request(T.lbl[l], lost(l))]
           place == Reset(T1.pc, requests, "free")
           U == [T1 EXCEPT
                   !.lbl = b,
                   !.lhb_owners = T1.lhb_owners \ gone,
                   !.own_flags = Reset(T1.own_flags, gone, {}),
                   !.own_blocks = Reset(T1.own_blocks, gone, << >>),
                   !.prc_blocking = Reset(T1.prc_blocking, T.dead, FALSE),
                   !.pc = place,
                   !.sig = Reset(T1.sig, requests, << >>),
                   !.ast = Reset(T1.ast, threads, NoOwner),
                   !.dead = {}]
<1>1. probe_processes(T) = U
  BY DEF probe_processes
<1>2. T \in Table
  BY DEF GoodTable
<1>3. T1 \in Table /\ T1.pc = T.pc /\ SameOwners(T, T1)
  BY <1>2, PostWakeupIs
<1> HIDE DEF T1
<1>4. ASSUME NEW l \in Locks
      PROVE  b[l] = T.lbl[l] \/ \E r \in theirs(l) : b[l] = release_request(T.lbl[l], r)
  <2>1. theirs(l) # {} => lost(l) \in theirs(l)
    OBVIOUS
  <2> HIDE DEF lost
  <2> QED BY <2>1
<1>5. \A x \in Requests : place[x] = IF lrq_owner[x] \in gone THEN "free" ELSE T.pc[x]
  BY <1>2, <1>3 DEF Table
<1> HIDE DEF b, place
<1>6. /\ U.lbl = b /\ U.pc = place /\ U.dead = {} /\ U.lhb_owners = T1.lhb_owners \ gone
      /\ U.own_count = T1.own_count
  <2> HIDE DEF Reset, gone, requests, threads
  <2> QED BY <1>3 DEF Table
<1> HIDE DEF U
<1> QED BY <1>1, <1>3, <1>4, <1>5, <1>6 DEF SameOwners

\* probe_processes frees the requests of dead processes, all of them, and serves
\* waiters in their order; it leaves a registered table behind.
LEMMA ProbeProcessesAdvance ==
  ASSUME NEW T \in GoodTable, Registered(T)
  PROVE  LET U == probe_processes(T)
         IN  /\ U \in GoodTable /\ Registered(U)
             /\ TableAdvance(T, U, DeadRequests(T))
             /\ \A x \in Requests :
                  U.pc[x] = IF x \in DeadRequests(T) THEN "free" ELSE T.pc[x]
             /\ U.own_count = T.own_count
             /\ U.lhb_owners = T.lhb_owners \ {o \in T.lhb_owners : own_process[o] \in T.dead}
             /\ U.dead = {}
<1> DEFINE U == probe_processes(T)
<1>1. U \in GoodTable
  BY ProbeProcessesGood
<1>2. CASE T.dead = {}
  <2>1. U = T
    BY <1>2 DEF probe_processes
  <2> QED BY <1>1, <1>2, <2>1, TableAdvanceSame DEF DeadRequests
<1>3. CASE T.dead # {}
  <2> DEFINE gone == {o \in T.lhb_owners : own_process[o] \in T.dead}
             theirs(l) == {r \in Queued(T.lbl[l]) : lrq_owner[r] \in gone}
  <2>1. /\ U.lhb_owners = T.lhb_owners \ gone
        /\ U.own_count = T.own_count
        /\ U.dead = {}
        /\ \A x \in Requests : U.pc[x] = IF lrq_owner[x] \in gone THEN "free" ELSE T.pc[x]
        /\ \A l \in Locks : \/ U.lbl[l] = T.lbl[l]
                            \/ \E r \in theirs(l) : U.lbl[l] = release_request(T.lbl[l], r)
    BY <1>3, ProbeProcessesIs
  <2> HIDE DEF U
  <2>2. ASSUME NEW x \in Requests
        PROVE  U.pc[x] = IF x \in DeadRequests(T) THEN "free" ELSE T.pc[x]
    BY <2>1 DEF DeadRequests, Registered
  <2>3. ASSUME NEW l \in Locks PROVE Advance(T.lbl[l], U.lbl[l], DeadRequests(T))
    <3>1. CASE U.lbl[l] = T.lbl[l]
      BY <3>1, AdvanceIdle
    <3>2. ASSUME NEW r \in theirs(l), U.lbl[l] = release_request(T.lbl[l], r)
          PROVE  Advance(T.lbl[l], U.lbl[l], DeadRequests(T))
      <4> DEFINE B == T.lbl[l]
                 C == unlink_request(B, r)
      <4>1. B \in GoodBlock /\ r \in Queued(B) /\ r \in DeadRequests(T)
        BY GoodBlockCounts DEF GoodTable, DeadRequests
      <4>2. Advance(B, C, {r}) /\ C \in GoodBlock
        BY <4>1, UnlinkAdvance, UnlinkRequestGood
      <4>3. Advance(B, C, DeadRequests(T))
        BY <4>1, <4>2, AdvanceMore
      <4>4. Advance(C, post_pending(C), DeadRequests(T))
        BY <4>2, PostPendingAdvance
      <4> QED BY <3>2, <4>3, <4>4, AdvanceTwice DEF release_request
    <3> QED BY <2>1, <3>1, <3>2
  <2>4. Registered(U)
    BY <2>1 DEF Registered
  <2> QED BY <1>1, <2>1, <2>2, <2>3, <2>4 DEF TableAdvance, U
<1> QED BY <1>2, <1>3

\* A thread begins to wait: only its own request moves, to the end of the line if it
\* holds nothing.
LEMMA BeginWaitTable ==
  ASSUME NEW T \in GoodTable, NEW r \in Requests, T.pc[r] = "idle",
         NEW B, Keeps(BlockOf(T, r), B), Advance(BlockOf(T, r), B, {r}), NEW timed \in BOOLEAN
  PROVE  LET U == begin_wait_for_request(T, r, B, timed)
             C == BlockOf(U, r)
         IN  /\ U \in GoodTable /\ TableAdvance(T, U, {r}) /\ SameOwners(T, U)
             /\ SamePlaces(T, U, {r}) /\ U.pc[r] \in {"wait", "post"}
             /\ C.lrq_state = B.lrq_state /\ C.lrq_requested = B.lrq_requested
             /\ IsPending(C, r) /\ ~Rejected(C, r)
             /\ \A x \in Requests \ {r} : IsPending(B, x) => IsPending(C, x)
             /\ B.lrq_state[r] = LCK_none => LastIn(C, r)
<1> DEFINE D == begin_wait(B, r, timed)
           V == At(WithBlock(T, r, D), r, "wait")
           W == DropFlags(V, lrq_owner[r], {"scanned", "wakeup"})
           U == begin_wait_for_request(T, r, B, timed)
           C == BlockOf(U, r)
<1>1. /\ T \in Table /\ B \in GoodBlock /\ BlockOf(T, r) \in GoodBlock
      /\ r \in Queued(B) /\ ~IsPending(B, r)
  BY BlockOfGood DEF Keeps
<1>2. /\ D \in GoodBlock /\ D \in Block /\ Queued(D) = Queued(B)
      /\ \A x \in Requests \ {r} : IsPending(D, x) => IsPending(B, x)
      /\ \A x \in Requests \ {r} : IsPending(B, x) => IsPending(D, x)
  <2>1. B \in Block
    BY <1>1 DEF GoodBlock
  <2>2. \A x \in Requests \ {r} : D.lrq_flags[x] = B.lrq_flags[x]
    BY <2>1 DEF begin_wait, Block
  <2> QED BY <1>1, <2>2, BeginWaitGood DEF GoodBlock, IsPending
<1>3. /\ Advance(B, D, {r})
      /\ D.lrq_state = B.lrq_state /\ D.lrq_requested = B.lrq_requested
      /\ IsPending(D, r) /\ ~Rejected(D, r)
      /\ B.lrq_state[r] = LCK_none => LastIn(D, r)
  BY <1>1, BeginWaitAdvance
<1> HIDE DEF D
<1>4. /\ V \in Table /\ V.pc = [T.pc EXCEPT ![r] = "wait"] /\ SameOwners(T, V) /\ BlockOf(V, r) = D
      /\ TableAdvance(T, V, {r}) /\ V.lbl = [T.lbl EXCEPT ![lrq_lock[r]] = D] /\ V.dead = T.dead
  <2> DEFINE X == WithBlock(T, r, D)
  <2>1. Advance(BlockOf(T, r), D, {r})
    BY <1>3, AdvanceTwice
  <2>2. X \in Table /\ TableAdvance(T, X, {r}) /\ SameOwners(T, X) /\ BlockOf(X, r) = D
        /\ X.pc = T.pc /\ X.dead = T.dead /\ X.lbl = [T.lbl EXCEPT ![lrq_lock[r]] = D]
    BY <1>1, <1>2, <2>1, WithBlockIs, WithBlockAdvance
  <2> HIDE DEF X
  <2>3. LET Y == At(X, r, "wait")
        IN  /\ Y \in Table /\ Y.lbl = X.lbl /\ Y.dead = X.dead /\ SameOwners(X, Y)
            /\ Y.pc = [X.pc EXCEPT ![r] = "wait"]
    BY <2>2, AtIs DEF Place
  <2>4. V = At(X, r, "wait")
    BY DEF V, X
  <2> HIDE DEF V
  <2> QED BY <2>2, <2>3, <2>4 DEF SameOwners, TableAdvance, BlockOf
<1> HIDE DEF V
<1>5. V \in GoodTable /\ V.pc[r] = "wait"
  <2>1. V.pc[r] = "wait"
    BY <1>1, <1>4 DEF Table
  <2> QED BY <1>1, <1>2, <1>4, <2>1, MoveGood DEF Keeps, Place
<1>6. W \in GoodTable /\ W.pc = V.pc /\ W.lbl = V.lbl /\ SameOwners(V, W)
  <2>1. SameOwners(V, W)
    BY <1>4 DEF DropFlags, Table, SameOwners
  <2> QED BY <1>5, <2>1, DropFlagsGood, OwnerOfRequest
<1> HIDE DEF W
<1>7. /\ U = post_blockage(W, r) /\ U \in GoodTable
      /\ TableFlags(W, U) /\ SameOwners(W, U)
      /\ \E where \in {"wait", "post"} : U.pc = [W.pc EXCEPT ![r] = where]
  <2>1. U = post_blockage(W, r)
    BY DEF begin_wait_for_request, W, V, D
  <2> QED BY <1>5, <1>6, <2>1, PostBlockageFlags, PostBlockageGood
<1> HIDE DEF U
<1>8. TableAdvance(T, U, {r}) /\ SameOwners(T, U)
  <2>1. TableAdvance(V, U, {r})
    BY <1>6, <1>7, TableFlagsAdvance DEF TableAdvance
  <2> QED BY <1>4, <1>6, <1>7, <2>1, TableAdvanceTwice DEF SameOwners
<1>9. SamePlaces(T, U, {r}) /\ U.pc[r] \in {"wait", "post"}
  <2>1. T.pc \in [Requests -> Place]
    BY <1>1 DEF Table
  <2> QED BY <1>4, <1>6, <1>7, <2>1 DEF SamePlaces
<1>10. FlagsOnly(D, C)
  <2>1. lrq_lock[r] \in Locks /\ W.lbl[lrq_lock[r]] = D
    BY <1>4, <1>6, OwnerOfRequest DEF BlockOf
  <2> QED BY <1>7, <2>1 DEF TableFlags, BlockOf
<1>11. /\ C.lrq_state = B.lrq_state /\ C.lrq_requested = B.lrq_requested
       /\ IsPending(C, r) /\ ~Rejected(C, r)
       /\ \A x \in Requests \ {r} : IsPending(B, x) => IsPending(C, x)
  <2>1. r \in Requests
    OBVIOUS
  <2> QED BY <1>2, <1>3, <1>10, <2>1 DEF FlagsOnly
<1>12. B.lrq_state[r] = LCK_none => LastIn(C, r)
  BY <1>3, <1>10 DEF FlagsOnly, LastIn, Queued, Before
<1> QED BY <1>7, <1>8, <1>9, <1>11, <1>12 DEF U

\* A thread leaves wait_for_request: with the level it holds, or rejected, and then
\* either freed or with the level it had.
LEMMA EndWaitTable ==
  ASSUME NEW T \in GoodTable, NEW r \in Requests, T.pc[r] \in {"wait", "post"},
         ~IsPending(BlockOf(T, r), r)
  PROVE  LET U == end_wait_for_request(T, r)
             A == BlockOf(T, r)
             C == BlockOf(U, r)
         IN  /\ U \in GoodTable /\ TableAdvance(T, U, {r}) /\ SameOwners(T, U)
             /\ SamePlaces(T, U, {r})
             /\ \/ ~Rejected(A, r) /\ TableFlags(T, U) /\ U.pc[r] = "idle"
                \/ Rejected(A, r) /\ U.pc[r] = "free"
                \/ /\ Rejected(A, r) /\ U.pc[r] = "idle" /\ A.lrq_state[r] # LCK_none
                   /\ C.lrq_state[r] = A.lrq_state[r] /\ ~IsPending(C, r)
<1> DEFINE A == BlockOf(T, r)
           B == end_wait(A, r)
           T1 == At(WithBlock(T, r, B), r, "idle")
           T2 == PostPending(T1, r, B)
           C == end_convert(BlockOf(T2, r), r)
           U == end_wait_for_request(T, r)
<1>1. T \in Table /\ r \in Queued(A) /\ A \in GoodBlock
  BY BlockOfGood DEF GoodTable
<1>2. Keeps(A, B) /\ B \in Block /\ B \in GoodBlock /\ FlagsOnly(A, B)
  BY <1>1, EndWaitGood, EndWaitOnly DEF Keeps, GoodBlock
<1>3. /\ ~IsPending(A, r) /\ ~IsPending(B, r) /\ B.lrq_state = A.lrq_state
      /\ Rejected(B, r) <=> Rejected(A, r)
  BY <1>2 DEF FlagsOnly
<1> HIDE DEF B
<1>4. /\ T1 \in Table /\ T1.pc = [T.pc EXCEPT ![r] = "idle"] /\ SameOwners(T, T1)
      /\ BlockOf(T1, r) = B /\ TableFlags(T, T1) /\ T1.dead = T.dead
      /\ T1.lbl = [T.lbl EXCEPT ![lrq_lock[r]] = B]
  <2> DEFINE X == WithBlock(T, r, B)
  <2>1. X \in Table /\ TableFlags(T, X) /\ SameOwners(T, X) /\ BlockOf(X, r) = B
        /\ X.pc = T.pc /\ X.dead = T.dead /\ X.lbl = [T.lbl EXCEPT ![lrq_lock[r]] = B]
    BY <1>1, <1>2, WithBlockIs, WithBlockFlags
  <2> HIDE DEF X
  <2>2. LET Y == At(X, r, "idle")
        IN  /\ Y \in Table /\ Y.lbl = X.lbl /\ Y.dead = X.dead /\ SameOwners(X, Y)
            /\ Y.pc = [X.pc EXCEPT ![r] = "idle"]
    BY <2>1, AtIs DEF Place
  <2>3. T1 = At(X, r, "idle")
    BY DEF T1, X
  <2> HIDE DEF T1
  <2> QED BY <2>1, <2>2, <2>3 DEF SameOwners, TableFlags, BlockOf
<1>5. U = IF ~Rejected(B, r) THEN T1
          ELSE IF B.lrq_state[r] = LCK_none THEN ReleaseRequest(T1, r)
          ELSE WithBlock(T2, r, C)
  BY DEF end_wait_for_request, B, Rejected
<1> HIDE DEF T1
<1>6. T1 \in GoodTable /\ T1.pc[r] = "idle"
  <2>1. T1.pc[r] = "idle"
    BY <1>1, <1>4 DEF Table
  <2> QED BY <1>1, <1>2, <1>4, <2>1, MoveGood DEF Keeps, Place
<1>7. U \in GoodTable
  BY EndWaitTableGood
<1>8. TableAdvance(T, T1, {r})
  BY <1>4, TableFlagsAdvance
<1> HIDE DEF U, A
<1>9. CASE ~Rejected(B, r)
  BY <1>1, <1>3, <1>4, <1>5, <1>6, <1>7, <1>8, <1>9 DEF SamePlaces, U, A, Table
<1>10. CASE Rejected(B, r) /\ B.lrq_state[r] = LCK_none
  <2>1. /\ U.pc = [T1.pc EXCEPT ![r] = "free"]
        /\ TableAdvance(T1, U, {r}) /\ SameOwners(T1, U)
    BY <1>5, <1>6, <1>10, ReleaseRequestTable
  <2>2. TableAdvance(T, U, {r}) /\ SameOwners(T, U)
    BY <1>4, <1>8, <2>1, TableAdvanceTwice DEF SameOwners
  <2>3. SamePlaces(T, U, {r}) /\ U.pc[r] = "free"
    BY <1>1, <1>4, <2>1 DEF SamePlaces, Table
  <2> QED BY <1>3, <1>7, <1>10, <2>2, <2>3 DEF U, A
<1>11. CASE Rejected(B, r) /\ B.lrq_state[r] # LCK_none
  <2>1. Advance(BlockOf(T1, r), B, {r}) /\ Keeps(BlockOf(T1, r), B)
    BY <1>2, <1>4, AdvanceIdle DEF Keeps
  <2>2. /\ T2 \in GoodTable /\ TableAdvance(T1, T2, {r}) /\ T2.pc = T1.pc /\ SameOwners(T1, T2)
        /\ BlockOf(T2, r) = post_pending(B)
    BY <1>2, <1>4, <1>6, <2>1, PostPendingTable, PostPendingTableGood
  <2>3. SameIn(B, post_pending(B), r)
    BY <1>2, <1>3, PostPendingAdvance DEF Advance, GrantedIn
  <2> HIDE DEF T2
  <2>4. T2 \in Table /\ BlockOf(T2, r) \in GoodBlock
    BY <2>2, BlockOfGood
  <2>5. /\ Advance(BlockOf(T2, r), C, {r})
        /\ C.lrq_state = BlockOf(T2, r).lrq_state /\ C.lrq_flags = BlockOf(T2, r).lrq_flags
    BY <2>4, EndConvertAdvance
  <2> HIDE DEF C
  <2>6. U = WithBlock(T2, r, C)
    BY <1>5, <1>11
  <2>7. /\ TableAdvance(T2, U, {r}) /\ SameOwners(T2, U) /\ BlockOf(U, r) = C /\ U.pc = T2.pc
    BY <2>4, <2>5, <2>6, WithBlockIs, WithBlockAdvance
  <2>8. C.lrq_state[r] = A.lrq_state[r] /\ ~IsPending(C, r)
    BY <1>3, <2>2, <2>3, <2>5 DEF SameIn, IsPending
  <2>9. TableAdvance(T, U, {r}) /\ SameOwners(T, U)
    BY <1>4, <1>8, <2>2, <2>7, TableAdvanceTwice DEF SameOwners
  <2>10. SamePlaces(T, U, {r}) /\ U.pc[r] = "idle"
    BY <1>1, <1>4, <1>6, <2>2, <2>7 DEF SamePlaces, Table
  <2> QED BY <1>3, <1>7, <1>11, <2>7, <2>8, <2>9, <2>10 DEF U, A
<1> QED BY <1>9, <1>10, <1>11

---------------------------------------------------------------------------

\* A pending request asks for something and is not rejected; one in use that is
\* not pending holds something, unless it was rejected and its thread has not
\* woken up yet.
ProperIn(T, x) ==
  LET B == BlockOf(T, x)
  IN  /\ IsPending(B, x) => B.lrq_requested[x] # LCK_none /\ ~Rejected(B, x)
      /\ T.pc[x] # "free" /\ ~IsPending(B, x) /\ (T.pc[x] = "idle" \/ ~Rejected(B, x))
           => B.lrq_state[x] # LCK_none

SoundTable == {T \in GoodTable : Registered(T) /\ \A x \in Requests : ProperIn(T, x)}

\* What the actor of a step may do, beyond what everybody may.
ActorMoves(T, U, r) ==
  LET B == BlockOf(T, r)
      C == BlockOf(U, r)
  IN  /\ NewWaiter(C, r) => ~NewWaiter(B, r) /\ LastIn(C, r)
      /\ B.lrq_state[r] = LCK_none /\ C.lrq_state[r] > LCK_null =>
           \A p \in Requests \ {r} : ~(NewWaiter(B, p) /\ NewWaiter(C, p))
      /\ IsPending(C, r) /\ ~IsPending(B, r) =>
           \E s \in Requests \ {r} :
             /\ lrq_lock[s] = lrq_lock[r]
             /\ \/ ~compatibility(C.lrq_requested[r], C.lrq_state[s])
                \/ C.lrq_state[r] = LCK_none /\ IsPending(C, s)

\* Who waits in a block is queued in it, and is a request for its lock.
LEMMA QueuedHere ==
  ASSUME NEW T \in GoodTable, NEW x \in Requests, NEW p \in Requests
  PROVE  LET B == BlockOf(T, x)
         IN  /\ p \in Queued(B) => lrq_lock[p] = lrq_lock[x] /\ BlockOf(T, p) = B
             /\ NewWaiter(B, p) \/ IsPending(B, p) => p \in Queued(B)
             /\ lrq_lock[p] = lrq_lock[x] => BlockOf(T, p) = B
             /\ ~Before(B, p, p)
             /\ B.lrq_state[p] \in Level /\ B.lrq_requested[p] \in Level
<1> DEFINE B == BlockOf(T, x)
<1>1. B \in GoodBlock /\ lrq_lock[x] \in Locks
  BY BlockOfGood
<1>2. p \in Queued(B) => lrq_lock[p] = lrq_lock[x]
  BY <1>1 DEF GoodTable, Linked, BlockOf
<1>3. NewWaiter(B, p) \/ IsPending(B, p) => p \in Queued(B)
  BY <1>1 DEF GoodBlock, BlockInv, OnlyQueuedCount, NewWaiter
<1>4. B \in Block /\ NoDuplicates(B) /\ B.lbl_requests \in Seq(Requests)
  BY <1>1 DEF GoodBlock, BlockInv, Block
<1>5. ~Before(B, p, p)
  BY <1>4 DEF Before, NoDuplicates
<1>6. B.lrq_state[p] \in Level /\ B.lrq_requested[p] \in Level
  BY <1>4 DEF Block
<1> QED BY <1>2, <1>3, <1>5, <1>6 DEF BlockOf

\* A request that is no actor, and whose thread does not move, stays proper.
LEMMA ProperKept ==
  ASSUME NEW T \in GoodTable, NEW U \in GoodTable, NEW A, TableAdvance(T, U, A),
         NEW M, SamePlaces(T, U, M),
         NEW x \in Requests \ (A \cup M), ProperIn(T, x)
  PROVE  ProperIn(U, x)
<1> DEFINE B == BlockOf(T, x)
           C == BlockOf(U, x)
<1>1. Advance(B, C, A)
  BY OwnerOfRequest DEF TableAdvance, BlockOf
<1>2. SameIn(B, C, x) \/ GrantedIn(B, C, x)
  BY <1>1 DEF Advance
<1>3. x \in Queued(B) => (Rejected(C, x) <=> Rejected(B, x))
  BY <1>1 DEF Advance
<1>4. /\ IsPending(B, x) => x \in Queued(B)
      /\ T.pc[x] # "free" <=> x \in Queued(B)
  BY QueuedHere, BlockOfGood
<1>5. (U.pc[x] = "free" <=> T.pc[x] = "free") /\ (U.pc[x] = "idle" <=> T.pc[x] = "idle")
  BY DEF SamePlaces
<1> HIDE DEF B, C
<1>6. CASE SameIn(B, C, x)
  BY <1>3, <1>4, <1>5, <1>6 DEF SameIn, ProperIn, B, C
<1>7. CASE GrantedIn(B, C, x)
  BY <1>3, <1>4, <1>5, <1>7 DEF GrantedIn, ProperIn, B, C
<1> QED BY <1>2, <1>6, <1>7

\* A request not in use holds nothing and waits for nothing.
LEMMA FreeProper ==
  ASSUME NEW T \in GoodTable, NEW x \in Requests, T.pc[x] = "free"
  PROVE  /\ ProperIn(T, x)
         /\ BlockOf(T, x).lrq_state[x] = LCK_none /\ ~IsPending(BlockOf(T, x), x)
BY BlockOfGood DEF GoodBlock, BlockInv, OnlyQueuedCount, ProperIn

\* The level held, the level wanted and the line, in the terms of the lock table.
LEMMA HeldWantedNow ==
  ASSUME NEW x \in Requests
  PROVE  /\ HeldBy(Now, x)' = HeldBy(Now', x)
         /\ WantedBy(Now, x)' = WantedBy(Now', x)
         /\ AheadOf(Now, x)' = AheadOf(Now', x)
<1>1. BlockOf(Now, x)' = BlockOf(Now', x)
  BY DEF BlockOf
<1> QED BY <1>1 DEF HeldBy, WantedBy, AheadOf, NewWaiter, IsPending, Before

FirstOf(T, x) ==
  LET B == BlockOf(T, x)
  IN  IF NewWaiter(B, x) THEN {p \in Requests : NewWaiter(B, p) /\ Before(B, p, x)}
      ELSE {p \in Requests \ {x} : lrq_lock[p] = lrq_lock[x] /\ NewWaiter(B, p)}

\* The service's line before a lock, now.
LEMMA InLineIs ==
  ASSUME NEW x \in Requests, ProperIn(Now, x)
  PROVE  Service!InLine(x) <=> NewWaiter(BlockOf(Now, x), x)
BY DEF Service!InLine, Service!LCK_none, HeldBy, WantedBy, NewWaiter, ProperIn

\* The service's line before a lock, after the step.
LEMMA InLineNextIs ==
  ASSUME NEW x \in Requests, ProperIn(Now', x)
  PROVE  Service!InLine(x)' <=> NewWaiter(BlockOf(Now', x), x)
BY HeldWantedNow DEF Service!InLine, Service!LCK_none, HeldBy, WantedBy, NewWaiter, ProperIn

\* Whom a request has to let pass.
LEMMA FirstIs ==
  ASSUME Now \in SoundTable, NEW x \in Requests
  PROVE  Service!First(x) = FirstOf(Now, x)
<1>1. /\ Now \in GoodTable
      /\ \A p \in Requests : Service!InLine(p) <=> NewWaiter(BlockOf(Now, p), p)
  BY InLineIs DEF SoundTable
<1>2. CASE NewWaiter(BlockOf(Now, x), x)
  BY <1>1, <1>2 DEF Service!First, FirstOf, AheadOf
<1>3. CASE ~NewWaiter(BlockOf(Now, x), x)
  <2>1. \A p \in Requests : lrq_lock[p] = lrq_lock[x] => BlockOf(Now, p) = BlockOf(Now, x)
    BY DEF BlockOf
  <2> QED BY <1>1, <1>3, <2>1 DEF Service!First, FirstOf
<1> QED BY <1>2, <1>3

---------------------------------------------------------------------------

\* The abstract specification has the same matrix of compatible levels.
LEMMA ServiceModes ==
  /\ Service!LCK_none = LCK_none
  /\ Service!LCK_null = LCK_null
  /\ \A a, b \in Level : Service!compatibility(a, b) <=> compatibility(a, b)
<1>1. ASSUME NEW a \in Level
      PROVE  Service!Tolerates(a) = Tolerates(a)
  <2>1. Service!Level = Level
    BY DEF Service!LCK_none, Service!LCK_EX, Service!Level, Level
  <2>2. a \in Nat /\ a <= 6
    BY DEF Level
  <2> USE DEF Service!Tolerates, Tolerates, Service!LCK_none, Service!LCK_null,
        Service!LCK_SR, Service!LCK_PR, Service!LCK_SW, Service!LCK_PW, Service!LCK_EX
  <2>3. CASE a \in {0, 1}
    BY <2>3, <2>1
  <2>4. CASE a \in {2, 3}
    BY <2>4, <2>1
  <2>5. CASE a \in {4, 5, 6}
    BY <2>5, <2>1
  <2> QED BY <2>2, <2>3, <2>4, <2>5
<1> QED BY <1>1 DEF Service!LCK_none, Service!LCK_null, Service!compatibility, compatibility

SoundStep(T, U, A, D) ==
  /\ T \in SoundTable /\ U \in SoundTable
  /\ A \in {{}} \cup {{r} : r \in Requests}
  /\ D \in {{}} \cup {{r \in Requests : ProcessOf(r) = p} : p \in Crashable}
  /\ TableAdvance(T, U, A \cup D)
  /\ \A x \in D : U.pc[x] = "free"
  /\ \A x \in A : ActorMoves(T, U, x)

\* The requests of dead processes are gone; every other one but the actor has what it
\* had, or what it wanted.
LEMMA OthersServed ==
  ASSUME NEW T, NEW U, NEW A, NEW D, SoundStep(T, U, A, D), NEW x \in Requests
  PROVE  /\ x \in D => HeldBy(U, x) = LCK_none /\ WantedBy(U, x) = LCK_none
         /\ x \notin A \cup D =>
              \/ HeldBy(U, x) = HeldBy(T, x) /\ WantedBy(U, x) = WantedBy(T, x)
              \/ /\ WantedBy(T, x) # LCK_none /\ HeldBy(U, x) = WantedBy(T, x)
                 /\ WantedBy(U, x) = LCK_none
<1>1. T \in GoodTable /\ U \in GoodTable /\ ProperIn(T, x) /\ lrq_lock[x] \in Locks
  BY OwnerOfRequest DEF SoundStep, SoundTable
<1>2. ASSUME x \in D
      PROVE  HeldBy(U, x) = LCK_none /\ WantedBy(U, x) = LCK_none
  BY <1>1, <1>2, FreeProper DEF SoundStep, HeldBy, WantedBy
<1>3. ASSUME x \notin A \cup D
      PROVE  SameIn(BlockOf(T, x), BlockOf(U, x), x) \/ GrantedIn(BlockOf(T, x), BlockOf(U, x), x)
  BY <1>1, <1>3 DEF SoundStep, TableAdvance, Advance, BlockOf
<1> QED BY <1>1, <1>2, <1>3 DEF SameIn, GrantedIn, HeldBy, WantedBy, ProperIn

\* Two requests for one lock hold levels that tolerate each other.
LEMMA NoHolderExcluded ==
  ASSUME NEW U \in GoodTable, NEW r \in Requests, NEW s \in Requests, r # s,
         lrq_lock[r] = lrq_lock[s]
  PROVE  /\ HeldBy(U, r) \in Level /\ HeldBy(U, s) \in Level
         /\ compatibility(HeldBy(U, r), HeldBy(U, s))
<1>1. BlockOf(U, r) \in GoodBlock /\ BlockOf(U, s) = BlockOf(U, r)
  BY BlockOfGood DEF BlockOf
<1> QED BY <1>1 DEF GoodBlock, BlockInv, HeldCompatible, HeldBy, Block

\* The waiters of a lock and their order, before and after a step.
LEMMA LineMoves ==
  ASSUME NEW T, NEW U, NEW A, NEW D, SoundStep(T, U, A, D),
         NEW x \in Requests, NEW p \in Requests
  PROVE  LET B == BlockOf(T, x)
             C == BlockOf(U, x)
         IN  /\ NewWaiter(C, x) /\ NewWaiter(C, p) =>
                  (Before(C, p, x) <=> p \in FirstOf(T, x))
             /\ NewWaiter(C, x) /\ p \in FirstOf(T, x) /\ NewWaiter(BlockOf(U, p), p)
                  => NewWaiter(C, p)
             /\ B.lrq_state[x] = LCK_none /\ C.lrq_state[x] > LCK_null /\ p \in FirstOf(T, x)
                  => ~NewWaiter(BlockOf(U, p), p)
<1> DEFINE B == BlockOf(T, x)
           C == BlockOf(U, x)
<1>1. /\ T \in GoodTable /\ U \in GoodTable /\ lrq_lock[x] \in Locks
      /\ Advance(B, C, A \cup D)
  BY OwnerOfRequest DEF SoundStep, SoundTable, TableAdvance, BlockOf
<1>2. /\ \A y \in D : ~NewWaiter(BlockOf(U, y), y) /\ BlockOf(U, y).lrq_state[y] = LCK_none
  BY <1>1, FreeProper DEF SoundStep, NewWaiter
<1>3. \A y \in D : ~NewWaiter(C, y)
  <2> SUFFICES ASSUME NEW y \in D, NewWaiter(C, y) PROVE FALSE
    OBVIOUS
  <2>1. y \in Requests
    BY <1>1 DEF SoundStep
  <2> QED BY <1>1, <1>2, <2>1, QueuedHere
<1>4. \A y \in A : y \in Requests /\ ActorMoves(T, U, y) /\ A = {y}
  BY DEF SoundStep
<1>5. p \in FirstOf(T, x) => /\ NewWaiter(B, p) /\ p # x /\ lrq_lock[p] = lrq_lock[x]
                             /\ BlockOf(T, p) = B /\ BlockOf(U, p) = C
  BY <1>1, QueuedHere DEF FirstOf
<1>6. /\ NewWaiter(C, p) => p \in Queued(C) /\ lrq_lock[p] = lrq_lock[x] /\ BlockOf(T, p) = B /\ BlockOf(U, p) = C
      /\ ~Before(C, x, x) /\ ~Before(B, x, x)
  BY <1>1, QueuedHere
<1>7. /\ C.lrq_state[x] \in Level /\ B.lrq_state[x] \in Level /\ B.lrq_requested[x] \in Level
  BY <1>1, QueuedHere
<1>9. FirstOf(T, x) = IF NewWaiter(B, x) THEN {y \in Requests : NewWaiter(B, y) /\ Before(B, y, x)}
      ELSE {y \in Requests \ {x} : lrq_lock[y] = lrq_lock[x] /\ NewWaiter(B, y)}
  BY DEF FirstOf
<1> HIDE DEF B, C
<1>10. ASSUME NewWaiter(C, x), NewWaiter(C, p), x \notin A
       PROVE  Before(C, p, x) <=> p \in FirstOf(T, x)
  <2>1. x \notin D /\ p \notin D
    BY <1>3, <1>10
  <2>2. NewWaiter(B, x)
    BY <1>1, <1>10, <2>1, AdvanceWaiters
  <2>3. CASE p \notin A
    BY <1>1, <1>9, <1>10, <2>1, <2>2, <2>3, AdvanceWaiters
  <2>4. CASE p \in A
    <3>1. ~NewWaiter(B, p) /\ LastIn(C, p)
      BY <1>4, <1>6, <1>10, <2>4 DEF ActorMoves
    <3> QED BY <1>9, <2>2, <3>1 DEF LastIn
  <2> QED BY <2>3, <2>4
<1>11. ASSUME NewWaiter(C, x), NewWaiter(C, p), x \in A
       PROVE  Before(C, p, x) <=> p \in FirstOf(T, x)
  <2>1. p \notin D
    BY <1>3, <1>11
  <2>2. ~NewWaiter(B, x) /\ LastIn(C, x)
    BY <1>4, <1>11 DEF ActorMoves, B, C
  <2>3. CASE p = x
    BY <1>6, <1>9, <2>2, <2>3
  <2>4. CASE p # x
    <3>1. p \notin A /\ NewWaiter(B, p)
      <4>1. p \notin A
        BY <1>4, <1>11, <2>4
      <4> QED BY <1>1, <1>11, <2>1, <4>1 DEF Advance, SameIn, GrantedIn, NewWaiter
    <3>2. Before(C, p, x)
      BY <1>6, <1>11, <2>2, <2>4 DEF LastIn
    <3> QED BY <1>6, <1>9, <1>11, <2>2, <2>4, <3>1, <3>2
  <2> QED BY <2>3, <2>4
<1>12. NewWaiter(C, x) /\ p \in FirstOf(T, x) /\ NewWaiter(BlockOf(U, p), p) => NewWaiter(C, p)
  BY <1>5
<1>13. ASSUME B.lrq_state[x] = LCK_none, C.lrq_state[x] > LCK_null, p \in FirstOf(T, x),
              NewWaiter(C, p)
       PROVE  FALSE
  <2>1. x \notin D /\ p \notin D
    BY <1>2, <1>3, <1>13 DEF C
  <2>2. CASE x \in A
    BY <1>4, <1>5, <1>13, <2>2 DEF ActorMoves, B, C
  <2>3. CASE x \notin A
    <3>1. SameIn(B, C, x) \/ GrantedIn(B, C, x)
      BY <1>1, <2>1, <2>3 DEF Advance
    <3>2. NewWaiter(B, x) /\ ~NewWaiter(C, x)
      BY <1>13, <3>1 DEF SameIn, GrantedIn, NewWaiter
    <3>3. NewWaiter(B, p) /\ Before(B, p, x)
      BY <1>9, <1>13, <3>2
    <3>4. CASE p \in A
      BY <1>4, <1>5, <1>13, <3>3, <3>4 DEF ActorMoves
    <3>5. CASE p \notin A
      BY <1>1, <1>13, <2>1, <2>3, <3>2, <3>3, <3>5 DEF Advance
    <3> QED BY <3>4, <3>5
  <2> QED BY <2>2, <2>3
<1> QED BY <1>5, <1>10, <1>11, <1>12, <1>13 DEF B, C

\* A sound step of the lock manager is a step of the lock service.
LEMMA ServiceStep ==
  ASSUME NEW A, NEW D, SoundStep(Now, Now', A, D)
  PROVE  Service!Next
<1> DEFINE held == [r \in Requests |-> HeldBy(Now, r)]
           want == [r \in Requests |-> WantedBy(Now, r)]
           ahead == [r \in Requests |-> AheadOf(Now, r)]
<1>1. /\ Now \in SoundTable /\ Now' \in SoundTable
      /\ Now' \in GoodTable /\ \A x \in Requests : ProperIn(Now, x) /\ ProperIn(Now', x)
  BY DEF SoundStep, SoundTable
<1>2. \A x \in Requests : /\ HeldBy(Now, x)' = HeldBy(Now', x)
                          /\ WantedBy(Now, x)' = WantedBy(Now', x)
                          /\ AheadOf(Now, x)' = AheadOf(Now', x)
  BY HeldWantedNow
<1>3. \A x \in Requests : /\ Service!InLine(x) <=> NewWaiter(BlockOf(Now, x), x)
                          /\ Service!InLine(x)' <=> NewWaiter(BlockOf(Now', x), x)
                          /\ Service!First(x) = FirstOf(Now, x)
  BY <1>1, InLineIs, InLineNextIs, FirstIs
<1>4. \A r \in D : Service!Gone(r)
  <2>1. D \subseteq Requests
    BY DEF SoundStep
  <2> QED BY <1>2, <2>1, OthersServed DEF Service!Gone, Service!LCK_none
<1>5. \A r \in Requests \ (A \cup D) : Service!Unmoved(r) \/ Service!Granted(r)
  BY <1>2, OthersServed DEF Service!Unmoved, Service!Granted, Service!LCK_none
<1>6. Service!HoldersCompatible
  BY <1>1, <1>2, NoHolderExcluded, ServiceModes DEF Service!HoldersCompatible
<1>7. Service!LinesMoveUp
  <2>1. ASSUME NEW x \in Requests
        PROVE  AheadOf(Now', x) = IF NewWaiter(BlockOf(Now', x), x)
                 THEN {p \in FirstOf(Now, x) : NewWaiter(BlockOf(Now', p), p)} ELSE {}
    <3>1. ASSUME NEW p \in Requests, NewWaiter(BlockOf(Now', x), p)
          PROVE  BlockOf(Now', p) = BlockOf(Now', x)
      BY <1>1, <3>1, QueuedHere
    <3>2. FirstOf(Now, x) \subseteq Requests
      BY DEF FirstOf
    <3>3. CASE NewWaiter(BlockOf(Now', x), x)
      <4>1. AheadOf(Now', x) = {p \in Requests : /\ NewWaiter(BlockOf(Now', x), p)
                                                /\ Before(BlockOf(Now', x), p, x)}
        BY <3>3 DEF AheadOf
      <4>2. \A p \in Requests :
              NewWaiter(BlockOf(Now', x), p) /\ Before(BlockOf(Now', x), p, x)
              <=> p \in FirstOf(Now, x) /\ NewWaiter(BlockOf(Now', p), p)
        BY <3>1, <3>3, LineMoves
      <4> QED BY <3>2, <3>3, <4>1, <4>2
    <3>4. CASE ~NewWaiter(BlockOf(Now', x), x)
      BY <3>4 DEF AheadOf
    <3> QED BY <3>3, <3>4
  <2>2. ASSUME NEW x \in Requests
        PROVE  {p \in FirstOf(Now, x) : NewWaiter(BlockOf(Now', p), p)}
               = {p \in Service!First(x) : Service!InLine(p)'}
    <3>1. FirstOf(Now, x) \subseteq Requests
      BY DEF FirstOf
    <3> QED BY <1>3, <3>1
  <2>3. \A x \in Requests :
          AheadOf(Now, x)' = IF Service!InLine(x)'
                             THEN {p \in Service!First(x) : Service!InLine(p)'} ELSE {}
    BY <1>2, <1>3, <2>1, <2>2
  <2> QED BY <2>3 DEF Service!LinesMoveUp
<1>8. Service!NoOvertaking
  <2>1. ASSUME NEW r \in Requests, HeldBy(Now, r) = LCK_none, HeldBy(Now', r) > LCK_null,
               NEW p \in FirstOf(Now, r)
        PROVE  ~NewWaiter(BlockOf(Now', p), p)
    <3>1. p \in Requests
      BY DEF FirstOf
    <3> QED BY <2>1, <3>1, LineMoves DEF HeldBy
  <2>2. \A r \in Requests : FirstOf(Now, r) \subseteq Requests
    BY DEF FirstOf
  <2> QED BY <1>2, <1>3, <2>1, <2>2 DEF Service!NoOvertaking, Service!LCK_none, Service!LCK_null
<1>9. Service!WaitsForSomething(A)
  <2>1. ASSUME NEW r \in A, WantedBy(Now', r) # LCK_none, WantedBy(Now, r) = LCK_none
        PROVE  \E s \in Requests \ {r} :
                 /\ lrq_lock[s] = lrq_lock[r]
                 /\ \/ ~compatibility(WantedBy(Now', r), HeldBy(Now', s))
                    \/ HeldBy(Now', r) = LCK_none /\ WantedBy(Now', s) # LCK_none
    <3>1. r \in Requests /\ ActorMoves(Now, Now', r)
      BY DEF SoundStep
    <3>2. IsPending(BlockOf(Now', r), r) /\ ~IsPending(BlockOf(Now, r), r)
      BY <1>1, <2>1, <3>1 DEF WantedBy, ProperIn
    <3>3. PICK s \in Requests \ {r} :
             /\ lrq_lock[s] = lrq_lock[r]
             /\ \/ ~compatibility(BlockOf(Now', r).lrq_requested[r], BlockOf(Now', r).lrq_state[s])
                \/ BlockOf(Now', r).lrq_state[r] = LCK_none /\ IsPending(BlockOf(Now', r), s)
      BY <3>1, <3>2 DEF ActorMoves
    <3>4. BlockOf(Now', s) = BlockOf(Now', r)
      BY <3>3 DEF BlockOf
    <3> QED BY <1>1, <3>2, <3>3, <3>4 DEF WantedBy, HeldBy, ProperIn
  <2>2. A \subseteq Requests
    BY DEF SoundStep
  <2>3. \A r \in A, s \in Requests : r \in Requests /\ (r # s /\ lrq_lock[s] = lrq_lock[r] =>
          (WantedBy(Now', r) \in Level /\ HeldBy(Now', s) \in Level))
    <3> SUFFICES ASSUME NEW r \in Requests, NEW s \in Requests
                 PROVE  WantedBy(Now', r) \in Level /\ HeldBy(Now', s) \in Level
      BY <2>2
    <3> QED BY <1>1, QueuedHere DEF WantedBy, HeldBy, Level
  <2> QED BY <1>2, <2>1, <2>2, <2>3, ServiceModes DEF Service!WaitsForSomething
<1>10. Service!Step(A, D)
  BY <1>4, <1>5, <1>6, <1>7, <1>8, <1>9 DEF Service!Step
<1>11. /\ A \in {{}} \cup {{r} : r \in Requests}
       /\ D \in {{}} \cup {{r \in Requests : ProcessOf(r) = p} : p \in Crashable}
  BY DEF SoundStep
<1> QED BY <1>10, <1>11 DEF Service!Next

---------------------------------------------------------------------------

\* Requests that leave do not make others unregistered.
LEMMA RegisteredKept ==
  ASSUME NEW T, Registered(T), NEW U, SameOwners(T, U),
         \A x \in Requests : U.pc[x] # "free" => T.pc[x] # "free"
  PROVE  Registered(U)
BY DEF Registered, SameOwners

\* The requests purged together are nobody's, or those of one process.
LEMMA DeadIsProcess ==
  ASSUME NEW T \in GoodTable
  PROVE  DeadRequests(T) \in {{}} \cup {{r \in Requests : ProcessOf(r) = p} : p \in Crashable}
<1>1. \A x \in Requests : ProcessOf(x) = own_process[lrq_owner[x]]
  BY ManagerAssumption DEF ProcessOf
<1>2. OneDead(T.dead)
  BY DEF GoodTable
<1>3. CASE T.dead = {}
  BY <1>3 DEF DeadRequests
<1>4. ASSUME NEW p \in T.dead
      PROVE  DeadRequests(T) = {r \in Requests : ProcessOf(r) = p} /\ p \in Crashable
  BY <1>1, <1>2 DEF DeadRequests, OneDead
<1> QED BY <1>3, <1>4

\* Enough for a step of actors A, purging the requests D, that moves the threads
\* of the requests M besides.
LEMMA SoundAfter ==
  ASSUME NEW T \in SoundTable, NEW U \in GoodTable, Registered(U), NEW A, NEW D, NEW M,
         A \in {{}} \cup {{r} : r \in Requests},
         D = {} \/ D = DeadRequests(T),
         TableAdvance(T, U, A \cup D),
         SamePlaces(T, U, A \cup D \cup M),
         \A x \in D : U.pc[x] = "free",
         \A x \in (A \cup M) \cap Requests : ProperIn(U, x),
         \A x \in A : ActorMoves(T, U, x)
  PROVE  SoundStep(T, U, A, D)
<1>1. T \in GoodTable /\ \A x \in Requests : ProperIn(T, x)
  BY DEF SoundTable
<1>2. D \in {{}} \cup {{r \in Requests : ProcessOf(r) = p} : p \in Crashable}
  BY <1>1, DeadIsProcess
<1>3. ASSUME NEW x \in Requests PROVE ProperIn(U, x)
  <2>1. CASE x \in D
    BY <2>1, FreeProper
  <2>2. CASE x \in A \cup M
    BY <2>2
  <2>3. CASE x \notin A \cup D \cup M
    BY <1>1, <2>3, ProperKept
  <2> QED BY <2>1, <2>2, <2>3
<1> QED BY <1>2, <1>3 DEF SoundStep, SoundTable

\* A step of no request that touches nothing but flags.
NoMove(T, U) == SoundStep(T, U, {}, {}) /\ TableFlags(T, U) /\ SamePlaces(T, U, {})

\* A step that touches nothing but flags.
LEMMA QuietStep ==
  ASSUME NEW T \in SoundTable, NEW U \in GoodTable, Registered(U), TableFlags(T, U),
         SamePlaces(T, U, {})
  PROVE  NoMove(T, U)
<1>1. TableAdvance(T, U, {})
  BY TableFlagsAdvance
<1>2. SoundStep(T, U, {}, {})
  BY <1>1, SoundAfter
<1> QED BY <1>2 DEF NoMove

\* What a routine returns is the next state.
LEMMA BecomesIs ==
  ASSUME NEW T \in GoodTable, Becomes(T)
  PROVE  Now' = T
<1>1. T \in Table
  BY DEF GoodTable
<1> QED BY <1>1 DEF Becomes, Now, Table

\* What the invariant says of the present state.
LEMMA SoundNow ==
  ASSUME Now \in SoundTable
  PROVE  /\ Now \in GoodTable /\ Registered(Now) /\ \A x \in Requests : ProperIn(Now, x)
         /\ Now.lbl = lbl /\ Now.pc = pc /\ Now.lhb_owners = lhb_owners
         /\ Now.own_count = own_count /\ Now.dead = dead
         /\ \A x \in Requests : pc[x] # "free" =>
              lrq_owner[x] \in lhb_owners /\ own_count[lrq_owner[x]] > 0
BY DEF SoundTable, Registered, Now

\* A step that leaves the locks and the threads of requests alone, and every owner of a
\* request registered.
LEMMA IdleStep ==
  ASSUME Now \in SoundTable, Now' \in GoodTable, lbl' = lbl, pc' = pc,
         \A x \in Requests : pc[x] # "free" =>
           lrq_owner[x] \in lhb_owners' /\ own_count'[lrq_owner[x]] > 0
  PROVE  NoMove(Now, Now')
<1>1. /\ Now'.lbl = Now.lbl /\ Now'.pc = Now.pc
      /\ Now.pc = pc /\ Now'.lhb_owners = lhb_owners' /\ Now'.own_count = own_count'
  BY DEF Now
<1>2. TableFlags(Now, Now')
  BY <1>1, TableAdvanceSame
<1>3. Registered(Now')
  BY <1>1 DEF Registered
<1>4. SamePlaces(Now, Now', {})
  BY <1>1 DEF SamePlaces
<1> QED BY <1>2, <1>3, <1>4, QuietStep

\* initializeOwner, another user.
LEMMA InitializeAgainStep ==
  ASSUME Now \in SoundTable, NEW o \in Owners, InitializeAgain(o)
  PROVE  NoMove(Now, Now')
<1>1. Now' \in GoodTable
  BY SoundNow, InitializeAgainGood
<1>2. /\ lbl' = lbl /\ pc' = pc /\ lhb_owners' = lhb_owners
      /\ own_count' = [own_count EXCEPT ![o] = @ + 1]
  BY DEF InitializeAgain, Becomes, Now
<1>3. own_count \in [Owners -> Nat]
  BY SoundNow, NowFields
<1> QED BY <1>1, <1>2, <1>3, SoundNow, IdleStep, OwnerOfRequest

\* shutdownOwner: the last user leaves no request behind.
LEMMA ShutdownOwnerStep ==
  ASSUME Now \in SoundTable, NEW o \in Owners, ShutdownOwner(o)
  PROVE  NoMove(Now, Now')
<1>1. Now' \in GoodTable
  BY SoundNow, ShutdownOwnerGood
<1>2. /\ lbl' = lbl /\ pc' = pc /\ lhb_owners' = lhb_owners
      /\ own_count' = [own_count EXCEPT ![o] = @ - 1]
      /\ own_count[o] = 1 => \A r \in Requests : lrq_owner[r] = o => pc[r] = "free"
  BY DEF ShutdownOwner, Becomes, Now
<1>3. own_count \in [Owners -> Nat] /\ own_count[o] > 0
  BY SoundNow, NowFields DEF ShutdownOwner, Active
<1> QED BY <1>1, <1>2, <1>3, SoundNow, IdleStep, OwnerOfRequest

\* purge_owner: an owner nobody uses has no requests.
LEMMA PurgeOwnerStep ==
  ASSUME Now \in SoundTable, NEW o \in Owners, PurgeOwner(o)
  PROVE  NoMove(Now, Now')
<1>1. Now' \in GoodTable
  BY SoundNow, PurgeOwnerGood
<1>2. /\ lbl' = lbl /\ pc' = pc /\ lhb_owners' = lhb_owners \ {o} /\ own_count' = own_count
      /\ own_count[o] = 0
  BY DEF PurgeOwner, Becomes, Now
<1> QED BY <1>1, <1>2, SoundNow, IdleStep

\* A process dies; nobody notices yet.
LEMMA ProcessDiesStep ==
  ASSUME Now \in SoundTable, NEW p \in Processes, ProcessDies(p)
  PROVE  NoMove(Now, Now')
<1>1. Now' \in GoodTable
  BY SoundNow, ProcessDiesGood
<1>2. lbl' = lbl /\ pc' = pc /\ lhb_owners' = lhb_owners /\ own_count' = own_count
  BY DEF ProcessDies, Becomes, Now
<1> QED BY <1>1, <1>2, SoundNow, IdleStep

\* cancelWait wakes an owner.
LEMMA CancelWaitStep ==
  ASSUME Now \in SoundTable, NEW o \in Owners, CancelWait(o)
  PROVE  NoMove(Now, Now')
<1>1. Now' \in GoodTable
  BY SoundNow, CancelWaitGood
<1>2. lbl' = lbl /\ pc' = pc /\ lhb_owners' = lhb_owners /\ own_count' = own_count
  BY DEF CancelWait, Becomes, Now
<1> QED BY <1>1, <1>2, SoundNow, IdleStep

\* A step of a thread that runs ASTs or tells owners about a waiting request.
LEMMA FlagsStep ==
  ASSUME Now \in SoundTable, NEW T \in GoodTable,
         T.lbl = lbl, T.pc = pc, T.lhb_owners = lhb_owners, T.own_count = own_count,
         NEW U \in GoodTable, Becomes(U), TableFlags(T, U), SameOwners(T, U),
         \/ U.pc = T.pc
         \/ \E r \in Requests, where \in {"wait", "post"} :
              T.pc[r] \in {"wait", "post"} /\ U.pc = [T.pc EXCEPT ![r] = where]
  PROVE  NoMove(Now, Now')
<1>1. Now' = U
  BY BecomesIs
<1>2. TableFlags(Now, U) /\ SameOwners(Now, U)
  BY SoundNow DEF TableFlags, SameOwners
<1>3. SamePlaces(Now, U, {})
  <2>1. Now.pc = T.pc /\ T.pc \in [Requests -> Place]
    BY SoundNow DEF GoodTable, Table
  <2> QED BY <2>1 DEF SamePlaces
<1>4. Registered(U)
  <2>1. \A x \in Requests : U.pc[x] # "free" => Now.pc[x] # "free"
    BY <1>3 DEF SamePlaces
  <2> QED BY <1>2, <2>1, SoundNow, RegisteredKept
<1> QED BY <1>1, <1>2, <1>3, <1>4, QuietStep

\* repost, which may run the owner's ASTs.
LEMMA RepostAstStep ==
  ASSUME Now \in SoundTable, NEW o \in Owners, RepostAst(o)
  PROVE  NoMove(Now, Now')
<1> DEFINE x == [own_blocks EXCEPT ![o] = Append(@, Repost)]
           T == [Now EXCEPT !.own_blocks = x]
           F == [T.own_flags EXCEPT ![o] = own_flags[o] \cup {"signaled"}]
           U == [T EXCEPT !.own_flags = F]
<1>0. Now \in GoodTable
  BY SoundNow
<1>1. x \in [Owners -> Seq(Requests \cup {Repost})]
  BY <1>0, NowFields
<1>2. Becomes(T) \/ Becomes(blocking_action(U, o, o))
  BY DEF RepostAst
<1> HIDE DEF x
<1>3. /\ T \in Table /\ T.lbl = Now.lbl /\ T.pc = Now.pc /\ T.dead = Now.dead
      /\ T.own_flags = own_flags /\ T.lhb_owners = Now.lhb_owners /\ T.own_count = Now.own_count
  BY <1>0, <1>1, NowFields DEF Table
<1> HIDE DEF T
<1>4. T \in GoodTable
  BY <1>0, <1>3, SameLocks
<1>5. F \in [Owners -> SUBSET OwnFlag]
  BY <1>0, <1>3, NowFields DEF OwnFlag
<1> HIDE DEF F
<1>6. /\ U \in Table /\ U.lbl = T.lbl /\ U.pc = T.pc /\ U.dead = T.dead
      /\ U.lhb_owners = T.lhb_owners /\ U.own_count = T.own_count
  BY <1>3, <1>5 DEF Table
<1> HIDE DEF U
<1>7. U \in GoodTable /\ o \in Threads
  BY <1>4, <1>6, SameLocks DEF Threads
<1>8. CASE Becomes(T)
  <2>1. TableFlags(T, T) /\ SameOwners(T, T)
    BY TableAdvanceSame DEF SameOwners
  <2> QED BY <1>3, <1>4, <1>8, <2>1, SoundNow, FlagsStep
<1>9. CASE Becomes(blocking_action(U, o, o))
  <2> DEFINE W == blocking_action(U, o, o)
  <2>1. W \in GoodTable /\ TableFlags(U, W) /\ SameOwners(U, W) /\ W.pc = U.pc
    BY <1>7, BlockingActionGood, BlockingActionFlags
  <2> HIDE DEF W
  <2>2. Becomes(W)
    BY <1>9 DEF W
  <2> QED BY <1>3, <1>6, <1>7, <2>1, <2>2, SoundNow, FlagsStep
<1> QED BY <1>2, <1>8, <1>9

\* An AST returns and its thread goes on.
LEMMA AstReturnsStep ==
  ASSUME Now \in SoundTable, NEW t \in Threads, AstReturns(t)
  PROVE  NoMove(Now, Now')
<1> DEFINE o == ast[t]
           a == [ast EXCEPT ![t] = NoOwner]
           V == [Now EXCEPT !.ast = a]
           T == blocking_action(V, t, o)
<1>0. Now \in GoodTable
  BY SoundNow
<1>1. o \in Owners
  BY <1>0, NowFields DEF AstReturns
<1>2. a \in [Threads -> Owners \cup {NoOwner}]
  BY <1>0, NowFields
<1>3. \/ Becomes(T)
      \/ t \in Requests /\ pc[t] = "post" /\ Becomes(signal_owners(T, t, sig[t]))
      \/ t \in Processes /\ \E T1 \in blocking_action_thread(T, t) : Becomes(T1)
  BY DEF AstReturns
<1> HIDE DEF a
<1>4. /\ V \in Table /\ V.lbl = Now.lbl /\ V.pc = Now.pc /\ V.dead = Now.dead
      /\ V.lhb_owners = Now.lhb_owners /\ V.own_count = Now.own_count
  BY <1>0, <1>2, NowFields DEF Table
<1> HIDE DEF V
<1>5. V \in GoodTable
  BY <1>0, <1>4, SameLocks
<1>6. T \in GoodTable /\ TableFlags(V, T) /\ SameOwners(V, T) /\ T.pc = V.pc
  BY <1>1, <1>5, BlockingActionGood, BlockingActionFlags
<1> HIDE DEF T, o
<1>7. ASSUME NEW U \in GoodTable, Becomes(U), TableFlags(T, U), SameOwners(T, U),
             \/ U.pc = T.pc
             \/ \E r \in Requests, where \in {"wait", "post"} :
                  T.pc[r] \in {"wait", "post"} /\ U.pc = [T.pc EXCEPT ![r] = where]
      PROVE  NoMove(Now, Now')
  <2>1. TableFlags(V, U) /\ SameOwners(V, U)
    BY <1>6, <1>7, TableFlagsTwice DEF SameOwners
  <2> QED BY <1>4, <1>5, <1>6, <1>7, <2>1, SoundNow, FlagsStep
<1>8. CASE Becomes(T)
  <2>1. TableFlags(T, T) /\ SameOwners(T, T)
    BY TableAdvanceSame DEF SameOwners
  <2> QED BY <1>6, <1>7, <1>8, <2>1
<1>9. CASE t \in Requests /\ pc[t] = "post" /\ Becomes(signal_owners(T, t, sig[t]))
  <2> DEFINE U == signal_owners(T, t, sig[t])
  <2>1. T.pc[t] \in {"wait", "post"} /\ sig[t] \in Seq(Owners) /\ t \in Requests
    BY <1>0, <1>4, <1>6, <1>9, NowFields
  <2>2. /\ U \in GoodTable /\ TableFlags(T, U) /\ SameOwners(T, U)
        /\ \E where \in {"wait", "post"} : U.pc = [T.pc EXCEPT ![t] = where]
    BY <1>6, <2>1, SignalOwnersGood, SignalOwnersFlags
  <2>3. Becomes(U)
    BY <1>9
  <2> HIDE DEF U
  <2> QED BY <1>7, <2>1, <2>2, <2>3
<1>10. CASE t \in Processes /\ \E T1 \in blocking_action_thread(T, t) : Becomes(T1)
  <2>1. PICK U \in blocking_action_thread(T, t) : Becomes(U)
    BY <1>10
  <2>2. U \in GoodTable /\ TableFlags(T, U) /\ SameOwners(T, U) /\ U.pc = T.pc
    BY <1>6, <1>10, BlockingThreadGood, BlockingThreadFlags
  <2> QED BY <1>7, <2>1, <2>2
<1> QED BY <1>3, <1>8, <1>9, <1>10

\* A blocking thread wakes up.
LEMMA BlockingThreadWakesStep ==
  ASSUME Now \in SoundTable, NEW p \in Processes, BlockingThreadWakes(p)
  PROVE  NoMove(Now, Now')
<1> DEFINE b == [prc_blocking EXCEPT ![p] = FALSE]
           T == [Now EXCEPT !.prc_blocking = b]
<1>0. Now \in GoodTable
  BY SoundNow
<1>1. b \in [Processes -> BOOLEAN]
  BY <1>0, NowFields
<1>2. PICK U \in blocking_action_thread(T, p) : Becomes(U)
  BY DEF BlockingThreadWakes
<1> HIDE DEF b
<1>3. /\ T \in Table /\ T.lbl = Now.lbl /\ T.pc = Now.pc /\ T.dead = Now.dead
      /\ T.lhb_owners = Now.lhb_owners /\ T.own_count = Now.own_count
  BY <1>0, <1>1, NowFields DEF Table
<1> HIDE DEF T
<1>4. T \in GoodTable
  BY <1>0, <1>3, SameLocks
<1>5. U \in GoodTable /\ TableFlags(T, U) /\ SameOwners(T, U) /\ U.pc = T.pc
  BY <1>4, BlockingThreadGood, BlockingThreadFlags
<1> QED BY <1>2, <1>3, <1>4, <1>5, SoundNow, FlagsStep

\* A waiting thread is woken without a grant and tells the holders again.
LEMMA WaitWokenStep ==
  ASSUME Now \in SoundTable, NEW r \in Requests, WaitWoken(r)
  PROVE  NoMove(Now, Now')
<1> DEFINE T == DropFlags(Now, lrq_owner[r], {"wakeup"})
           U == post_blockage(T, r)
<1>1. pc[r] = "wait" /\ Becomes(U) /\ Now \in GoodTable /\ lrq_owner[r] \in Owners
  BY SoundNow, OwnerOfRequest DEF WaitWoken, Waiting
<1>2. T \in GoodTable /\ T.pc = Now.pc /\ T.lbl = Now.lbl
  BY <1>1, DropFlagsGood
<1>3. T.lhb_owners = Now.lhb_owners /\ T.own_count = Now.own_count
  BY DEF DropFlags, Now
<1> HIDE DEF T
<1>4. T.pc[r] \in {"wait", "post"}
  BY <1>1, <1>2, SoundNow
<1>5. /\ U \in GoodTable /\ TableFlags(T, U) /\ SameOwners(T, U)
      /\ \E where \in {"wait", "post"} : U.pc = [T.pc EXCEPT ![r] = where]
  BY <1>2, <1>4, PostBlockageGood, PostBlockageFlags
<1> HIDE DEF U
<1> QED BY <1>1, <1>2, <1>3, <1>4, <1>5, SoundNow, FlagsStep

\* create_owner: dead processes are purged, the owner is new.
LEMMA InitializeOwnerStep ==
  ASSUME Now \in SoundTable, NEW o \in Owners, InitializeOwner(o)
  PROVE  SoundStep(Now, Now', {}, DeadRequests(Now))
<1> DEFINE T == probe_processes(Now)
<1>1. /\ T \in GoodTable /\ Registered(T) /\ TableAdvance(Now, T, DeadRequests(Now))
      /\ \A x \in Requests : T.pc[x] = IF x \in DeadRequests(Now) THEN "free" ELSE Now.pc[x]
  BY SoundNow, ProbeProcessesAdvance
<1>2. Now' \in GoodTable
  BY SoundNow, InitializeOwnerGood
<1>3. T \in Table
  BY <1>1 DEF GoodTable
<1>4. /\ lbl' = T.lbl /\ pc' = T.pc /\ lhb_owners' = T.lhb_owners \cup {o}
      /\ own_count' = [T.own_count EXCEPT ![o] = 1]
  <2> HIDE DEF T
  <2>1. InitializeOwner(o) <=>
          o \notin T.lhb_owners /\ Becomes([T EXCEPT !.lhb_owners = @ \cup {o},
                             !.own_count = [@ EXCEPT ![o] = 1],
                             !.own_flags = [@ EXCEPT ![o] = {}],
                             !.own_blocks = [@ EXCEPT ![o] = << >>]])
    BY DEF InitializeOwner, T
  <2> QED BY <1>3, <2>1 DEF Becomes, Table
<1> HIDE DEF T
<1>5. /\ Now'.lbl = T.lbl /\ Now'.pc = T.pc /\ Now'.lhb_owners = T.lhb_owners \cup {o}
      /\ Now'.own_count = [T.own_count EXCEPT ![o] = 1]
  BY <1>4 DEF Now
<1>6. Registered(Now')
  BY <1>1, <1>3, <1>5 DEF Registered, Table
<1> DEFINE A == {}
           D == DeadRequests(Now)
           M == {}
<1>7. TableAdvance(Now, Now', A \cup D)
  BY <1>1, <1>5 DEF TableAdvance
<1>8. SamePlaces(Now, Now', A \cup D \cup M) /\ \A x \in D : Now'.pc[x] = "free"
  BY <1>1, <1>5 DEF SamePlaces, DeadRequests
<1>9. /\ A \in {{}} \cup {{r} : r \in Requests}
      /\ D = {} \/ D = DeadRequests(Now)
      /\ \A x \in (A \cup M) \cap Requests : ProperIn(Now', x)
      /\ \A x \in A : ActorMoves(Now, Now', x)
  OBVIOUS
<1> HIDE DEF A, D, M
<1>10. SoundStep(Now, Now', A, D)
  BY <1>2, <1>6, <1>7, <1>8, <1>9, SoundAfter
<1> QED BY <1>10 DEF A, D

---------------------------------------------------------------------------

\* A level that the state of a lock excludes is excluded by some holder.
LEMMA HolderInTheWay ==
  ASSUME NEW f \in [Requests -> Level], NEW type \in Level,
         ~compatibility(type, lock_state(HeldCounts(f)))
  PROVE  \E s \in Requests : ~compatibility(type, f[s]) /\ f[s] # LCK_none
<1>1. compatibility(type, LCK_none)
  BY DEF compatibility, Tolerates, Level
<1> QED BY <1>1, HeldCountsHighest

\* The count of pending requests is zero exactly when none is pending.
LEMMA NobodyWaits ==
  ASSUME NEW B \in GoodBlock
  PROVE  B.lbl_pending_lrq_count = 0 <=> \A x \in Requests : ~IsPending(B, x)
<1> DEFINE S == {x \in Requests : IsPending(B, x)}
<1>1. B.lbl_pending_lrq_count = Cardinality(S)
  BY DEF GoodBlock, BlockInv, CountsAgree
<1>2. IsFiniteSet(S)
  BY RequestSubsetsFinite
<1>3. Cardinality(S) = 0 <=> S = {}
  BY <1>2, FS_EmptySet
<1> QED BY <1>1, <1>3

\* An actor that leaves the table does nothing to the others.
LEMMA FreeActor ==
  ASSUME NEW T, NEW U \in GoodTable, NEW r \in Requests, U.pc[r] = "free"
  PROVE  ActorMoves(T, U, r) /\ ProperIn(U, r)
BY FreeProper DEF ActorMoves, NewWaiter

\* An actor that holds a level and does not wait is in nobody's way in the line.
LEMMA IdleActor ==
  ASSUME NEW T, NEW U, NEW r \in Requests,
         ~IsPending(BlockOf(U, r), r),
         BlockOf(T, r).lrq_state[r] # LCK_none
  PROVE  ActorMoves(T, U, r)
BY DEF ActorMoves, NewWaiter

\* A request in use that is not pending and asks for its level holds it.
LEMMA IdleHolds ==
  ASSUME Now \in SoundTable, NEW r \in Requests, pc[r] = "idle"
  PROVE  /\ ~IsPending(BlockOf(Now, r), r) /\ BlockOf(Now, r).lrq_state[r] # LCK_none
         /\ r \in Queued(BlockOf(Now, r)) /\ BlockOf(Now, r) \in GoodBlock
         /\ Now.pc[r] = "idle"
BY SoundNow, BlockOfGood DEF ProperIn

\* One call on a request, whose owner is in use.
LEMMA CallStep ==
  ASSUME Now \in SoundTable, NEW r \in Requests, Active(lrq_owner[r]),
         NEW U \in GoodTable, Becomes(U), TableAdvance(Now, U, {r}), SameOwners(Now, U),
         SamePlaces(Now, U, {r}), ProperIn(U, r), ActorMoves(Now, U, r)
  PROVE  SoundStep(Now, Now', {r}, {})
<1>1. Now' = U
  BY BecomesIs
<1>2. Registered(U)
  <2>1. lrq_owner[r] \in lhb_owners /\ own_count[lrq_owner[r]] > 0
    BY DEF Active
  <2>2. \A x \in Requests \ {r} : U.pc[x] # "free" => Now.pc[x] # "free"
    BY DEF SamePlaces
  <2> QED BY <2>1, <2>2, SoundNow DEF Registered, SameOwners
<1> DEFINE A == {r}
           D == {}
           M == {}
<1>3. /\ TableAdvance(Now, U, A \cup D) /\ SamePlaces(Now, U, A \cup D \cup M)
  BY DEF TableAdvance, SamePlaces
<1>4. /\ A \in {{}} \cup {{x} : x \in Requests}
      /\ D = {}
      /\ \A x \in D : U.pc[x] = "free"
      /\ \A x \in (A \cup M) \cap Requests : ProperIn(U, x)
      /\ \A x \in A : ActorMoves(Now, U, x)
  OBVIOUS
<1> HIDE DEF A, D, M
<1>5. SoundStep(Now, U, A, D)
  BY <1>2, <1>3, <1>4, SoundAfter
<1> QED BY <1>1, <1>5 DEF A, D

\* dequeue, and a downgrade to nothing.
LEMMA ReleaseStep ==
  ASSUME Now \in SoundTable, NEW r \in Requests, Active(lrq_owner[r]), pc[r] = "idle",
         Becomes(ReleaseRequest(Now, r))
  PROVE  SoundStep(Now, Now', {r}, {})
<1> DEFINE U == ReleaseRequest(Now, r)
<1>1. /\ U \in GoodTable /\ U.pc = [pc EXCEPT ![r] = "free"]
      /\ TableAdvance(Now, U, {r}) /\ SameOwners(Now, U)
  BY SoundNow, ReleaseRequestTable
<1>2. Becomes(U)
  OBVIOUS
<1> HIDE DEF U
<1>3. pc \in [Requests -> Place] /\ Now.pc = pc
  BY SoundNow, NowFields
<1>4. SamePlaces(Now, U, {r}) /\ U.pc[r] = "free"
  BY <1>1, <1>3 DEF SamePlaces
<1> QED BY <1>1, <1>2, <1>4, FreeActor, CallStep

\* internal_convert: granted beside everybody else, given up, or waiting for a holder
\* that excludes it.
LEMMA ConvertStep ==
  ASSUME Now \in SoundTable, NEW r \in Requests, Active(lrq_owner[r]), pc[r] = "idle",
         NEW type \in Level \ {LCK_none}, NEW lck_wait, internal_convert(r, type, lck_wait)
  PROVE  SoundStep(Now, Now', {r}, {})
<1> DEFINE A == BlockOf(Now, r)
           B == begin_convert(A, r, type)
           fits == compatibility(type, StateWithout(B, r))
<1>1. \/ fits /\ Becomes(GrantAndPost(Now, r, grant_convert(B, r)))
      \/ Becomes(WithBlock(Now, r, end_convert(B, r)))
      \/ ~fits /\ Becomes(begin_wait_for_request(Now, r, B, lck_wait = "timeout"))
  BY DEF internal_convert
<1>2. /\ A \in GoodBlock /\ r \in Queued(A) /\ Now.pc[r] = "idle"
      /\ ~IsPending(A, r) /\ A.lrq_state[r] # LCK_none /\ Now \in GoodTable /\ Now \in Table
      /\ Now.pc \in [Requests -> Place]
  BY IdleHolds, SoundNow, NowFields DEF GoodTable, Table
<1>3. /\ Keeps(A, B) /\ B \in GoodBlock /\ r \in Queued(B) /\ B.lrq_requested[r] = type
      /\ Advance(A, B, {r}) /\ B.lrq_state = A.lrq_state /\ ~IsPending(B, r)
      /\ B.lbl_counts = A.lbl_counts
  BY <1>2, BeginConvertGood, BeginConvertAdvance DEF Keeps
<1> HIDE DEF B, fits
<1>4. ASSUME fits, Becomes(GrantAndPost(Now, r, grant_convert(B, r)))
      PROVE  SoundStep(Now, Now', {r}, {})
  <2> DEFINE G == grant_convert(B, r)
             U == GrantAndPost(Now, r, G)
  <2>1. Keeps(A, G) /\ G \in GoodBlock
    BY <1>3, <1>4, GrantConvertGood DEF Keeps, fits
  <2>2. Advance(A, G, {r}) /\ G.lrq_state[r] = type /\ ~IsPending(G, r)
    <3>1. Advance(B, G, {r}) /\ G.lrq_state[r] = type /\ G.lrq_flags = B.lrq_flags
      BY <1>3, GrantConvertAdvance
    <3> HIDE DEF G
    <3> QED BY <1>3, <3>1, AdvanceTwice DEF IsPending
  <2>3. SameIn(G, post_pending(G), r)
    <3>1. Advance(G, post_pending(G), {})
      BY <2>1, PostPendingAdvance
    <3> QED BY <2>2, <3>1 DEF Advance, GrantedIn
  <2> HIDE DEF G
  <2>4. /\ U \in GoodTable /\ TableAdvance(Now, U, {r}) /\ U.pc = Now.pc /\ SameOwners(Now, U)
        /\ BlockOf(U, r) = post_pending(G)
    BY <1>2, <2>1, <2>2, GrantAndPostTable, GrantAndPostGood
  <2>5. Becomes(U)
    BY <1>4 DEF G
  <2> HIDE DEF U
  <2>6. ~IsPending(BlockOf(U, r), r) /\ BlockOf(U, r).lrq_state[r] = type
    BY <2>2, <2>3, <2>4 DEF SameIn
  <2>7. ProperIn(U, r)
    BY <2>6 DEF ProperIn
  <2>8. ActorMoves(Now, U, r)
    BY <1>2, <2>6, IdleActor
  <2>9. SamePlaces(Now, U, {r})
    BY <2>4 DEF SamePlaces
  <2> QED BY <2>4, <2>5, <2>7, <2>8, <2>9, CallStep
<1>5. ASSUME Becomes(WithBlock(Now, r, end_convert(B, r)))
      PROVE  SoundStep(Now, Now', {r}, {})
  <2> DEFINE G == end_convert(B, r)
             U == WithBlock(Now, r, G)
  <2>1. Keeps(A, G)
    BY <1>3, EndConvertGood DEF Keeps
  <2>2. Advance(A, G, {r}) /\ G.lrq_state[r] = A.lrq_state[r] /\ ~IsPending(G, r)
    <3>1. Advance(B, G, {r}) /\ G.lrq_state = B.lrq_state /\ G.lrq_flags = B.lrq_flags
      BY <1>3, EndConvertAdvance
    <3> HIDE DEF G
    <3> QED BY <1>3, <3>1, AdvanceTwice DEF IsPending
  <2> HIDE DEF G
  <2>3. /\ U \in GoodTable /\ U.pc = Now.pc /\ BlockOf(U, r) = G /\ SameOwners(Now, U)
        /\ TableAdvance(Now, U, {r})
    <3>1. U \in GoodTable /\ U.pc = Now.pc /\ BlockOf(U, r) = G
      BY <1>2, <2>1, WithBlockGood
    <3>2. SameOwners(Now, U)
      BY <1>2, WithBlockIs
    <3>3. TableAdvance(Now, U, {r})
      BY <1>2, <2>2, WithBlockAdvance
    <3> QED BY <3>1, <3>2, <3>3
  <2>4. Becomes(U)
    BY <1>5 DEF G
  <2> HIDE DEF U
  <2>5. ProperIn(U, r)
    BY <1>2, <2>2, <2>3 DEF ProperIn
  <2>6. ActorMoves(Now, U, r)
    BY <1>2, <2>2, <2>3, IdleActor
  <2>7. SamePlaces(Now, U, {r})
    BY <2>3 DEF SamePlaces
  <2> QED BY <2>3, <2>4, <2>5, <2>6, <2>7, CallStep
<1>6. ASSUME ~fits, Becomes(begin_wait_for_request(Now, r, B, lck_wait = "timeout"))
      PROVE  SoundStep(Now, Now', {r}, {})
  <2> DEFINE timed == lck_wait = "timeout"
             U == begin_wait_for_request(Now, r, B, timed)
             C == BlockOf(U, r)
  <2>1. timed \in BOOLEAN
    OBVIOUS
  <2> HIDE DEF timed
  <2>2. /\ U \in GoodTable /\ TableAdvance(Now, U, {r}) /\ SameOwners(Now, U)
        /\ SamePlaces(Now, U, {r}) /\ U.pc[r] \in {"wait", "post"}
        /\ C.lrq_state = B.lrq_state /\ C.lrq_requested = B.lrq_requested
        /\ IsPending(C, r) /\ ~Rejected(C, r)
    BY SMTT(30), <1>2, <1>3, <2>1, BeginWaitTable
  <2>3. Becomes(U)
    BY <1>6 DEF timed
  <2> HIDE DEF U
  <2>4. \E s \in Requests \ {r} : ~compatibility(type, A.lrq_state[s])
    <3> DEFINE f == [A.lrq_state EXCEPT ![r] = LCK_none]
    <3>1. A.lrq_state \in [Requests -> Level] /\ A.lbl_counts = HeldCounts(A.lrq_state)
      BY <1>2, GoodBlockCounts DEF Block
    <3>2. StateWithout(B, r) = lock_state(HeldCounts(f))
      BY <1>3, <3>1, HeldCountsErase DEF StateWithout
    <3>3. f \in [Requests -> Level]
      BY <3>1 DEF Level
    <3>4. f[r] = LCK_none /\ \A s \in Requests \ {r} : f[s] = A.lrq_state[s]
      BY <3>1
    <3> HIDE DEF f
    <3>5. PICK s \in Requests : ~compatibility(type, f[s]) /\ f[s] # LCK_none
      BY <1>6, <3>2, <3>3, HolderInTheWay DEF fits
    <3> QED BY <3>4, <3>5
  <2>5. PICK s \in Requests \ {r} : ~compatibility(type, A.lrq_state[s])
    BY <2>4
  <2>6. \E s1 \in Requests \ {r} : /\ lrq_lock[s1] = lrq_lock[r]
                                   /\ ~compatibility(C.lrq_requested[r], C.lrq_state[s1])
    <3>1. A.lrq_state[s] # LCK_none
      BY <2>5 DEF compatibility, Tolerates, Level
    <3>2. s \in Queued(A)
      BY <1>2, <3>1 DEF GoodBlock, BlockInv, OnlyQueuedCount
    <3>3. lrq_lock[s] = lrq_lock[r]
      BY <1>2, <3>2, QueuedHere
    <3> QED BY <1>3, <2>2, <2>5, <3>3
  <2>7. C.lrq_state[r] # LCK_none
    BY <1>2, <1>3, <2>2
  <2>8. ActorMoves(Now, U, r)
    BY <1>2, <2>6, <2>7 DEF ActorMoves, NewWaiter
  <2>9. ProperIn(U, r)
    BY <1>3, <2>2 DEF ProperIn
  <2> QED BY <2>2, <2>3, <2>8, <2>9, CallStep
<1> QED BY <1>1, <1>4, <1>5, <1>6

\* The block of a request being enqueued: its prior request is released.
LEMMA EnqueueBegins ==
  ASSUME Now \in SoundTable, NEW r \in Requests, pc[r] \in {"free", "idle"}
  PROVE  LET T == IF pc[r] = "idle" THEN ReleaseRequest(Now, r) ELSE Now
         IN  /\ T \in GoodTable /\ T.pc[r] = "free" /\ SameOwners(Now, T)
             /\ TableAdvance(Now, T, {r}) /\ SamePlaces(Now, T, {r})
             /\ ~IsPending(BlockOf(Now, r), r)
<1> DEFINE T == IF pc[r] = "idle" THEN ReleaseRequest(Now, r) ELSE Now
<1>1. Now \in GoodTable /\ Now.pc = pc /\ pc \in [Requests -> Place]
  BY SoundNow, NowFields
<1>2. ~IsPending(BlockOf(Now, r), r)
  BY <1>1, BlockOfGood
<1>3. CASE pc[r] = "idle"
  <2>1. /\ T \in GoodTable /\ T.pc = [Now.pc EXCEPT ![r] = "free"]
        /\ TableAdvance(Now, T, {r}) /\ SameOwners(Now, T)
    BY <1>1, <1>3, ReleaseRequestTable
  <2> HIDE DEF T
  <2> QED BY <1>1, <1>2, <2>1 DEF SamePlaces, T
<1>4. CASE pc[r] # "idle"
  <2>1. T = Now /\ pc[r] = "free"
    BY <1>4
  <2>2. TableAdvance(Now, Now, {r})
    BY TableAdvanceSame
  <2> HIDE DEF T
  <2> QED BY <1>1, <1>2, <2>1, <2>2 DEF SamePlaces, SameOwners, T
<1> QED BY <1>3, <1>4

\* enqueue: granted with nobody waiting, refused, or waiting at the end of the line for
\* a holder that excludes it or for those who wait already.
LEMMA EnqueueStep ==
  ASSUME Now \in SoundTable, NEW r \in Requests, NEW type \in Level \ {LCK_none}, NEW lck_wait,
         Enqueue(r, type, lck_wait)
  PROVE  SoundStep(Now, Now', {r}, {})
<1> DEFINE T == IF pc[r] = "idle" THEN ReleaseRequest(Now, r) ELSE Now
           A == BlockOf(T, r)
           B == insert_request(A, r, type)
           T1 == At(WithBlock(T, r, B), r, "idle")
<1>1. Active(lrq_owner[r]) /\ pc[r] \in {"free", "idle"}
  BY DEF Enqueue
<1>2. /\ T \in GoodTable /\ T \in Table /\ T.pc[r] = "free" /\ SameOwners(Now, T)
      /\ TableAdvance(Now, T, {r}) /\ SamePlaces(Now, T, {r})
      /\ ~IsPending(BlockOf(Now, r), r)
  BY <1>1, EnqueueBegins DEF GoodTable
<1>3. \/ grant_now(A, type) /\ Becomes(GrantAndPost(T1, r, grant(B, r)))
      \/ Becomes(ReleaseRequest(T1, r))
      \/ ~grant_now(A, type) /\ Becomes(begin_wait_for_request(T1, r, B, lck_wait = "timeout"))
  BY DEF Enqueue
<1> HIDE DEF T
<1>4. A \in GoodBlock /\ r \notin Queued(A) /\ lrq_lock[r] \in Locks
  BY <1>2, BlockOfGood
<1> HIDE DEF A
<1>5. /\ B \in GoodBlock /\ B \in Block
      /\ Queued(B) = Queued(A) \cup {r}
      /\ B.lrq_requested[r] = type
      /\ B.lrq_state[r] = LCK_none
      /\ B.lrq_state = A.lrq_state
      /\ ~IsPending(B, r)
      /\ \A x \in Requests : IsPending(B, x) => IsPending(A, x)
  BY <1>4, InsertRequestGood DEF GoodBlock
<1>6. /\ B.lbl_state = A.lbl_state
      /\ Advance(A, B, {r}) /\ LastIn(B, r) /\ ~Rejected(B, r)
  BY <1>4, <1>5, GoodBlockCounts, InsertAdvance
<1>7. \A x \in Requests \ {r} : IsPending(B, x) <=> IsPending(A, x)
  <2>1. \A x \in Requests \ {r} : B.lrq_flags[x] = A.lrq_flags[x]
    BY <1>4 DEF insert_request, GoodBlock, Block, B
  <2> QED BY <2>1 DEF IsPending
<1> HIDE DEF B
<1>8. /\ T1 \in Table /\ T1.lbl = [T.lbl EXCEPT ![lrq_lock[r]] = B]
      /\ T1.pc = [T.pc EXCEPT ![r] = "idle"] /\ T1.dead = T.dead /\ T1.pc[r] = "idle"
      /\ SameOwners(T, T1)
  BY <1>2, <1>4, <1>5 DEF At, WithBlock, Table, Place, SameOwners
<1>9. BlockOf(T1, r) = B
  BY <1>2, <1>4, <1>8 DEF BlockOf, Table
<1>10. TableAdvance(T, T1, {r})
  <2>1. TableAdvance(T, WithBlock(T, r, B), {r})
    BY <1>2, <1>6, WithBlockAdvance DEF A
  <2>2. T1.lbl = WithBlock(T, r, B).lbl
    BY DEF At, WithBlock
  <2> QED BY <2>1, <2>2 DEF TableAdvance
<1> HIDE DEF T1
<1>11. T1 \in GoodTable
  <2>1. Queued(B) \ {r} = Queued(BlockOf(T, r)) \ {r} /\ r \in Queued(B)
    BY <1>5 DEF A
  <2>2. \A x \in Requests \ {r} : IsPending(B, x) => IsPending(BlockOf(T, r), x)
    BY <1>5 DEF A
  <2> QED BY <1>2, <1>5, <1>8, <2>1, <2>2, MoveGood DEF Place
<1>12. TableAdvance(Now, T1, {r}) /\ SameOwners(Now, T1) /\ SamePlaces(Now, T1, {r})
  <2>1. TableAdvance(Now, T1, {r})
    BY <1>2, <1>10, TableAdvanceTwice
  <2>2. SamePlaces(Now, T1, {r})
    BY <1>2, <1>8 DEF SamePlaces, Table
  <2> QED BY <1>2, <1>8, <2>1, <2>2 DEF SameOwners
<1>13. ASSUME NEW U \in GoodTable, Becomes(U), TableAdvance(T1, U, {r}), SameOwners(T1, U),
              SamePlaces(T1, U, {r}), ProperIn(U, r), ActorMoves(Now, U, r)
       PROVE  SoundStep(Now, Now', {r}, {})
  <2>1. TableAdvance(Now, U, {r})
    BY <1>12, <1>13, TableAdvanceTwice
  <2>2. SameOwners(Now, U) /\ SamePlaces(Now, U, {r})
    BY <1>12, <1>13 DEF SameOwners, SamePlaces
  <2> QED BY <1>1, <1>13, <2>1, <2>2, CallStep
<1>14. ASSUME grant_now(A, type), Becomes(GrantAndPost(T1, r, grant(B, r)))
       PROVE  SoundStep(Now, Now', {r}, {})
  <2> DEFINE G == grant(B, r)
             U == GrantAndPost(T1, r, G)
  <2>1. Keeps(B, G) /\ G \in GoodBlock
    <3>1. compatibility(B.lrq_requested[r], B.lbl_state)
      BY <1>5, <1>6, <1>14 DEF grant_now
    <3> QED BY <1>5, <3>1, GrantGood DEF Keeps
  <2>2. Advance(B, G, {r}) /\ G.lrq_state[r] = type /\ G.lrq_flags = B.lrq_flags
    BY <1>5, GrantAdvance
  <2> HIDE DEF G
  <2>3. /\ U \in GoodTable /\ TableAdvance(T1, U, {r}) /\ U.pc = T1.pc /\ SameOwners(T1, U)
        /\ BlockOf(U, r) = post_pending(G)
    BY <1>8, <1>9, <1>11, <2>1, <2>2, GrantAndPostTable, GrantAndPostGood
  <2>4. Advance(G, post_pending(G), {})
    BY <2>1, PostPendingAdvance
  <2>5. Becomes(U)
    BY <1>14 DEF G
  <2> HIDE DEF U
  <2> DEFINE C == BlockOf(U, r)
  <2>6. /\ \A x \in Requests : IsPending(C, x) => IsPending(G, x)
        /\ ~IsPending(C, r) /\ C.lrq_state[r] = type
    <3>1. Advance(G, C, {})
      BY <2>3, <2>4
    <3>2. ~IsPending(G, r)
      BY <1>5, <2>2 DEF IsPending
    <3> HIDE DEF C
    <3> QED BY <2>2, <3>1, <3>2 DEF Advance, SameIn, GrantedIn
  <2>7. ProperIn(U, r)
    BY <2>6 DEF ProperIn
  <2>8. \A p \in Requests \ {r} : type > LCK_null => ~IsPending(C, p)
    <3> SUFFICES ASSUME NEW p \in Requests \ {r}, type > LCK_null, IsPending(C, p) PROVE FALSE
      OBVIOUS
    <3>1. A.lbl_pending_lrq_count = 0
      BY <1>14 DEF grant_now
    <3>2. ~IsPending(A, p)
      BY <1>4, <3>1, NobodyWaits
    <3>3. IsPending(B, p)
      BY <2>2, <2>6 DEF IsPending
    <3> QED BY <1>5, <3>2, <3>3
  <2>9. ActorMoves(Now, U, r)
    BY <2>6, <2>8 DEF ActorMoves, NewWaiter
  <2>10. SamePlaces(T1, U, {r})
    BY <2>3 DEF SamePlaces
  <2> QED BY <1>13, <2>3, <2>5, <2>7, <2>9, <2>10
<1>15. ASSUME Becomes(ReleaseRequest(T1, r))
       PROVE  SoundStep(Now, Now', {r}, {})
  <2> DEFINE U == ReleaseRequest(T1, r)
  <2>1. /\ U \in GoodTable /\ U.pc = [T1.pc EXCEPT ![r] = "free"]
        /\ TableAdvance(T1, U, {r}) /\ SameOwners(T1, U)
    BY <1>8, <1>11, ReleaseRequestTable
  <2>2. Becomes(U)
    BY <1>15
  <2> HIDE DEF U
  <2>3. SamePlaces(T1, U, {r}) /\ U.pc[r] = "free"
    BY <1>8, <2>1 DEF SamePlaces, Table
  <2> QED BY <1>13, <2>1, <2>2, <2>3, FreeActor
<1>16. ASSUME ~grant_now(A, type), Becomes(begin_wait_for_request(T1, r, B, lck_wait = "timeout"))
       PROVE  SoundStep(Now, Now', {r}, {})
  <2> DEFINE timed == lck_wait = "timeout"
             U == begin_wait_for_request(T1, r, B, timed)
             C == BlockOf(U, r)
  <2>1. timed \in BOOLEAN /\ Keeps(B, B) /\ Advance(B, B, {r})
    BY <1>5, AdvanceIdle DEF Keeps
  <2> HIDE DEF timed
  <2>10. /\ Keeps(BlockOf(T1, r), B) /\ Advance(BlockOf(T1, r), B, {r})
         /\ T1.pc[r] = "idle"
    BY <1>8, <1>9, <2>1
  <2>2. /\ U \in GoodTable /\ TableAdvance(T1, U, {r}) /\ SameOwners(T1, U)
        /\ SamePlaces(T1, U, {r}) /\ U.pc[r] \in {"wait", "post"}
        /\ C.lrq_state = B.lrq_state /\ C.lrq_requested = B.lrq_requested
        /\ IsPending(C, r) /\ ~Rejected(C, r)
    BY <1>11, <2>1, <2>10, BeginWaitTable
  <2>11. \A x \in Requests \ {r} : IsPending(B, x) => IsPending(C, x)
    BY <1>11, <2>1, <2>10, BeginWaitTable
  <2>12. LastIn(C, r)
    BY <1>5, <1>11, <2>1, <2>10, BeginWaitTable
  <2>3. Becomes(U)
    BY <1>16 DEF timed
  <2> HIDE DEF U
  <2>4. \E s \in Requests \ {r} :
           /\ s \in Queued(A)
           /\ ~compatibility(type, A.lrq_state[s]) \/ IsPending(A, s)
    <3>1. CASE ~compatibility(type, A.lbl_state)
      <4>1. A.lrq_state \in [Requests -> Level] /\ A.lbl_state = lock_state(HeldCounts(A.lrq_state))
        BY <1>4, GoodBlockCounts DEF Block
      <4>2. PICK s \in Requests : ~compatibility(type, A.lrq_state[s]) /\ A.lrq_state[s] # LCK_none
        BY <3>1, <4>1, HolderInTheWay
      <4>3. s \in Queued(A)
        BY <1>4, <4>2 DEF GoodBlock, BlockInv, OnlyQueuedCount
      <4> QED BY <1>4, <4>2, <4>3
    <3>2. CASE A.lbl_pending_lrq_count # 0
      <4>1. PICK s \in Requests : IsPending(A, s)
        BY <1>4, <3>2, NobodyWaits
      <4>2. s \in Queued(A)
        BY <1>4, <4>1 DEF GoodBlock, BlockInv, OnlyQueuedCount
      <4> QED BY <1>4, <4>1, <4>2
    <3> QED BY <1>16, <3>1, <3>2 DEF grant_now
  <2>5. PICK s \in Requests \ {r} :
           /\ s \in Queued(A)
           /\ ~compatibility(type, A.lrq_state[s]) \/ IsPending(A, s)
    BY <2>4
  <2>6. lrq_lock[s] = lrq_lock[r]
    BY <1>2, <2>5, QueuedHere DEF A
  <2>7. /\ ~compatibility(C.lrq_requested[r], C.lrq_state[s]) \/ IsPending(C, s)
        /\ C.lrq_state[r] = LCK_none
    BY <1>5, <1>7, <2>2, <2>5, <2>11
  <2>8. ActorMoves(Now, U, r)
    <3>1. NewWaiter(C, r) => ~NewWaiter(BlockOf(Now, r), r) /\ LastIn(C, r)
      BY <1>2, <2>12 DEF NewWaiter
    <3> HIDE DEF C
    <3> QED BY <2>6, <2>7, <3>1 DEF ActorMoves, C
  <2>9. ProperIn(U, r)
    BY <1>5, <2>2 DEF ProperIn
  <2> QED BY <1>13, <2>2, <2>3, <2>8, <2>9
<1> QED BY <1>3, <1>14, <1>15, <1>16

\* downgrade releases the lock, or converts it without waiting.
LEMMA DowngradeStep ==
  ASSUME Now \in SoundTable, NEW r \in Requests, Downgrade(r)
  PROVE  SoundStep(Now, Now', {r}, {})
<1> DEFINE to == DowngradeTo(BlockOf(Now, r), r)
<1>1. to \in Level
  BY SoundNow, BlockOfGood, DowngradeToType
<1>2. /\ pc[r] = "idle" /\ Active(lrq_owner[r])
      /\ \/ Becomes(ReleaseRequest(Now, r))
         \/ to > LCK_null /\ internal_convert(r, to, "no_wait")
  BY DEF Downgrade
<1> HIDE DEF to
<1>3. to > LCK_null => to \in Level \ {LCK_none}
  BY <1>1
<1> QED BY <1>2, <1>3, ReleaseStep, ConvertStep

\* Every call on a request is a sound step of that request.
LEMMA RequestStepStep ==
  ASSUME Now \in SoundTable, NEW r \in Requests, RequestStep(r)
  PROVE  SoundStep(Now, Now', {r}, {})
<1>1. ASSUME NEW type \in RequestLevels[r], NEW lck_wait \in WaitModes[r],
             Enqueue(r, type, lck_wait) \/ Convert(r, type, lck_wait)
      PROVE  SoundStep(Now, Now', {r}, {})
  <2>1. type \in Level \ {LCK_none}
    BY ManagerAssumption DEF GrantedLevel, Level
  <2>2. CASE Enqueue(r, type, lck_wait)
    BY <2>1, <2>2, EnqueueStep
  <2>3. CASE Convert(r, type, lck_wait)
    <3>1. pc[r] = "idle" /\ Active(lrq_owner[r]) /\ internal_convert(r, type, lck_wait)
      BY <2>3 DEF Convert
    <3> QED BY <2>1, <3>1, ConvertStep
  <2> QED BY <1>1, <2>2, <2>3
<1>2. ASSUME Dequeue(r) PROVE SoundStep(Now, Now', {r}, {})
  BY <1>2, ReleaseStep DEF Dequeue
<1> QED BY <1>1, <1>2, DowngradeStep DEF RequestStep

---------------------------------------------------------------------------

\* What is allowed on behalf of few requests is allowed on behalf of more.
LEMMA TableAdvanceMore ==
  ASSUME NEW T, NEW U, NEW A, NEW E, TableAdvance(T, U, A), A \subseteq E
  PROVE  TableAdvance(T, U, E)
BY AdvanceMore DEF TableAdvance

\* The thread waiting for r leaves wait_for_request, dead owners having been purged.
LEMMA WaitEndsStep ==
  ASSUME Now \in SoundTable, NEW W \in GoodTable, Registered(W),
         NEW r \in Requests, W.pc[r] \in {"wait", "post"}, ~IsPending(BlockOf(W, r), r),
         NEW A \in {{}, {r}}, NEW D, D = {} \/ D = DeadRequests(Now),
         TableAdvance(Now, W, A \cup D),
         \A x \in Requests : W.pc[x] = IF x \in D THEN "free" ELSE Now.pc[x],
         BlockOf(W, r).lrq_state[r] # LCK_none \/ Rejected(BlockOf(W, r), r),
         A = {} => ~Rejected(BlockOf(W, r), r),
         r \in A => BlockOf(W, r).lrq_state[r] = BlockOf(Now, r).lrq_state[r],
         Becomes(end_wait_for_request(W, r))
  PROVE  SoundStep(Now, Now', A, D)
<1> DEFINE U == end_wait_for_request(W, r)
           M == {r}
           C == BlockOf(U, r)
           B == BlockOf(W, r)
<1>1. U \in GoodTable /\ TableAdvance(W, U, {r}) /\ SameOwners(W, U) /\ SamePlaces(W, U, {r})
  BY EndWaitTable
<1>2. \/ ~Rejected(B, r) /\ TableFlags(W, U) /\ U.pc[r] = "idle"
      \/ Rejected(B, r) /\ U.pc[r] = "free"
      \/ /\ Rejected(B, r) /\ U.pc[r] = "idle" /\ B.lrq_state[r] # LCK_none
         /\ C.lrq_state[r] = B.lrq_state[r] /\ ~IsPending(C, r)
  BY EndWaitTable
<1>3. Now' = U
  BY <1>1, BecomesIs
<1>4. Becomes(U)
  OBVIOUS
<1> HIDE DEF U
<1>5. r \notin D
  OBVIOUS
<1>6. TableAdvance(Now, U, A \cup D)
  <2>1. CASE A = {r}
    BY <1>1, <2>1, TableAdvanceMore, TableAdvanceTwice
  <2>2. CASE A = {}
    <3>1. TableFlags(W, U)
      BY <1>2, <2>2
    <3> QED BY <3>1, TableFlagsAdvance, TableAdvanceTwice
  <2> QED BY <2>1, <2>2
<1>7. SamePlaces(Now, U, A \cup D \cup M) /\ \A x \in D \cap Requests : U.pc[x] = "free"
  BY <1>1, <1>5 DEF SamePlaces
<1>8. Registered(U)
  <2>1. \A x \in Requests : U.pc[x] # "free" => W.pc[x] # "free"
    BY <1>1 DEF SamePlaces
  <2> QED BY <1>1, <2>1, RegisteredKept
<1>9. U.pc[r] # "free" => ~IsPending(C, r) /\ C.lrq_state[r] = B.lrq_state[r]
  <2>1. CASE TableFlags(W, U)
    <3>1. FlagsOnly(B, C)
      BY <2>1, OwnerOfRequest DEF TableFlags, BlockOf
    <3> QED BY <3>1 DEF FlagsOnly
  <2> QED BY <1>2, <2>1
<1> HIDE DEF C
<1>10. ProperIn(U, r)
  <2>1. CASE U.pc[r] = "free"
    BY <1>1, <2>1, FreeProper
  <2>2. CASE U.pc[r] # "free"
    <3>1. B.lrq_state[r] # LCK_none
      BY <1>2, <2>2
    <3> QED BY <1>9, <2>2, <3>1 DEF ProperIn, C
  <2> QED BY <2>1, <2>2
<1>11. r \in A => ActorMoves(Now, U, r)
  <2>1. CASE U.pc[r] = "free"
    BY <1>1, <2>1, FreeActor
  <2>2. CASE U.pc[r] # "free"
    BY <1>9, <2>2 DEF ActorMoves, NewWaiter, C
  <2> QED BY <2>1, <2>2
<1>12. /\ A \in {{}} \cup {{x} : x \in Requests}
       /\ \A x \in D : U.pc[x] = "free"
       /\ \A x \in (A \cup M) \cap Requests : ProperIn(U, x)
       /\ \A x \in A : ActorMoves(Now, U, x)
  BY <1>7, <1>10, <1>11 DEF DeadRequests
<1> HIDE DEF M
<1>13. SoundStep(Now, U, A, D)
  BY <1>1, <1>6, <1>7, <1>8, <1>12, SoundAfter
<1> QED BY <1>3, <1>13

\* The thread finds its request granted, or rejected by somebody's deadlock scan.
LEMMA WaitResolvedStep ==
  ASSUME Now \in SoundTable, NEW r \in Requests, WaitResolved(r)
  PROVE  SoundStep(Now, Now', {r}, {})
<1>1. /\ pc[r] = "wait" /\ ~IsPending(BlockOf(Now, r), r)
      /\ Becomes(end_wait_for_request(Now, r)) /\ Now.pc = pc
      /\ Now \in GoodTable /\ Registered(Now) /\ ProperIn(Now, r)
  BY SoundNow DEF WaitResolved, Waiting
<1>2. BlockOf(Now, r).lrq_state[r] # LCK_none \/ Rejected(BlockOf(Now, r), r)
  BY <1>1 DEF ProperIn
<1> DEFINE A == {r}
           D == {}
<1>3. TableAdvance(Now, Now, A \cup D)
  BY TableAdvanceSame
<1>4. /\ A \in {{}, {r}}
      /\ D = {}
      /\ A # {}
      /\ \A x \in Requests : Now.pc[x] = IF x \in D THEN "free" ELSE Now.pc[x]
      /\ Now.pc[r] \in {"wait", "post"}
  BY <1>1
<1> HIDE DEF A, D
<1>5. SoundStep(Now, Now', A, D)
  BY <1>1, <1>2, <1>3, <1>4, WaitEndsStep
<1> QED BY <1>5 DEF A, D

\* A scan, or a timeout, begins by purging the owners of dead processes.
LEMMA PurgeFirst ==
  ASSUME Now \in SoundTable, NEW r \in Requests, Waiting(r)
  PROVE  LET T == probe_processes(Now)
             D == DeadRequests(Now)
         IN  /\ T \in GoodTable /\ Registered(T) /\ TableAdvance(Now, T, D)
             /\ \A x \in Requests : T.pc[x] = IF x \in D THEN "free" ELSE Now.pc[x]
             /\ r \notin D /\ T.pc[r] = "wait" /\ Now.pc[r] = "wait"
<1>1. ProcessOf(r) = own_process[lrq_owner[r]]
  BY ManagerAssumption DEF ProcessOf
<1>2. r \notin DeadRequests(Now) /\ Now.pc[r] = "wait"
  BY <1>1, SoundNow DEF Waiting, DeadRequests
<1> QED BY <1>2, SoundNow, ProbeProcessesAdvance

\* The purge before a scan grants the request: its thread leaves.
LEMMA WaitScanResolvedStep ==
  ASSUME Now \in SoundTable, NEW r \in Requests, WaitScanResolved(r)
  PROVE  SoundStep(Now, Now', {}, DeadRequests(Now))
<1> DEFINE T == probe_processes(Now)
           A == {}
           D == DeadRequests(Now)
<1>1. /\ Waiting(r) /\ IsPending(BlockOf(Now, r), r)
      /\ ~IsPending(BlockOf(T, r), r) /\ Becomes(end_wait_for_request(T, r))
  BY DEF WaitScanResolved, ScanDue
<1>2. /\ T \in GoodTable /\ Registered(T) /\ TableAdvance(Now, T, D)
      /\ \A x \in Requests : T.pc[x] = IF x \in D THEN "free" ELSE Now.pc[x]
      /\ r \notin D /\ T.pc[r] = "wait"
  BY <1>1, PurgeFirst
<1> HIDE DEF T
<1>3. /\ BlockOf(T, r).lrq_state[r] # LCK_none
      /\ ~Rejected(BlockOf(T, r), r)
  <2>1. Now \in GoodTable /\ ProperIn(Now, r)
    BY SoundNow
  <2>2. Advance(BlockOf(Now, r), BlockOf(T, r), D)
    BY <1>2, OwnerOfRequest DEF TableAdvance, BlockOf
  <2>3. r \in Queued(BlockOf(Now, r))
    BY <1>1, <2>1, QueuedHere
  <2> QED BY <1>1, <1>2, <2>1, <2>2, <2>3 DEF Advance, SameIn, GrantedIn, ProperIn
<1>4. /\ A \in {{}, {r}}
      /\ r \notin A
      /\ T.pc[r] \in {"wait", "post"}
      /\ D = DeadRequests(Now)
      /\ TableAdvance(Now, T, A \cup D)
  BY <1>2 DEF TableAdvance
<1> HIDE DEF A, D
<1>5. SoundStep(Now, Now', A, D)
  BY <1>1, <1>2, <1>3, <1>4, WaitEndsStep
<1> QED BY <1>5 DEF A, D

\* A timeout or a cancellation: the request is rejected, dead processes are purged, the
\* thread leaves.
LEMMA WaitRejectedStep ==
  ASSUME Now \in SoundTable, NEW r \in Requests, WaitRejected(r)
  PROVE  SoundStep(Now, Now', {r}, DeadRequests(Now))
<1> DEFINE o == lrq_owner[r]
           T == DropFlags(Now, o, {"wakeup"})
           B == reject(BlockOf(T, r), r)
           V == WithBlock(T, r, B)
           W == probe_processes(V)
           A == {r}
           D == DeadRequests(Now)
<1>0. Now \in GoodTable /\ o \in Owners /\ Registered(Now)
  BY SoundNow, OwnerOfRequest
<1>1. T \in GoodTable /\ T \in Table /\ T.lbl = Now.lbl /\ T.pc = Now.pc
  BY <1>0, DropFlagsGood DEF GoodTable
<1>2. SameOwners(Now, T) /\ T.dead = Now.dead
  BY DEF DropFlags, Now, SameOwners
<1>3. /\ Waiting(r) /\ IsPending(BlockOf(T, r), r) /\ BlockOf(T, r) = BlockOf(Now, r)
      /\ Becomes(end_wait_for_request(W, r))
  BY <1>1 DEF WaitRejected, BlockOf
<1> HIDE DEF T
<1>4. BlockOf(T, r) \in GoodBlock /\ r \in Queued(BlockOf(T, r)) /\ lrq_lock[r] \in Locks
  BY <1>1, <1>3, BlockOfGood, QueuedHere
<1>5. /\ Keeps(BlockOf(T, r), B) /\ ~IsPending(B, r) /\ Rejected(B, r)
      /\ Advance(BlockOf(T, r), B, {r}) /\ B.lrq_state = BlockOf(T, r).lrq_state
  BY <1>3, <1>4, RejectGood, RejectAdvance
<1> HIDE DEF B
<1>6. V \in GoodTable /\ V.pc = T.pc /\ BlockOf(V, r) = B
  BY <1>1, <1>5, WithBlockGood
<1>7. SameOwners(T, V) /\ V.dead = T.dead
  BY <1>1, WithBlockIs
<1>8. TableAdvance(T, V, {r})
  BY <1>1, <1>5, WithBlockAdvance
<1> HIDE DEF V
<1>9. Registered(V) /\ DeadRequests(V) = D
  <2>1. SameOwners(Now, V) /\ V.pc = Now.pc
    BY <1>1, <1>2, <1>6, <1>7 DEF SameOwners
  <2> QED BY <1>0, <1>2, <1>7, <2>1, RegisteredKept DEF DeadRequests
<1>10. /\ W \in GoodTable /\ Registered(W) /\ TableAdvance(V, W, D)
       /\ \A x \in Requests : W.pc[x] = IF x \in D THEN "free" ELSE V.pc[x]
  BY <1>6, <1>9, ProbeProcessesAdvance
<1>11. r \notin D /\ Now.pc[r] = "wait"
  BY <1>3, PurgeFirst
<1> HIDE DEF W
<1>12. /\ ~IsPending(BlockOf(W, r), r) /\ Rejected(BlockOf(W, r), r)
       /\ BlockOf(W, r).lrq_state[r] = BlockOf(Now, r).lrq_state[r]
  <2>1. Advance(B, BlockOf(W, r), D)
    BY <1>4, <1>6, <1>10 DEF TableAdvance, BlockOf
  <2>2. SameIn(B, BlockOf(W, r), r)
    BY <1>5, <1>11, <2>1 DEF Advance, GrantedIn
  <2>3. r \in Queued(B)
    BY <1>4, <1>5 DEF Keeps
  <2> QED BY <1>3, <1>5, <1>11, <2>1, <2>2, <2>3 DEF Advance, SameIn
<1>13. TableAdvance(Now, W, A \cup D)
  <2>1. TableAdvance(Now, V, {r})
    BY <1>1, <1>8 DEF TableAdvance
  <2>2. TableAdvance(Now, V, A \cup D) /\ TableAdvance(V, W, A \cup D)
    BY <1>10, <2>1, TableAdvanceMore
  <2> QED BY <2>2, TableAdvanceTwice
<1>14. /\ \A x \in Requests : W.pc[x] = IF x \in D THEN "free" ELSE Now.pc[x]
       /\ W.pc[r] \in {"wait", "post"}
  BY <1>1, <1>6, <1>10, <1>11
<1>15. /\ A \in {{}, {r}}
       /\ A # {}
       /\ D = DeadRequests(Now)
  OBVIOUS
<1> HIDE DEF A, D
<1>16. SoundStep(Now, Now', A, D)
  BY <1>3, <1>10, <1>12, <1>13, <1>14, <1>15, WaitEndsStep
<1> QED BY <1>16 DEF A, D

\* A deadlock is found: its victim is the actor, whoever scanned.
LEMMA WaitScanDeadlockStep ==
  ASSUME Now \in SoundTable, NEW r \in Requests, WaitScanDeadlock(r)
  PROVE  \E v \in Requests : SoundStep(Now, Now', {v}, DeadRequests(Now))
<1> DEFINE P == probe_processes(Now)
           D == DeadRequests(Now)
<1>1. Waiting(r)
  BY DEF WaitScanDeadlock, ScanDue
<1>2. PICK v \in deadlock_walk(P, r) :
        LET T1 == DropFlags(WithBlock(P, v, reject(BlockOf(P, v), v)),
                            lrq_owner[v], {"scanned"})
        IN  Becomes(IF v = r THEN end_wait_for_request(T1, r) ELSE post_wakeup(T1, {v}))
  BY DEF WaitScanDeadlock
<1>3. /\ P \in GoodTable /\ P \in Table /\ Registered(P) /\ TableAdvance(Now, P, D)
      /\ \A x \in Requests : P.pc[x] = IF x \in D THEN "free" ELSE Now.pc[x]
      /\ r \notin D /\ P.pc[r] = "wait"
  BY <1>1, PurgeFirst DEF GoodTable
<1>4. v \in Requests /\ IsPending(BlockOf(P, v), v)
  BY <1>2 DEF deadlock_walk
<1> HIDE DEF P
<1> DEFINE B == reject(BlockOf(P, v), v)
           V == WithBlock(P, v, B)
           T1 == DropFlags(V, lrq_owner[v], {"scanned"})
           A == {v}
<1>5. /\ BlockOf(P, v) \in GoodBlock /\ v \in Queued(BlockOf(P, v)) /\ lrq_lock[v] \in Locks
      /\ P.pc[v] \in {"wait", "post"}
  BY <1>3, <1>4, BlockOfGood, QueuedHere
<1>6. /\ Keeps(BlockOf(P, v), B) /\ ~IsPending(B, v) /\ Rejected(B, v)
      /\ Advance(BlockOf(P, v), B, {v}) /\ B.lrq_state = BlockOf(P, v).lrq_state
  BY <1>4, <1>5, RejectGood, RejectAdvance
<1>7. Becomes(IF v = r THEN end_wait_for_request(T1, r) ELSE post_wakeup(T1, {v}))
  BY <1>2
<1> HIDE DEF B
<1>8. V \in GoodTable /\ V.pc = P.pc /\ BlockOf(V, v) = B
  BY <1>3, <1>4, <1>6, WithBlockGood
<1>9. SameOwners(P, V)
  BY <1>3, <1>4, WithBlockIs
<1>10. TableAdvance(P, V, {v})
  BY <1>3, <1>4, <1>6, WithBlockAdvance
<1> HIDE DEF V
<1>11. T1 \in GoodTable /\ T1 \in Table /\ T1.pc = P.pc /\ T1.lbl = V.lbl /\ BlockOf(T1, v) = B
  BY <1>4, <1>8, DropFlagsGood, OwnerOfRequest DEF GoodTable, BlockOf
<1>12. SameOwners(P, T1)
  <2>1. V \in Table
    BY <1>8 DEF GoodTable
  <2> QED BY <1>9, <2>1 DEF DropFlags, SameOwners, Table
<1> HIDE DEF T1
<1>13. Registered(T1)
  BY <1>3, <1>11, <1>12, RegisteredKept
<1>14. TableAdvance(Now, T1, A \cup D)
  <2>1. TableAdvance(P, T1, A)
    BY <1>10, <1>11 DEF TableAdvance
  <2>2. TableAdvance(Now, P, A \cup D) /\ TableAdvance(P, T1, A \cup D)
    BY <1>3, <2>1, TableAdvanceMore
  <2> QED BY <2>2, TableAdvanceTwice
<1>15. v \notin D /\ ProperIn(Now, v) /\ Now \in GoodTable /\ IsPending(BlockOf(Now, v), v)
       /\ BlockOf(P, v).lrq_state[v] = BlockOf(Now, v).lrq_state[v]
  <2>1. v \notin D
    BY <1>3, <1>4, <1>5
  <2>2. Advance(BlockOf(Now, v), BlockOf(P, v), D)
    BY <1>3, <1>5 DEF TableAdvance, BlockOf
  <2> QED BY <1>4, <2>1, <2>2, SoundNow DEF Advance, SameIn, GrantedIn
<1>16. /\ A \in {{}} \cup {{x} : x \in Requests}
       /\ D = DeadRequests(Now)
       /\ \A x \in Requests : T1.pc[x] = IF x \in D THEN "free" ELSE Now.pc[x]
       /\ T1.pc[v] \in {"wait", "post"}
       /\ D \subseteq Requests
  BY <1>3, <1>4, <1>5, <1>11 DEF DeadRequests
<1> HIDE DEF D
<1>17. CASE v = r
  <2>1. Becomes(end_wait_for_request(T1, v))
    BY <1>7, <1>17
  <2>2. /\ ~IsPending(BlockOf(T1, v), v) /\ Rejected(BlockOf(T1, v), v)
        /\ BlockOf(T1, v).lrq_state[v] = BlockOf(Now, v).lrq_state[v]
    BY <1>6, <1>11, <1>15
  <2>3. A \in {{}, {v}} /\ A # {}
    OBVIOUS
  <2> HIDE DEF A
  <2>4. SoundStep(Now, Now', A, D)
    BY <1>4, <1>11, <1>13, <1>14, <1>16, <2>1, <2>2, <2>3, WaitEndsStep
  <2> QED BY <1>4, <2>4 DEF A, D
<1>18. CASE v # r
  <2> DEFINE U == post_wakeup(T1, {v})
             M == {}
  <2>1. U \in GoodTable /\ U.lbl = T1.lbl /\ U.pc = T1.pc /\ SameOwners(T1, U)
    BY <1>11, PostWakeupIs, PostWakeupGood
  <2>2. Becomes(U)
    BY <1>7, <1>18
  <2> HIDE DEF U
  <2>3. Now' = U
    BY <2>1, <2>2, BecomesIs
  <2>4. Registered(U)
    BY <1>13, <2>1, RegisteredKept
  <2>5. TableAdvance(Now, U, A \cup D) /\ BlockOf(U, v) = B
    BY <1>11, <1>14, <2>1 DEF TableAdvance, BlockOf
  <2>6. SamePlaces(Now, U, A \cup D \cup M) /\ \A x \in D : U.pc[x] = "free"
    BY <1>16, <2>1 DEF SamePlaces
  <2>7. ProperIn(U, v)
    BY <1>6, <1>16, <2>1, <2>5 DEF ProperIn
  <2>8. ActorMoves(Now, U, v)
    BY <1>6, <1>15, <2>5 DEF ActorMoves, NewWaiter
  <2>9. /\ \A x \in (A \cup M) \cap Requests : ProperIn(U, x)
        /\ \A x \in A : ActorMoves(Now, U, x)
    BY <2>7, <2>8
  <2> HIDE DEF A, M
  <2>10. SoundStep(Now, U, A, D)
    BY <1>16, <2>1, <2>4, <2>5, <2>6, <2>9, SoundAfter
  <2> QED BY <1>4, <2>3, <2>10 DEF A, D
<1> QED BY <1>17, <1>18

\* No deadlock is found; the holders are told again.
LEMMA WaitScanRepostStep ==
  ASSUME Now \in SoundTable, NEW r \in Requests, WaitScanRepost(r)
  PROVE  SoundStep(Now, Now', {}, DeadRequests(Now))
<1> DEFINE P == probe_processes(Now)
           o == lrq_owner[r]
           certain == Scannable(P, r) /\ ~maybe_deadlock(P, r)
           F == [P.own_flags EXCEPT ![o] = P.own_flags[o] \cup (IF certain THEN {"scanned"} ELSE {})]
           T1 == [P EXCEPT !.own_flags = F]
           U == post_blockage(T1, r)
           A == {}
           D == DeadRequests(Now)
           M == {}
<1>1. Waiting(r)
  BY DEF WaitScanRepost, ScanDue
<1>2. /\ P \in GoodTable /\ P \in Table /\ Registered(P) /\ TableAdvance(Now, P, D)
      /\ \A x \in Requests : P.pc[x] = IF x \in D THEN "free" ELSE Now.pc[x]
      /\ r \notin D /\ P.pc[r] = "wait" /\ o \in Owners
  BY <1>1, PurgeFirst, OwnerOfRequest DEF GoodTable
<1>3. Becomes(U)
  BY DEF WaitScanRepost, ScanAndRepost
<1> HIDE DEF P, certain
<1>4. F \in [Owners -> SUBSET OwnFlag]
  BY <1>2 DEF Table, OwnFlag
<1> HIDE DEF F
<1>5. T1 \in Table /\ T1.lbl = P.lbl /\ T1.pc = P.pc /\ T1.dead = P.dead /\ SameOwners(P, T1)
  BY <1>2, <1>4 DEF Table, SameOwners
<1> HIDE DEF T1
<1>6. T1 \in GoodTable
  BY <1>2, <1>5, SameLocks
<1>7. /\ U \in GoodTable /\ TableFlags(T1, U) /\ SameOwners(T1, U)
      /\ \E where \in {"wait", "post"} : U.pc = [T1.pc EXCEPT ![r] = where]
  BY <1>2, <1>5, <1>6, PostBlockageGood, PostBlockageFlags
<1> HIDE DEF U
<1>8. Now' = U
  BY <1>3, <1>7, BecomesIs
<1>9. SamePlaces(T1, U, {}) /\ T1.pc \in [Requests -> Place]
  BY <1>2, <1>5, <1>7 DEF SamePlaces, Table
<1>10. Registered(U)
  <2>1. SameOwners(P, U) /\ \A x \in Requests : U.pc[x] # "free" => P.pc[x] # "free"
    BY <1>5, <1>7, <1>9 DEF SameOwners, SamePlaces
  <2> QED BY <1>2, <2>1, RegisteredKept
<1>11. TableAdvance(Now, U, A \cup D)
  <2>1. TableFlags(P, U)
    BY <1>5, <1>7 DEF TableFlags
  <2>2. TableAdvance(Now, U, D)
    BY <1>2, <2>1, TableFlagsAdvance, TableAdvanceTwice
  <2> QED BY <2>2 DEF TableAdvance
<1>12. SamePlaces(Now, U, A \cup D \cup M) /\ \A x \in D : U.pc[x] = "free"
  BY <1>2, <1>5, <1>9 DEF SamePlaces, DeadRequests
<1>13. /\ A \in {{}} \cup {{x} : x \in Requests}
       /\ D = DeadRequests(Now)
       /\ \A x \in (A \cup M) \cap Requests : ProperIn(U, x)
       /\ \A x \in A : ActorMoves(Now, U, x)
  OBVIOUS
<1> HIDE DEF A, D, M
<1>14. SoundStep(Now, U, A, D)
  BY <1>7, <1>10, <1>11, <1>12, <1>13, SoundAfter
<1> QED BY <1>8, <1>14 DEF A, D

---------------------------------------------------------------------------

\* Every step of the lock manager is a sound one.
LEMMA SoundNext ==
  ASSUME Now \in SoundTable, Next
  PROVE  \E A, D : SoundStep(Now, Now', A, D)
<1>1. ASSUME NEW o \in Owners, OwnerStep(o) PROVE \E A, D : SoundStep(Now, Now', A, D)
  BY <1>1, InitializeAgainStep, InitializeOwnerStep, ShutdownOwnerStep, PurgeOwnerStep,
     RepostAstStep, CancelWaitStep DEF OwnerStep, NoMove
<1>2. ASSUME NEW r \in Requests, RequestStep(r) PROVE \E A, D : SoundStep(Now, Now', A, D)
  BY <1>2, RequestStepStep
<1>3. ASSUME NEW r \in Requests, WaitStep(r) PROVE \E A, D : SoundStep(Now, Now', A, D)
  BY <1>3, WaitResolvedStep, WaitWokenStep, WaitRejectedStep, WaitScanResolvedStep,
     WaitScanDeadlockStep, WaitScanRepostStep DEF WaitStep, NoMove
<1>4. ASSUME NEW t \in Threads, AstReturns(t) PROVE \E A, D : SoundStep(Now, Now', A, D)
  BY <1>4, AstReturnsStep DEF NoMove
<1>5. ASSUME NEW p \in Processes, ProcessDies(p) \/ BlockingThreadWakes(p)
      PROVE  \E A, D : SoundStep(Now, Now', A, D)
  BY <1>5, ProcessDiesStep, BlockingThreadWakesStep DEF NoMove
<1> QED BY <1>1, <1>2, <1>3, <1>4, <1>5 DEF Next

\* An empty lock table is sound, and an initial state of the service.
LEMMA SoundInit ==
  ASSUME Init
  PROVE  Now \in SoundTable /\ Service!Init
<1>1. Now \in GoodTable
  BY InitGood
<1>2. \A x \in Requests : Now.pc[x] = "free"
  BY DEF Init, Now
<1>3. Now \in SoundTable
  BY <1>1, <1>2, FreeProper DEF SoundTable, Registered
<1>4. \A x \in Requests : /\ HeldBy(Now, x) = LCK_none /\ WantedBy(Now, x) = LCK_none
                          /\ AheadOf(Now, x) = {}
  BY <1>1, <1>2, FreeProper DEF HeldBy, WantedBy, AheadOf, NewWaiter
<1> QED BY <1>3, <1>4 DEF Service!Init, Service!LCK_none

\* A request that waits asks for something and is not rejected, one in use that does not
\* wait holds a level, and no request outlives its owner's registration, whichever threads
\* run and whichever processes die: the invariant behind the refinement.
THEOREM TableSound == Spec => [](Now \in SoundTable)
<1>1. Init => Now \in SoundTable
  BY SoundInit
<1>2. Now \in SoundTable /\ [Next]_vars => (Now \in SoundTable)'
  <2>1. Now \in SoundTable /\ Next => Now' \in SoundTable
    BY SoundNext DEF SoundStep
  <2>2. UNCHANGED vars => Now' = Now
    BY DEF vars, Now
  <2> QED BY <2>1, <2>2
<1> QED BY <1>1, <1>2, PTL DEF Spec

\* The lock manager implements the lock service, for any number of owners, processes,
\* locks and requests: no holders that exclude each other, waiters served in the order of
\* their arrival, nobody made to wait for nothing, and nobody's lock touched but the
\* actor's, and those of a dead process.
THEOREM ServiceImplemented == Spec => ImplementsService
<1>1. Init => Service!Init
  BY SoundInit
<1>2. Now \in SoundTable /\ [Next]_vars => [Service!Next]_(Service!serviceVars)
  <2>1. Now \in SoundTable /\ Next => Service!Next
    BY SoundNext, ServiceStep
  <2>2. UNCHANGED vars => UNCHANGED Service!serviceVars
    <3>1. UNCHANGED vars => Now' = Now
      BY DEF vars, Now
    <3>2. Now' = Now => \A x \in Requests : /\ HeldBy(Now, x)' = HeldBy(Now, x)
                                            /\ WantedBy(Now, x)' = WantedBy(Now, x)
                                            /\ AheadOf(Now, x)' = AheadOf(Now, x)
      BY HeldWantedNow
    <3> QED BY <3>1, <3>2 DEF Service!serviceVars
  <2> QED BY <2>1, <2>2
<1> QED BY <1>1, <1>2, TableSound, PTL DEF Spec, ImplementsService, Service!ServiceSpec

-----------------------------------------------------------------------------
(* The head of the queue of a lock: whatever led here, the first pending    *)
(* request could not be granted, or stands behind a rejected one whose     *)
(* thread has yet to wake up and look at the queue.                        *)
(*                                                                         *)
(* The inductive invariant is QueueSound.  post_pending establishes it for *)
(* its lock (PostPendingHead); the routines that do not end in             *)
(* post_pending keep it: flags set by ASTs, a request that begins to wait, *)
(* a conversion refused at once, and a rejection.                          *)

\* What post_pending compares the request with: a conversion with the lock without it.
StateFor(B, x) == IF B.lrq_state[x] = LCK_none THEN B.lbl_state ELSE StateWithout(B, x)

Blocked(B, x) == ~compatibility(B.lrq_requested[x], StateFor(B, x))

Clashes(B, x) == ~compatibility(B.lrq_requested[x], B.lbl_state)

FirstPending(B, x) ==
  /\ x \in Queued(B) /\ IsPending(B, x)
  /\ \A p \in Requests : IsPending(B, p) => ~Before(B, p, x)

\* The first pending request cannot be granted, or stands behind a rejected one of S
\* that could not be granted when it was pending, and still cannot.
HeadBlocked(B, S) ==
  \A x \in Requests : FirstPending(B, x) =>
    \/ Blocked(B, x)
    \/ \E p \in S : Before(B, p, x) /\ Rejected(B, p) /\ Clashes(B, p)

\* A request neither pending nor rejected asks for what it has; F is left out.
SettledBut(B, F) ==
  \A x \in Queued(B) \ F :
    ~IsPending(B, x) /\ ~Rejected(B, x) => B.lrq_requested[x] = B.lrq_state[x]

\* The requests for the lock whose threads are not back from wait_for_request.
Asleep(T, l) == {p \in Requests : lrq_lock[p] = l /\ T.pc[p] # "idle"}

QueueSound(T) == \A l \in Locks : HeadBlocked(T.lbl[l], Asleep(T, l)) /\ SettledBut(T.lbl[l], {})

-------------------------------------------------------------------------
(* Blocks.                                                               *)

\* The request could be granted in C exactly if it could be in B.
SameFor(B, C, x) ==
  /\ Blocked(C, x) <=> Blocked(B, x)
  /\ Clashes(C, x) <=> Clashes(B, x)

\* Two blocks with the same holders have the same counts and state.
LEMMA SameHolders ==
  ASSUME NEW B \in GoodBlock, NEW C \in GoodBlock, C.lrq_state = B.lrq_state
  PROVE  /\ C.lbl_counts = B.lbl_counts /\ C.lbl_state = B.lbl_state
         /\ \A x : C.lrq_requested[x] = B.lrq_requested[x] => SameFor(B, C, x)
<1>1. C.lbl_counts = B.lbl_counts /\ C.lbl_state = B.lbl_state
  BY GoodBlockCounts
<1>2. \A x : StateFor(C, x) = StateFor(B, x)
  BY <1>1 DEF StateFor, StateWithout
<1> QED BY <1>1, <1>2 DEF SameFor, Blocked, Clashes

\* Who clashes with the others at the head of a conversion clashes with the lock: the
\* state without one holder is a level compatible with whatever goes with the state.
LEMMA BlockedClashes ==
  ASSUME NEW B \in GoodBlock, NEW r \in Requests, Blocked(B, r)
  PROVE  Clashes(B, r)
<1> DEFINE f == B.lrq_state
           g == [f EXCEPT ![r] = LCK_none]
           t == B.lrq_requested[r]
           n == lock_state(HeldCounts(g))
           h == lock_state(HeldCounts(f))
<1>1. /\ f \in [Requests -> Level] /\ t \in Level /\ B.lbl_state = h
      /\ B.lbl_counts = HeldCounts(f) /\ AllCompatible(f)
  BY GoodBlockCounts DEF Block
<1>2. CASE f[r] = LCK_none
  BY <1>2 DEF Blocked, Clashes, StateFor
<1>3. CASE f[r] # LCK_none
  <2>1. StateFor(B, r) = n
    BY <1>1, <1>3, HeldCountsErase DEF StateFor, StateWithout
  <2>2. SUFFICES ASSUME compatibility(t, h) PROVE compatibility(t, n)
    BY <1>1, <2>1 DEF Blocked, Clashes
  <2>3. g \in [Requests -> Level] /\ \A x \in Requests \ {r} : g[x] = f[x]
    BY <1>1, <1>3 DEF Level
  <2> HIDE DEF g
  <2>4. /\ h \in Level /\ \A x \in Requests : f[x] <= h
        /\ h # LCK_none => \E x \in Requests : f[x] = h
    BY <1>1, HeldCountsHighest
  <2>5. n \in Level /\ (n # LCK_none => \E x \in Requests : g[x] = n)
    BY <2>3, HeldCountsHighest
  <2> HIDE DEF n, h, f, t
  <2>6. CASE n = LCK_none
    BY <1>1, <2>6 DEF compatibility, Tolerates, Level
  <2>7. CASE n # LCK_none
    <3>1. PICK x \in Requests : g[x] = n /\ f[x] = n /\ x # r
      BY <2>5, <2>7, <2>3 DEF g
    <3>2. n <= h /\ h # LCK_none
      BY <2>4, <2>5, <2>7, <3>1 DEF Level
    <3>3. PICK y \in Requests : f[y] = h
      BY <2>4, <3>2
    <3>4. n = h \/ compatibility(n, h)
      BY <1>1, <3>1, <3>3 DEF AllCompatible
    <3> QED BY <1>1, <2>2, <2>4, <2>5, <3>2, <3>4, CompatibilityLower
  <2> QED BY <2>6, <2>7
<1> QED BY <1>2, <1>3

\* Flags other than LRQ_pending and LRQ_rejected do not matter here.
LEMMA FlagsOnlyHead ==
  ASSUME NEW B \in GoodBlock, NEW C \in GoodBlock, FlagsOnly(B, C)
  PROVE  /\ \A S : HeadBlocked(B, S) => HeadBlocked(C, S)
         /\ \A F : SettledBut(B, F) => SettledBut(C, F)
<1>1. Queued(C) = Queued(B) /\ Queued(B) \subseteq Requests /\ \A x, y : Before(C, x, y) <=> Before(B, x, y)
  BY GoodBlockCounts DEF FlagsOnly, Queued, Before
<1>2. \A x : SameFor(B, C, x)
  BY SameHolders DEF FlagsOnly
<1>3. \A x \in Requests : FirstPending(C, x) <=> FirstPending(B, x)
  BY <1>1 DEF FirstPending, FlagsOnly
<1>4. \A x \in Requests : /\ IsPending(C, x) <=> IsPending(B, x)
                          /\ Rejected(C, x) <=> Rejected(B, x)
  BY DEF FlagsOnly
<1>5. \A p, x : Before(B, p, x) => p \in Requests
  BY <1>1 DEF Before, Queued
<1>6. ASSUME NEW S, HeadBlocked(B, S) PROVE HeadBlocked(C, S)
  BY <1>1, <1>2, <1>3, <1>4, <1>5, <1>6 DEF HeadBlocked, SameFor
<1>7. ASSUME NEW F, SettledBut(B, F) PROVE SettledBut(C, F)
  BY <1>1, <1>4, <1>7 DEF SettledBut, FlagsOnly
<1> QED BY <1>6, <1>7

\* The more threads are asleep, the less is claimed.
LEMMA MoreAsleep ==
  ASSUME NEW B, NEW S, NEW R, S \subseteq R, HeadBlocked(B, S)
  PROVE  HeadBlocked(B, R)
BY DEF HeadBlocked

\* The walk of post_pending: whoever is pending and has no pending request before it when
\* all that can be granted has been, is the one the walk stopped at.
LEMMA GrantAllHead ==
  ASSUME NEW B \in GoodBlock, SettledBut(B, {})
  PROVE  LET C == GrantAll(B, Granted(B))
         IN  HeadBlocked(C, {}) /\ SettledBut(C, {})
<1> DEFINE q == B.lbl_requests
           S == Granted(B)
           C == GrantAll(B, S)
<1>1. B \in Block /\ NoDuplicates(B) /\ DOMAIN q \in SUBSET Nat /\ Queued(B) \subseteq Requests
  BY GoodBlockCounts DEF GoodBlock, Block, BlockInv
<1>2. /\ C.lbl_requests = q
      /\ C.lbl_counts = CountsAfter(B, S)
      /\ C.lbl_state = IF S = {} THEN B.lbl_state ELSE lock_state(CountsAfter(B, S))
      /\ C.lrq_requested = B.lrq_requested
      /\ \A x \in Requests :
           /\ C.lrq_state[x] = IF x \in S THEN B.lrq_requested[x] ELSE B.lrq_state[x]
           /\ IsPending(C, x) <=> x \notin S /\ IsPending(B, x)
           /\ Rejected(C, x) <=> Rejected(B, x)
  BY <1>1 DEF GrantAll, Block, IsPending, Rejected
<1> HIDE DEF C
<1>3. Queued(C) = Queued(B) /\ \A x, y : Before(C, x, y) <=> Before(B, x, y)
  BY <1>2 DEF Queued, Before
<1>4. SettledBut(C, {})
  BY <1>1, <1>2, <1>3 DEF SettledBut
<1>5. ASSUME NEW x \in Requests, FirstPending(C, x) PROVE Blocked(C, x)
  <2>1. x \notin S /\ IsPending(B, x) /\ x \in Queued(B)
    BY <1>2, <1>3, <1>5 DEF FirstPending
  <2>2. PICK i \in DOMAIN q : q[i] = x
    BY <2>1 DEF Queued
  <2>3. PICK j \in Refused(B) : ~(i < j)
    BY <2>1, <2>2 DEF Granted
  <2>4. j \in DOMAIN q /\ IsPending(B, q[j]) /\ q[j] \in Requests /\ ~grantable(B, j)
    BY <1>1 DEF Refused, Queued
  <2>5. q[j] \notin S
    BY <1>1, <2>3, <2>4 DEF Granted, NoDuplicates
  <2>6. j = i
    <3>1. j < i => Before(C, q[j], x)
      BY <1>2, <2>2, <2>4 DEF Before
    <3>2. IsPending(C, q[j])
      BY <1>2, <2>4, <2>5
    <3> QED BY <1>1, <1>5, <2>2, <2>3, <2>4, <3>1, <3>2 DEF FirstPending
  <2>7. PendingAhead(B, i) = S
    <3>1. ASSUME NEW y \in PendingAhead(B, i) PROVE y \in S
      <4>1. PICK k \in 1 .. (i - 1) : y = q[k] /\ IsPending(B, q[k])
        BY DEF PendingAhead
      <4>2. k \in DOMAIN q /\ k < i
        BY <1>1, <2>2, <4>1 DEF Block
      <4>3. y \in Requests /\ Before(C, y, x)
        BY <1>1, <1>2, <2>2, <4>1, <4>2 DEF Before, Queued
      <4> QED BY <1>2, <1>5, <4>1, <4>3 DEF FirstPending
    <3>2. ASSUME NEW y \in S PROVE y \in PendingAhead(B, i)
      <4>1. PICK k \in DOMAIN q : y = q[k] /\ IsPending(B, q[k]) /\ \A n \in Refused(B) : k < n
        BY DEF Granted
      <4>2. k \in 1 .. (i - 1)
        BY <1>1, <2>2, <2>3, <2>6, <4>1 DEF Block
      <4> QED BY <4>1, <4>2 DEF PendingAhead
    <3> QED BY <3>1, <3>2
  <2>8. C.lrq_state[x] = B.lrq_state[x]
    BY <1>2, <2>1
  <2>9. ~compatibility(B.lrq_requested[x],
            IF B.lrq_state[x] # LCK_none
            THEN lock_state(Uncount(CountsAfter(B, S), B.lrq_state[x]))
            ELSE IF S = {} THEN B.lbl_state ELSE lock_state(CountsAfter(B, S)))
    <3> HIDE DEF S, q
    <3> QED BY <2>2, <2>4, <2>6, <2>7 DEF grantable, q
  <2>10. StateFor(C, x) = IF B.lrq_state[x] # LCK_none
            THEN lock_state(Uncount(CountsAfter(B, S), B.lrq_state[x]))
            ELSE IF S = {} THEN B.lbl_state ELSE lock_state(CountsAfter(B, S))
    BY <1>2, <2>8 DEF StateFor, StateWithout
  <2> HIDE DEF S
  <2> QED BY <1>2, <2>9, <2>10 DEF Blocked
<1>6. HeadBlocked(C, {})
  BY <1>5 DEF HeadBlocked
<1> QED BY <1>4, <1>6 DEF C

\* After post_pending the first pending request cannot be granted.
LEMMA PostPendingHead ==
  ASSUME NEW B \in GoodBlock, SettledBut(B, {})
  PROVE  HeadBlocked(post_pending(B), {}) /\ SettledBut(post_pending(B), {})
<1> DEFINE C == GrantAll(B, Granted(B))
           D == AddFlags(C, JustGranted(C), {"just_granted"})
<1>1. HeadBlocked(C, {}) /\ SettledBut(C, {}) /\ C \in GoodBlock
  BY GrantAllHead, GrantAllGood DEF Keeps
<1>2. FlagsOnly(C, D) /\ D \in GoodBlock
  <2> HIDE DEF C
  <2> QED BY <1>1, AddFlagsOnly, AddFlagsGood DEF LrqFlag, GoodBlock, Keeps
<1>3. HeadBlocked(D, {}) /\ SettledBut(D, {})
  <2> HIDE DEF C, D
  <2> QED BY <1>1, <1>2, FlagsOnlyHead
<1>4. CASE B.lbl_pending_lrq_count = 0
  <2>1. post_pending(B) = B
    BY <1>4 DEF post_pending
  <2>2. {x \in Requests : IsPending(B, x)} = {}
    <3>1. Cardinality({x \in Requests : IsPending(B, x)}) = 0
      BY <1>4 DEF GoodBlock, BlockInv, CountsAgree
    <3>2. IsFiniteSet({x \in Requests : IsPending(B, x)})
      BY RequestSubsetsFinite
    <3> QED BY <3>1, <3>2, FS_EmptySet
  <2>3. HeadBlocked(B, {})
    BY <2>2 DEF HeadBlocked, FirstPending
  <2> QED BY <2>1, <2>3
<1>5. CASE B.lbl_pending_lrq_count # 0
  <2>1. post_pending(B) = IF C.lbl_pending_lrq_count = 0 THEN C ELSE D
    BY <1>5 DEF post_pending
  <2> HIDE DEF C, D
  <2> QED BY <1>1, <1>3, <2>1
<1> QED BY <1>4, <1>5

\* release_request takes its request off the queue, whatever it asked for.
LEMMA UnlinkSettled ==
  ASSUME NEW B \in GoodBlock, NEW r \in Queued(B), SettledBut(B, {r})
  PROVE  SettledBut(unlink_request(B, r), {})
<1> DEFINE C == unlink_request(B, r)
           q == RemoveRequest(B.lbl_requests, r)
<1>1. B \in Block /\ r \in Requests /\ Queued(B) \subseteq Requests
  BY GoodBlockCounts
<1>2. Queued(C) = Queued(B) \ {r}
  BY UnlinkRequestGood
<1>3. CASE q = << >>
  <2>1. Queued(C) = {}
    BY <1>3 DEF unlink_request, FreeBlock, Queued
  <2> QED BY <2>1 DEF SettledBut
<1>4. CASE q # << >>
  <2>1. \A x \in Requests \ {r} : /\ C.lrq_state[x] = B.lrq_state[x]
                                  /\ C.lrq_flags[x] = B.lrq_flags[x]
                                  /\ C.lrq_requested[x] = B.lrq_requested[x]
    BY <1>1, <1>4 DEF unlink_request, Block
  <2> HIDE DEF C
  <2>2. SettledBut(C, {})
    BY <1>1, <1>2, <2>1 DEF SettledBut, IsPending, Rejected
  <2> QED BY <2>2 DEF C
<1> QED BY <1>3, <1>4

\* A granted request has what it asked for.
LEMMA GrantSettled ==
  ASSUME NEW B \in GoodBlock, NEW r \in Queued(B), SettledBut(B, {r})
  PROVE  SettledBut(grant(B, r), {}) /\ SettledBut(grant_convert(B, r), {})
<1>1. B \in Block /\ r \in Requests /\ Queued(B) \subseteq Requests
  BY GoodBlockCounts
<1>2. ASSUME NEW C, C.lbl_requests = B.lbl_requests, C.lrq_flags = B.lrq_flags,
             C.lrq_state = [B.lrq_state EXCEPT ![r] = B.lrq_requested[r]],
             C.lrq_requested = B.lrq_requested
      PROVE  SettledBut(C, {})
  <2>1. Queued(C) = Queued(B)
    BY <1>2 DEF Queued
  <2>2. /\ \A x \in Requests \ {r} : C.lrq_state[x] = B.lrq_state[x]
        /\ C.lrq_state[r] = B.lrq_requested[r]
    BY <1>1, <1>2 DEF Block
  <2> QED BY <1>1, <1>2, <2>1, <2>2 DEF SettledBut, IsPending, Rejected
<1> DEFINE C == grant(B, r)
           D == grant_convert(B, r)
<1>3. /\ C.lbl_requests = B.lbl_requests /\ C.lrq_flags = B.lrq_flags
      /\ C.lrq_state = [B.lrq_state EXCEPT ![r] = B.lrq_requested[r]]
      /\ C.lrq_requested = B.lrq_requested
  BY <1>1 DEF grant, Block
<1>4. /\ D.lbl_requests = B.lbl_requests /\ D.lrq_flags = B.lrq_flags
      /\ D.lrq_state = [B.lrq_state EXCEPT ![r] = B.lrq_requested[r]]
      /\ D.lrq_requested = B.lrq_requested
  BY <1>1 DEF grant_convert, grant, Block
<1> HIDE DEF C, D
<1>5. SettledBut(C, {}) /\ SettledBut(D, {})
  BY <1>2, <1>3, <1>4
<1> QED BY <1>5 DEF C, D

\* What a request that does not wait asks for is nobody else's business.
LEMMA OneAsksHead ==
  ASSUME NEW B \in GoodBlock, NEW C \in GoodBlock, NEW r \in Requests, NEW S, r \notin S,
         C.lbl_requests = B.lbl_requests, C.lrq_state = B.lrq_state, ~IsPending(B, r),
         \A x \in Requests : /\ IsPending(C, x) <=> IsPending(B, x)
                             /\ Rejected(C, x) <=> Rejected(B, x)
                             /\ x # r => C.lrq_requested[x] = B.lrq_requested[x],
         SettledBut(B, {r})
  PROVE  /\ HeadBlocked(B, S) => HeadBlocked(C, S)
         /\ SettledBut(C, {r})
         /\ C.lrq_requested[r] = C.lrq_state[r] => SettledBut(C, {})
<1>1. Queued(C) = Queued(B) /\ Queued(B) \subseteq Requests /\ \A x, y : Before(C, x, y) <=> Before(B, x, y)
  BY GoodBlockCounts DEF Queued, Before
<1>2. \A x \in Requests \ {r} : SameFor(B, C, x)
  BY SameHolders
<1>3. \A x \in Requests : FirstPending(C, x) => FirstPending(B, x) /\ x # r
  BY <1>1 DEF FirstPending
<1>4. \A p, x : Before(B, p, x) => p \in Requests
  BY <1>1 DEF Before, Queued
<1>5. ASSUME HeadBlocked(B, S) PROVE HeadBlocked(C, S)
  BY <1>1, <1>2, <1>3, <1>4, <1>5 DEF HeadBlocked, SameFor
<1>6. SettledBut(C, {r})
  BY <1>1 DEF SettledBut
<1>7. ASSUME C.lrq_requested[r] = C.lrq_state[r] PROVE SettledBut(C, {})
  BY <1>6, <1>7 DEF SettledBut
<1> QED BY <1>5, <1>6, <1>7

\* enqueue puts a request at the end of the queue, before it decides what to do with it.
LEMMA InsertHead ==
  ASSUME NEW B \in GoodBlock, NEW r \in Requests \ Queued(B), NEW type \in Level, NEW S,
         HeadBlocked(B, S), SettledBut(B, {})
  PROVE  LET C == insert_request(B, r, type)
         IN  HeadBlocked(C, S) /\ SettledBut(C, {r})
<1> DEFINE C == insert_request(B, r, type)
<1>1. B \in Block /\ B.lbl_requests \in Seq(Requests) /\ Queued(B) \subseteq Requests
  BY GoodBlockCounts DEF Block
<1>2. /\ C.lbl_requests = Append(B.lbl_requests, r)
      /\ \A x \in Requests \ {r} : /\ C.lrq_flags[x] = B.lrq_flags[x]
                                   /\ C.lrq_requested[x] = B.lrq_requested[x]
      /\ C.lrq_flags[r] = {}
  BY <1>1 DEF insert_request, Block
<1>3. C \in GoodBlock /\ Queued(C) = Queued(B) \cup {r} /\ C.lrq_state = B.lrq_state
  BY InsertRequestGood
<1> HIDE DEF C
<1>4. \A x, y \in Requests \ {r} : Before(C, x, y) <=> Before(B, x, y)
  <2>1. \A x, y \in Requests \ {r} :
          Precedes(Append(B.lbl_requests, r), x, y) <=> Precedes(B.lbl_requests, x, y)
    BY <1>1, AppendOrder
  <2> QED BY <1>2, <2>1, BeforePrecedes
<1>5. \A x \in Requests \ {r} : SameFor(B, C, x)
  BY <1>2, <1>3, SameHolders
<1>6. \A x \in Requests : FirstPending(C, x) => FirstPending(B, x) /\ x # r
  <2>1. ~IsPending(B, r)
    BY <1>1 DEF GoodBlock, BlockInv, OnlyQueuedCount
  <2> QED BY <1>1, <1>2, <1>3, <1>4, <2>1 DEF FirstPending, IsPending
<1>7. \A p, x : Before(B, p, x) => p \in Requests \ {r}
  BY <1>1 DEF Before, Queued
<1>8. HeadBlocked(C, S)
  BY <1>2, <1>4, <1>5, <1>6, <1>7 DEF HeadBlocked, SameFor, Rejected
<1>9. SettledBut(C, {r})
  BY <1>1, <1>2, <1>3 DEF SettledBut, IsPending, Rejected
<1> QED BY <1>8, <1>9 DEF C

\* A request that begins to wait keeps the others in their order.
LEMMA BeginWaitOrder ==
  ASSUME NEW B \in GoodBlock, NEW r \in Queued(B), NEW timed \in BOOLEAN
  PROVE  LET C == begin_wait(B, r, timed)
         IN  /\ \A x, y \in Requests \ {r} : Before(C, x, y) <=> Before(B, x, y)
             /\ \A x \in Requests \ {r} : C.lrq_flags[x] = B.lrq_flags[x]
             /\ B.lrq_state[r] # LCK_none => C.lbl_requests = B.lbl_requests
<1> DEFINE C == begin_wait(B, r, timed)
           q == B.lbl_requests
           p == RemoveRequest(q, r)
<1>1. B \in Block /\ q \in Seq(Requests) /\ r \in Requests /\ NoDuplicates(B)
  BY GoodBlockCounts DEF GoodBlock, Block, BlockInv
<1>2. /\ C.lbl_requests = IF B.lrq_state[r] = LCK_none THEN Append(p, r) ELSE q
      /\ \A x \in Requests \ {r} : C.lrq_flags[x] = B.lrq_flags[x]
  BY <1>1 DEF begin_wait, Block
<1>3. \E i \in DOMAIN q : q[i] = r
  BY DEF Queued
<1>4. p \in Seq(Requests)
  BY <1>1, <1>3, RemoveRequestProperties DEF NoDuplicates
<1>5. \A x, y \in Requests \ {r} : Precedes(p, x, y) <=> Precedes(q, x, y)
  BY <1>1, <1>3, RemoveRequestOrder
<1> HIDE DEF C, p
<1>6. \A x, y \in Requests \ {r} : Precedes(Append(p, r), x, y) <=> Precedes(p, x, y)
  BY <1>1, <1>4, AppendOrder
<1>7. \A x, y \in Requests \ {r} : Before(C, x, y) <=> Before(B, x, y)
  BY <1>2, <1>5, <1>6, BeforePrecedes
<1> QED BY <1>2, <1>7 DEF C

\* wait_for_request: the head of the queue stays blocked if the new waiter is, should it
\* have become the head.
LEMMA BeginWaitHead ==
  ASSUME NEW B \in GoodBlock, NEW r \in Queued(B), NEW timed \in BOOLEAN, ~IsPending(B, r),
         NEW S, r \notin S \/ ~Rejected(B, r), HeadBlocked(B, S), SettledBut(B, {r}),
         Blocked(B, r) \/ ~FirstPending(begin_wait(B, r, timed), r)
  PROVE  LET C == begin_wait(B, r, timed)
         IN  HeadBlocked(C, S) /\ SettledBut(C, {})
<1> DEFINE C == begin_wait(B, r, timed)
<1>1. /\ C \in GoodBlock /\ Queued(C) = Queued(B) /\ Queued(B) \subseteq Requests
      /\ C.lrq_state = B.lrq_state /\ C.lrq_requested = B.lrq_requested
      /\ IsPending(C, r) /\ ~Rejected(C, r)
  BY ZenonT(60), BeginWaitGood, BeginWaitAdvance, GoodBlockCounts
<1>2. /\ \A x, y \in Requests \ {r} : Before(C, x, y) <=> Before(B, x, y)
      /\ \A x \in Requests \ {r} : C.lrq_flags[x] = B.lrq_flags[x]
  BY BeginWaitOrder
<1>3. Blocked(B, r) \/ ~FirstPending(C, r)
  OBVIOUS
<1> HIDE DEF C
<1>4. \A x : SameFor(B, C, x)
  BY <1>1, SameHolders
<1>5. \A p, x : Before(B, p, x) => p \in Queued(B)
  BY DEF Before, Queued
<1>6. ASSUME NEW x \in Requests, FirstPending(C, x), x # r
      PROVE  Blocked(C, x) \/ \E p \in S : Before(C, p, x) /\ Rejected(C, p) /\ Clashes(C, p)
  <2>1. FirstPending(B, x)
    BY <1>1, <1>2, <1>6 DEF FirstPending, IsPending
  <2>2. CASE Blocked(B, x)
    BY <1>4, <2>2 DEF SameFor
  <2>3. ASSUME NEW p \in S, Before(B, p, x), Rejected(B, p), Clashes(B, p)
        PROVE  Before(C, p, x) /\ Rejected(C, p) /\ Clashes(C, p)
    <3>1. p \in Requests \ {r}
      BY <1>1, <1>5, <2>3
    <3> QED BY <1>2, <1>4, <1>6, <2>3, <3>1 DEF SameFor, Rejected
  <2> QED BY <2>1, <2>2, <2>3 DEF HeadBlocked
<1>7. FirstPending(C, r) => Blocked(C, r)
  BY <1>3, <1>4 DEF SameFor
<1>8. HeadBlocked(C, S)
  BY <1>6, <1>7 DEF HeadBlocked
<1>9. SettledBut(C, {})
  BY <1>1, <1>2 DEF SettledBut, IsPending, Rejected
<1> QED BY <1>8, <1>9 DEF C

\* A new request that is not granted at once: it clashes with the lock, or somebody waits
\* before it.
LEMMA NewWaiterHead ==
  ASSUME NEW B0 \in GoodBlock, NEW r \in Requests \ Queued(B0), NEW type \in Level,
         NEW timed \in BOOLEAN, ~grant_now(B0, type), NEW S,
         HeadBlocked(B0, S), SettledBut(B0, {})
  PROVE  LET C == begin_wait(insert_request(B0, r, type), r, timed)
         IN  HeadBlocked(C, S) /\ SettledBut(C, {})
<1> DEFINE B == insert_request(B0, r, type)
           C == begin_wait(B, r, timed)
<1>1. /\ B \in GoodBlock /\ Queued(B) = Queued(B0) \cup {r} /\ B.lrq_requested[r] = type
      /\ B.lrq_state = B0.lrq_state /\ B.lrq_state[r] = LCK_none /\ ~IsPending(B, r)
  BY InsertRequestGood
<1>7. ~Rejected(B, r)
  BY InsertAdvance
<1>2. HeadBlocked(B, S) /\ SettledBut(B, {r})
  BY InsertHead
<1>3. \A x \in Requests \ {r} : B.lrq_flags[x] = B0.lrq_flags[x]
  BY DEF insert_request, GoodBlock, Block
<1> HIDE DEF B
<1>4. /\ LastIn(C, r) /\ Queued(C) = Queued(B)
      /\ \A x \in Requests \ {r} : C.lrq_flags[x] = B.lrq_flags[x]
  <2>1. r \in Queued(B)
    BY <1>1
  <2>2. LastIn(C, r)
    BY <1>1, <2>1, BeginWaitAdvance
  <2>3. Queued(C) = Queued(B)
    BY <1>1, <2>1, BeginWaitGood
  <2>4. \A x \in Requests \ {r} : C.lrq_flags[x] = B.lrq_flags[x]
    BY <1>1, <2>1, BeginWaitOrder
  <2> QED BY <2>2, <2>3, <2>4
<1> HIDE DEF C
<1>5. Blocked(B, r) \/ ~FirstPending(C, r)
  <2>1. CASE \E p \in Requests : IsPending(B0, p)
    <3>1. PICK p \in Requests : IsPending(B0, p)
      BY <2>1
    <3>2. p \in Queued(B0)
      BY <3>1 DEF GoodBlock, BlockInv, OnlyQueuedCount
    <3>3. p # r /\ IsPending(C, p) /\ p \in Queued(C)
      BY <1>1, <1>3, <1>4, <3>1, <3>2 DEF IsPending
    <3> QED BY <1>4, <3>3 DEF FirstPending, LastIn
  <2>2. CASE ~\E p \in Requests : IsPending(B0, p)
    <3>1. {p \in Requests : IsPending(B0, p)} = {}
      BY <2>2
    <3>2. B0.lbl_pending_lrq_count = 0
      BY <3>1, FS_EmptySet DEF GoodBlock, BlockInv, CountsAgree
    <3>3. ~compatibility(type, B0.lbl_state)
      BY <3>2 DEF grant_now
    <3>4. B.lbl_state = B0.lbl_state
      BY <1>1, SameHolders
    <3> QED BY <1>1, <3>3, <3>4 DEF Blocked, StateFor
  <2> QED BY <2>1, <2>2
<1>6. HeadBlocked(C, S) /\ SettledBut(C, {})
  BY <1>1, <1>2, <1>5, <1>7, BeginWaitHead DEF C
<1> QED BY <1>6 DEF C, B

\* The order of a queue.
LEMMA BeforeOrder ==
  ASSUME NEW B \in GoodBlock
  PROVE  /\ \A x, y, z : Before(B, x, y) /\ Before(B, y, z) => Before(B, x, z)
         /\ \A x : ~Before(B, x, x)
         /\ \A x, y : Before(B, x, y) => x \in Queued(B) /\ y \in Queued(B)
<1> DEFINE q == B.lbl_requests
<1>1. NoDuplicates(B) /\ DOMAIN q \in SUBSET Nat
  BY DEF GoodBlock, Block, BlockInv
<1>2. ASSUME NEW x, NEW y, NEW z, Before(B, x, y), Before(B, y, z) PROVE Before(B, x, z)
  <2>1. PICK i \in DOMAIN q, j \in DOMAIN q : i < j /\ q[i] = x /\ q[j] = y
    BY <1>2 DEF Before
  <2>2. PICK k \in DOMAIN q, n \in DOMAIN q : k < n /\ q[k] = y /\ q[n] = z
    BY <1>2 DEF Before
  <2>3. j = k
    BY <1>1, <2>1, <2>2 DEF NoDuplicates
  <2>4. i < n
    BY <1>1, <2>1, <2>2, <2>3
  <2> QED BY <2>1, <2>2, <2>4 DEF Before
<1>3. \A x : ~Before(B, x, x)
  BY <1>1 DEF Before, NoDuplicates
<1>4. \A x, y : Before(B, x, y) => x \in Queued(B) /\ y \in Queued(B)
  BY DEF Before, Queued
<1> QED BY <1>2, <1>3, <1>4

\* A rejected request that could not be granted stands for those behind it until its
\* thread wakes up.
LEMMA RejectHead ==
  ASSUME NEW B \in GoodBlock, NEW r \in Queued(B), IsPending(B, r), NEW S, r \in S,
         HeadBlocked(B, S), SettledBut(B, {})
  PROVE  LET C == reject(B, r)
         IN  HeadBlocked(C, S) /\ SettledBut(C, {})
<1> DEFINE C == reject(B, r)
<1>1. B \in Block /\ r \in Requests /\ Queued(B) \subseteq Requests
  BY GoodBlockCounts
<1>2. /\ C.lbl_requests = B.lbl_requests
      /\ C.lrq_requested = B.lrq_requested
      /\ \A x \in Requests \ {r} : C.lrq_flags[x] = B.lrq_flags[x]
      /\ C.lrq_flags[r] = (B.lrq_flags[r] \ {"pending"}) \cup {"rejected"}
      /\ C.lrq_state = B.lrq_state
  BY <1>1 DEF reject, Block
<1>3. C \in GoodBlock
  BY RejectGood DEF Keeps
<1> HIDE DEF C
<1>4. /\ ~IsPending(C, r) /\ Rejected(C, r)
      /\ \A x \in Requests \ {r} : /\ IsPending(C, x) <=> IsPending(B, x)
                                   /\ Rejected(C, x) <=> Rejected(B, x)
  BY <1>2 DEF IsPending, Rejected
<1>5. Queued(C) = Queued(B) /\ \A x, y : Before(C, x, y) <=> Before(B, x, y)
  BY <1>2 DEF Queued, Before
<1>6. \A x : SameFor(B, C, x)
  BY <1>2, <1>3, SameHolders
<1>7. \A p : Rejected(B, p) /\ p \in Requests => Rejected(C, p)
  BY <1>4
<1>8. ASSUME NEW x \in Requests, FirstPending(C, x)
      PROVE  Blocked(C, x) \/ \E p \in S : Before(C, p, x) /\ Rejected(C, p) /\ Clashes(C, p)
  <2>1. x # r /\ IsPending(B, x) /\ x \in Queued(B)
    BY <1>4, <1>5, <1>8 DEF FirstPending
  <2>2. \A p \in Requests : IsPending(B, p) /\ Before(B, p, x) => p = r
    BY <1>4, <1>5, <1>8 DEF FirstPending
  <2>3. ASSUME NEW p \in S, Before(B, p, x), Rejected(B, p), Clashes(B, p)
        PROVE  \E y \in S : Before(C, y, x) /\ Rejected(C, y) /\ Clashes(C, y)
    <3>1. p \in Requests
      BY <1>1, <2>3, BeforeOrder
    <3> QED BY <1>5, <1>6, <1>7, <2>3, <3>1 DEF SameFor
  <2>4. CASE ~Before(B, r, x)
    <3>1. FirstPending(B, x)
      BY <2>1, <2>2, <2>4 DEF FirstPending
    <3> QED BY <1>6, <2>3, <3>1 DEF HeadBlocked, SameFor
  <2>5. CASE Before(B, r, x)
    <3>1. FirstPending(B, r)
      <4>1. ASSUME NEW p \in Requests, IsPending(B, p), Before(B, p, r) PROVE FALSE
        <5>1. Before(B, p, x)
          BY <2>5, <4>1, BeforeOrder
        <5>2. p = r
          BY <2>2, <4>1, <5>1
        <5> QED BY <4>1, <5>2, BeforeOrder
      <4> QED BY <1>1, <4>1 DEF FirstPending
    <3>2. CASE Blocked(B, r)
      <4>1. Clashes(B, r)
        BY <1>1, <3>2, BlockedClashes
      <4> QED BY <1>4, <1>5, <1>6, <2>5, <4>1 DEF SameFor
    <3>3. ASSUME NEW p \in S, Before(B, p, r), Rejected(B, p), Clashes(B, p)
          PROVE  \E y \in S : Before(C, y, x) /\ Rejected(C, y) /\ Clashes(C, y)
      <4>1. Before(B, p, x)
        BY <2>5, <3>3, BeforeOrder
      <4> QED BY <2>3, <3>3, <4>1
    <3> QED BY <1>1, <3>1, <3>2, <3>3 DEF HeadBlocked
  <2> QED BY <2>4, <2>5
<1>9. HeadBlocked(C, S)
  BY <1>8 DEF HeadBlocked
<1>10. SettledBut(C, {})
  BY <1>1, <1>2, <1>4, <1>5 DEF SettledBut
<1> QED BY <1>9, <1>10 DEF C

\* internal_convert: the request asks for another level, the queue stays.
LEMMA BeginConvertHead ==
  ASSUME NEW A \in GoodBlock, NEW r \in Queued(A), ~IsPending(A, r), NEW type \in Level,
         NEW S, r \notin S, HeadBlocked(A, S), SettledBut(A, {})
  PROVE  LET B == begin_convert(A, r, type)
         IN  HeadBlocked(B, S) /\ SettledBut(B, {r})
<1> DEFINE B == begin_convert(A, r, type)
<1>1. A \in Block /\ r \in Requests
  BY GoodBlockCounts
<1>2. B \in GoodBlock
  BY <1>1, BeginConvertGood DEF Keeps
<1>3. /\ B.lbl_requests = A.lbl_requests
      /\ \A x \in Requests \ {r} : B.lrq_flags[x] = A.lrq_flags[x]
                                   /\ B.lrq_requested[x] = A.lrq_requested[x]
      /\ B.lrq_flags[r] = A.lrq_flags[r] \ {"blocking_seen"}
      /\ B.lrq_state = A.lrq_state
  BY <1>1 DEF begin_convert, ClearFlags, Block
<1> HIDE DEF B
<1>4. \A x \in Requests : /\ IsPending(B, x) <=> IsPending(A, x)
                          /\ Rejected(B, x) <=> Rejected(A, x)
                          /\ x # r => B.lrq_requested[x] = A.lrq_requested[x]
  BY <1>1, <1>3 DEF IsPending, Rejected
<1>5. SettledBut(A, {r})
  BY DEF SettledBut
<1>6. HeadBlocked(B, S) /\ SettledBut(B, {r})
  BY <1>1, <1>2, <1>3, <1>4, <1>5, OneAsksHead
<1> QED BY <1>6 DEF B

\* internal_convert gives up: the request asks for what it has.
LEMMA EndConvertHead ==
  ASSUME NEW B \in GoodBlock, NEW r \in Queued(B), ~IsPending(B, r),
         NEW S, r \notin S, HeadBlocked(B, S), SettledBut(B, {r})
  PROVE  LET C == end_convert(B, r)
         IN  HeadBlocked(C, S) /\ SettledBut(C, {})
<1> DEFINE C == end_convert(B, r)
<1>1. B \in Block /\ r \in Requests
  BY GoodBlockCounts
<1>2. C \in GoodBlock
  BY <1>1, EndConvertGood DEF Keeps
<1>3. /\ C.lbl_requests = B.lbl_requests
      /\ \A x \in Requests \ {r} : C.lrq_requested[x] = B.lrq_requested[x]
      /\ C.lrq_requested[r] = C.lrq_state[r]
      /\ C.lrq_flags = B.lrq_flags
      /\ C.lrq_state = B.lrq_state
  BY <1>1 DEF end_convert, Block
<1> HIDE DEF C
<1>4. \A x \in Requests : /\ IsPending(C, x) <=> IsPending(B, x)
                          /\ Rejected(C, x) <=> Rejected(B, x)
                          /\ x # r => C.lrq_requested[x] = B.lrq_requested[x]
  BY <1>3 DEF IsPending, Rejected
<1>5. HeadBlocked(C, S) /\ SettledBut(C, {})
  BY <1>1, <1>2, <1>3, <1>4, OneAsksHead
<1> QED BY <1>5 DEF C

\* A conversion that has to wait is blocked by the other holders.
LEMMA ConvertWaitHead ==
  ASSUME NEW B \in GoodBlock, NEW r \in Queued(B), ~IsPending(B, r), NEW timed \in BOOLEAN,
         B.lrq_state[r] # LCK_none, ~compatibility(B.lrq_requested[r], StateWithout(B, r)),
         NEW S, r \notin S, HeadBlocked(B, S), SettledBut(B, {r})
  PROVE  LET C == begin_wait(B, r, timed)
         IN  HeadBlocked(C, S) /\ SettledBut(C, {})
<1>1. Blocked(B, r)
  BY DEF Blocked, StateFor
<1> QED BY <1>1, BeginWaitHead

---------------------------------------------------------------------------
(* The lock table.                                                       *)

\* What QueueSound says of one lock.
HeadSound(B, S) == HeadBlocked(B, S) /\ SettledBut(B, {})

\* Every lock but that of request r.
OthersSound(T, r) == \A l \in Locks \ {lrq_lock[r]} : HeadSound(T.lbl[l], Asleep(T, l))

\* One lock and the others.
LEMMA QueueSoundSplit ==
  ASSUME NEW T, NEW r \in Requests
  PROVE  QueueSound(T) <=> OthersSound(T, r) /\ HeadSound(BlockOf(T, r), Asleep(T, lrq_lock[r]))
BY OwnerOfRequest DEF QueueSound, OthersSound, HeadSound, BlockOf

\* The other locks do not change, nor do the threads of their requests wake up.
OthersKept(T, U, r) ==
  /\ \A l \in Locks \ {lrq_lock[r]} : U.lbl[l] = T.lbl[l]
  /\ \A x \in Requests \ {r} : U.pc[x] = "idle" => T.pc[x] = "idle"

\* What does not touch a lock keeps it sound.
LEMMA OthersSoundKept ==
  ASSUME NEW T, NEW U, NEW r \in Requests, OthersSound(T, r), OthersKept(T, U, r)
  PROVE  OthersSound(U, r)
<1>1. ASSUME NEW l \in Locks \ {lrq_lock[r]} PROVE HeadSound(U.lbl[l], Asleep(U, l))
  <2>1. Asleep(T, l) \subseteq Asleep(U, l)
    BY DEF Asleep, OthersKept
  <2>2. HeadSound(T.lbl[l], Asleep(T, l)) /\ U.lbl[l] = T.lbl[l]
    BY DEF OthersSound, OthersKept
  <2> QED BY <2>1, <2>2, MoreAsleep DEF HeadSound
<1> QED BY <1>1 DEF OthersSound

\* Only flags change that do not matter here, and nobody wakes up.
LEMMA FlagsQueue ==
  ASSUME NEW T \in GoodTable, NEW U \in GoodTable, TableFlags(T, U), QueueSound(T),
         \A x \in Requests : U.pc[x] = "idle" => T.pc[x] = "idle"
  PROVE  QueueSound(U)
<1>1. ASSUME NEW l \in Locks PROVE HeadBlocked(U.lbl[l], Asleep(U, l)) /\ SettledBut(U.lbl[l], {})
  <2>1. T.lbl[l] \in GoodBlock /\ U.lbl[l] \in GoodBlock /\ FlagsOnly(T.lbl[l], U.lbl[l])
    BY DEF GoodTable, TableFlags
  <2>2. HeadBlocked(T.lbl[l], Asleep(T, l)) /\ SettledBut(T.lbl[l], {})
    BY DEF QueueSound
  <2>3. HeadBlocked(U.lbl[l], Asleep(T, l)) /\ SettledBut(U.lbl[l], {})
    BY <2>1, <2>2, FlagsOnlyHead
  <2>4. Asleep(T, l) \subseteq Asleep(U, l)
    BY DEF Asleep
  <2> QED BY <2>3, <2>4, MoreAsleep
<1> QED BY <1>1 DEF QueueSound

\* Nothing changes in the locks and threads.
LEMMA SameQueue ==
  ASSUME NEW T, NEW U, QueueSound(T), U.lbl = T.lbl, U.pc = T.pc
  PROVE  QueueSound(U)
BY DEF QueueSound, Asleep

\* The block of request r becomes C, which is sound.
LEMMA WithBlockQueue ==
  ASSUME NEW T \in Table, NEW r \in Requests, NEW C, NEW U,
         U.lbl = [T.lbl EXCEPT ![lrq_lock[r]] = C],
         \A x \in Requests \ {r} : U.pc[x] = "idle" => T.pc[x] = "idle",
         OthersSound(T, r), HeadSound(C, Asleep(U, lrq_lock[r]))
  PROVE  QueueSound(U)
<1>1. lrq_lock[r] \in Locks /\ DOMAIN T.lbl = Locks
  BY OwnerOfRequest DEF Table
<1>2. \A l \in Locks \ {lrq_lock[r]} : U.lbl[l] = T.lbl[l]
  BY <1>1
<1>3. BlockOf(U, r) = C
  BY <1>1 DEF BlockOf
<1>4. OthersKept(T, U, r)
  BY <1>2 DEF OthersKept
<1>5. OthersSound(U, r)
  BY <1>4, OthersSoundKept
<1> QED BY <1>3, <1>5, QueueSoundSplit

\* post_pending makes the lock sound, whatever its caller did, if only those ask for more
\* than they have who wait.
LEMMA PostPendingQueue ==
  ASSUME NEW T \in Table, NEW r \in Requests, NEW B \in GoodBlock, SettledBut(B, {}),
         OthersSound(T, r)
  PROVE  LET U == PostPending(T, r, B)
         IN  /\ QueueSound(U) /\ HeadBlocked(BlockOf(U, r), {}) /\ OthersSound(U, r)
             /\ U.pc = T.pc
<1> DEFINE C == post_pending(B)
           V == WithBlock(T, r, C)
           U == post_wakeup(V, PostPendingWakes(B))
<1>1. C \in Block /\ HeadBlocked(C, {}) /\ SettledBut(C, {})
  BY PostPendingGood, PostPendingHead DEF Keeps, GoodBlock
<1> HIDE DEF C
<1>2. /\ V \in Table /\ V.pc = T.pc /\ V.lbl = [T.lbl EXCEPT ![lrq_lock[r]] = C]
      /\ BlockOf(V, r) = C
  BY <1>1, WithBlockIs
<1> HIDE DEF V
<1>3. U.lbl = V.lbl /\ U.pc = V.pc
  BY <1>2, PostWakeupIs
<1> HIDE DEF U
<1>4. BlockOf(U, r) = C
  BY <1>2, <1>3 DEF BlockOf
<1>5. HeadSound(C, Asleep(U, lrq_lock[r]))
  BY <1>1, MoreAsleep DEF HeadSound
<1>6. QueueSound(U)
  BY <1>2, <1>3, <1>5, WithBlockQueue
<1>7. OthersSound(U, r)
  BY <1>6, QueueSoundSplit
<1>8. PostPending(T, r, B) = U
  BY DEF PostPending, U, V, C
<1> QED BY <1>1, <1>2, <1>3, <1>4, <1>6, <1>7, <1>8

\* The end of a granted enqueue or conversion.
LEMMA GrantAndPostQueue ==
  ASSUME NEW T \in Table, NEW r \in Requests, NEW B \in GoodBlock, SettledBut(B, {}),
         OthersSound(T, r)
  PROVE  QueueSound(GrantAndPost(T, r, B))
<1> DEFINE V == post_wakeup(T, {r})
<1>1. V \in Table /\ V.lbl = T.lbl /\ V.pc = T.pc
  BY PostWakeupIs
<1> HIDE DEF V
<1>2. OthersSound(V, r)
  <2>1. OthersKept(T, V, r)
    BY <1>1 DEF OthersKept
  <2> QED BY <2>1, OthersSoundKept
<1>3. QueueSound(PostPending(V, r, B))
  BY <1>1, <1>2, PostPendingQueue
<1> QED BY <1>3 DEF GrantAndPost, V

\* release_request looks at the queue it leaves.
LEMMA ReleaseRequestQueue ==
  ASSUME NEW T \in GoodTable, NEW r \in Requests, T.pc[r] # "free",
         OthersSound(T, r), SettledBut(BlockOf(T, r), {r})
  PROVE  QueueSound(ReleaseRequest(T, r))
<1> DEFINE o == lrq_owner[r]
           q == T.own_blocks[o]
           e == EntriesAt(q, {i \in DOMAIN q : q[i] # r})
           x == [T.own_blocks EXCEPT ![o] = e]
           T1 == [At(T, r, "free") EXCEPT !.own_blocks = x]
           B == unlink_request(BlockOf(T, r), r)
<1>1. T \in Table /\ o \in Owners
  BY OwnerOfRequest DEF GoodTable
<1>2. ReleaseRequest(T, r) = PostPending(T1, r, B)
  BY <1>1, AtIs DEF ReleaseRequest, Place
<1>3. q \in Seq(Requests \cup {Repost})
  BY <1>1 DEF Table
<1>4. e \in Seq(Requests \cup {Repost})
  <2> HIDE DEF q
  <2> QED BY <1>3, EntriesAtType
<1> HIDE DEF e
<1>5. x \in [Owners -> Seq(Requests \cup {Repost})]
  BY <1>1, <1>4 DEF Table
<1> HIDE DEF x
<1>6. T1 \in Table /\ T1.lbl = T.lbl /\ T1.pc = [T.pc EXCEPT ![r] = "free"]
  BY <1>1, <1>5 DEF At, Table, Place
<1> HIDE DEF T1
<1>7. r \in Queued(BlockOf(T, r)) /\ BlockOf(T, r) \in GoodBlock
  BY BlockOfGood
<1>8. B \in GoodBlock /\ SettledBut(B, {})
  BY <1>7, UnlinkRequestGood, UnlinkSettled
<1> HIDE DEF B
<1>9. OthersSound(T1, r)
  <2>1. T.pc \in [Requests -> Place]
    BY <1>1 DEF Table
  <2>2. \A y \in Requests : T1.pc[y] = "idle" => T.pc[y] = "idle"
    BY <1>6, <2>1
  <2>3. OthersKept(T, T1, r)
    BY <1>6, <2>2 DEF OthersKept
  <2> QED BY <2>3, OthersSoundKept
<1> QED BY <1>2, <1>6, <1>8, <1>9, PostPendingQueue

\* A thread begins to wait: the lock is sound if it is with the request waiting.
LEMMA BeginWaitQueue ==
  ASSUME NEW T \in GoodTable, NEW r \in Requests, T.pc[r] = "idle",
         NEW B, Keeps(BlockOf(T, r), B), NEW timed \in BOOLEAN, OthersSound(T, r),
         HeadSound(begin_wait(B, r, timed), Asleep(T, lrq_lock[r]) \cup {r})
  PROVE  QueueSound(begin_wait_for_request(T, r, B, timed))
<1> DEFINE D == begin_wait(B, r, timed)
           V == At(WithBlock(T, r, D), r, "wait")
           W == DropFlags(V, lrq_owner[r], {"scanned", "wakeup"})
           U == begin_wait_for_request(T, r, B, timed)
<1>1. /\ T \in Table /\ B \in GoodBlock /\ BlockOf(T, r) \in GoodBlock
      /\ r \in Queued(B) /\ ~IsPending(B, r)
  BY BlockOfGood DEF Keeps
<1>2. /\ D \in GoodBlock /\ D \in Block /\ Queued(D) = Queued(B) /\ IsPending(D, r)
      /\ \A x \in Requests \ {r} : IsPending(D, x) => IsPending(B, x)
      /\ HeadSound(D, Asleep(T, lrq_lock[r]) \cup {r})
  BY <1>1, BeginWaitGood, BeginWaitAdvance DEF GoodBlock
<1> HIDE DEF D
<1>3. /\ V \in Table /\ V.pc = [T.pc EXCEPT ![r] = "wait"] /\ V.dead = T.dead
      /\ V.lbl = [T.lbl EXCEPT ![lrq_lock[r]] = D]
  <2> DEFINE X == WithBlock(T, r, D)
  <2>1. /\ X \in Table /\ X.pc = T.pc /\ X.dead = T.dead
        /\ X.lbl = [T.lbl EXCEPT ![lrq_lock[r]] = D]
    BY <1>1, <1>2, WithBlockIs
  <2> HIDE DEF X
  <2>2. LET Y == At(X, r, "wait")
        IN  /\ Y \in Table /\ Y.lbl = X.lbl /\ Y.dead = X.dead
            /\ Y.pc = [X.pc EXCEPT ![r] = "wait"]
    BY <2>1, AtIs DEF Place
  <2>3. V = At(X, r, "wait")
    BY DEF V, X
  <2> HIDE DEF V
  <2> QED BY <2>1, <2>2, <2>3
<1> HIDE DEF V
<1>4. V \in GoodTable /\ V.pc[r] = "wait"
  <2>1. V.pc[r] = "wait"
    BY <1>1, <1>3 DEF Table
  <2> QED BY <1>1, <1>2, <1>3, <2>1, MoveGood DEF Keeps, Place
<1>5. W \in GoodTable /\ W.pc = V.pc /\ W.lbl = V.lbl
  BY <1>4, DropFlagsGood, OwnerOfRequest
<1> HIDE DEF W
<1>6. QueueSound(W)
  <2>1. \A y \in Requests \ {r} : W.pc[y] = T.pc[y]
    BY <1>1, <1>3, <1>5 DEF Table
  <2>2. Asleep(W, lrq_lock[r]) = Asleep(T, lrq_lock[r]) \cup {r}
    BY <1>4, <1>5, <2>1 DEF Asleep
  <2> QED BY <1>1, <1>2, <1>3, <1>5, <2>1, <2>2, WithBlockQueue
<1>7. /\ U = post_blockage(W, r) /\ U \in GoodTable
      /\ TableFlags(W, U)
      /\ \E where \in {"wait", "post"} : U.pc = [W.pc EXCEPT ![r] = where]
  <2>1. U = post_blockage(W, r)
    BY DEF begin_wait_for_request, W, V, D
  <2> QED BY <1>4, <1>5, <2>1, PostBlockageFlags, PostBlockageGood
<1> HIDE DEF U
<1>8. \A y \in Requests : U.pc[y] = "idle" => W.pc[y] = "idle"
  <2>1. W.pc \in [Requests -> Place]
    BY <1>5 DEF GoodTable, Table
  <2> QED BY <1>4, <1>5, <1>7, <2>1
<1> QED BY <1>5, <1>6, <1>7, <1>8, FlagsQueue DEF U

\* A request that has not been rejected stands for nobody behind it.
LEMMA AwakeHead ==
  ASSUME NEW B, NEW S, NEW R, NEW r, HeadBlocked(B, S), ~Rejected(B, r), S \subseteq R \cup {r}
  PROVE  HeadBlocked(B, R)
BY DEF HeadBlocked

\* A thread leaves wait_for_request: who was rejected has the queue looked at before it
\* stops standing for those behind it.
LEMMA EndWaitQueue ==
  ASSUME NEW T \in GoodTable, NEW r \in Requests, T.pc[r] \in {"wait", "post"},
         ~IsPending(BlockOf(T, r), r), QueueSound(T)
  PROVE  QueueSound(end_wait_for_request(T, r))
<1> DEFINE A == BlockOf(T, r)
           B == end_wait(A, r)
           T1 == At(WithBlock(T, r, B), r, "idle")
           T2 == PostPending(T1, r, B)
           C == end_convert(BlockOf(T2, r), r)
           U == end_wait_for_request(T, r)
           l == lrq_lock[r]
<1>1. T \in Table /\ r \in Queued(A) /\ A \in GoodBlock
  BY BlockOfGood DEF GoodTable
<1>2. Keeps(A, B) /\ B \in Block /\ B \in GoodBlock /\ FlagsOnly(A, B)
  BY <1>1, EndWaitGood, EndWaitOnly DEF Keeps, GoodBlock
<1>3. ~IsPending(A, r) /\ ~IsPending(B, r)
  BY <1>2 DEF FlagsOnly
<1>4. OthersSound(T, r) /\ HeadSound(A, Asleep(T, l))
  BY QueueSoundSplit
<1> HIDE DEF A
<1>5. HeadBlocked(B, Asleep(T, l)) /\ SettledBut(B, {})
  BY <1>1, <1>2, <1>4, FlagsOnlyHead DEF HeadSound
<1> HIDE DEF B
<1>6. /\ T1 \in Table /\ T1.pc = [T.pc EXCEPT ![r] = "idle"] /\ BlockOf(T1, r) = B
      /\ T1.dead = T.dead /\ T1.lbl = [T.lbl EXCEPT ![l] = B]
  <2> DEFINE X == WithBlock(T, r, B)
  <2>1. /\ X \in Table /\ BlockOf(X, r) = B
        /\ X.pc = T.pc /\ X.dead = T.dead /\ X.lbl = [T.lbl EXCEPT ![l] = B]
    BY <1>1, <1>2, WithBlockIs
  <2> HIDE DEF X
  <2>2. LET Y == At(X, r, "idle")
        IN  /\ Y \in Table /\ Y.lbl = X.lbl /\ Y.dead = X.dead
            /\ Y.pc = [X.pc EXCEPT ![r] = "idle"]
    BY <2>1, AtIs DEF Place
  <2>3. T1 = At(X, r, "idle")
    BY DEF T1, X
  <2> HIDE DEF T1
  <2> QED BY <2>1, <2>2, <2>3 DEF BlockOf
<1>7. U = IF ~Rejected(B, r) THEN T1
          ELSE IF B.lrq_state[r] = LCK_none THEN ReleaseRequest(T1, r)
          ELSE WithBlock(T2, r, C)
  BY DEF end_wait_for_request, A, B, Rejected
<1> HIDE DEF T1
<1>8. T1 \in GoodTable /\ T1.pc[r] = "idle"
  <2>1. T1.pc[r] = "idle"
    BY <1>1, <1>6 DEF Table
  <2> QED BY <1>1, <1>2, <1>6, <2>1, MoveGood DEF Keeps, Place, A
<1>9. \A x \in Requests \ {r} : T1.pc[x] = T.pc[x]
  BY <1>1, <1>6 DEF Table
<1>10. OthersSound(T1, r)
  <2>1. OthersKept(T, T1, r)
    <3>1. \A k \in Locks \ {l} : T1.lbl[k] = T.lbl[k]
      BY <1>1, <1>6 DEF Table
    <3> QED BY <1>9, <3>1 DEF OthersKept
  <2> QED BY <1>4, <2>1, OthersSoundKept
<1> HIDE DEF U
<1>11. CASE ~Rejected(B, r)
  <2>1. Asleep(T, l) \subseteq Asleep(T1, l) \cup {r}
    BY <1>9 DEF Asleep
  <2>2. HeadBlocked(B, Asleep(T1, l))
    BY <1>5, <1>11, <2>1, AwakeHead
  <2>3. QueueSound(T1)
    BY <1>5, <1>6, <1>10, <2>2, QueueSoundSplit DEF HeadSound
  <2> QED BY <1>7, <1>11, <2>3 DEF U
<1>12. CASE Rejected(B, r) /\ B.lrq_state[r] = LCK_none
  <2>1. SettledBut(BlockOf(T1, r), {r})
    BY <1>5, <1>6 DEF SettledBut
  <2>2. QueueSound(ReleaseRequest(T1, r))
    BY <1>8, <1>10, <2>1, ReleaseRequestQueue
  <2> QED BY <1>7, <1>12, <2>2 DEF U
<1>13. CASE Rejected(B, r) /\ B.lrq_state[r] # LCK_none
  <2>1. /\ HeadBlocked(BlockOf(T2, r), {}) /\ OthersSound(T2, r) /\ QueueSound(T2)
    BY <1>2, <1>5, <1>6, <1>10, PostPendingQueue
  <2>2. T2 \in GoodTable /\ BlockOf(T2, r) = post_pending(B)
    <3>1. Advance(BlockOf(T1, r), B, {r}) /\ Keeps(BlockOf(T1, r), B)
      BY <1>2, <1>6, AdvanceIdle DEF Keeps
    <3> QED BY <1>2, <1>6, <1>8, <3>1, PostPendingTable, PostPendingTableGood
  <2>3. T2 \in Table /\ BlockOf(T2, r) \in GoodBlock
    BY <2>2, BlockOfGood
  <2>4. r \in Queued(BlockOf(T2, r)) /\ ~IsPending(BlockOf(T2, r), r)
    <3>1. SameIn(B, post_pending(B), r)
      BY <1>2, <1>3, PostPendingAdvance DEF Advance, GrantedIn
    <3>2. r \in Queued(post_pending(B))
      BY <1>1, <1>2, PostPendingGood DEF Keeps
    <3> QED BY <1>3, <2>2, <3>1, <3>2 DEF SameIn
  <2>5. SettledBut(BlockOf(T2, r), {r})
    BY <2>1, QueueSoundSplit DEF HeadSound, SettledBut
  <2> HIDE DEF T2
  <2>6. HeadBlocked(C, {}) /\ SettledBut(C, {})
    BY <2>1, <2>3, <2>4, <2>5, EndConvertHead
  <2>7. C \in Block
    BY <2>3, <2>4, EndConvertGood DEF Keeps, GoodBlock
  <2> HIDE DEF C
  <2>8. U = WithBlock(T2, r, C)
    BY <1>7, <1>13
  <2>9. U.lbl = [T2.lbl EXCEPT ![lrq_lock[r]] = C] /\ U.pc = T2.pc
    BY <2>3, <2>7, <2>8, WithBlockIs
  <2>10. HeadSound(C, Asleep(U, lrq_lock[r]))
    BY <2>6, MoreAsleep DEF HeadSound
  <2> QED BY <2>1, <2>3, <2>9, <2>10, WithBlockQueue DEF U
<1> QED BY <1>11, <1>12, <1>13

\* The requests of dead processes go: each lock that loses one is looked at.
LEMMA ProbeQueue ==
  ASSUME NEW T \in GoodTable, QueueSound(T)
  PROVE  QueueSound(probe_processes(T))
<1> DEFINE U == probe_processes(T)
<1>1. CASE T.dead = {}
  <2>1. U = T
    BY <1>1 DEF probe_processes
  <2> QED BY <2>1
<1>2. CASE T.dead # {}
  <2> DEFINE gone == {o \in T.lhb_owners : own_process[o] \in T.dead}
             theirs(l) == {r \in Queued(T.lbl[l]) : lrq_owner[r] \in gone}
  <2>1. /\ \A x \in Requests : U.pc[x] = IF lrq_owner[x] \in gone THEN "free" ELSE T.pc[x]
        /\ \A l \in Locks : \/ U.lbl[l] = T.lbl[l]
                            \/ \E r \in theirs(l) : U.lbl[l] = release_request(T.lbl[l], r)
    BY <1>2, ProbeProcessesIs
  <2> HIDE DEF U
  <2>2. ASSUME NEW l \in Locks PROVE HeadBlocked(U.lbl[l], Asleep(U, l)) /\ SettledBut(U.lbl[l], {})
    <3>1. Asleep(T, l) \subseteq Asleep(U, l)
      BY <2>1 DEF Asleep
    <3>2. T.lbl[l] \in GoodBlock /\ HeadBlocked(T.lbl[l], Asleep(T, l)) /\ SettledBut(T.lbl[l], {})
      BY DEF GoodTable, QueueSound
    <3>3. CASE U.lbl[l] = T.lbl[l]
      BY <3>1, <3>2, <3>3, MoreAsleep
    <3>4. ASSUME NEW r \in theirs(l), U.lbl[l] = release_request(T.lbl[l], r)
          PROVE  HeadBlocked(U.lbl[l], Asleep(U, l)) /\ SettledBut(U.lbl[l], {})
      <4> DEFINE B == T.lbl[l]
                 C == unlink_request(B, r)
      <4>1. B \in GoodBlock /\ r \in Queued(B) /\ SettledBut(B, {r})
        BY <3>2 DEF SettledBut
      <4>2. C \in GoodBlock /\ SettledBut(C, {})
        BY <4>1, UnlinkRequestGood, UnlinkSettled
      <4>3. U.lbl[l] = post_pending(C)
        BY <3>4 DEF release_request
      <4> HIDE DEF C
      <4>4. HeadBlocked(U.lbl[l], {}) /\ SettledBut(U.lbl[l], {})
        BY <4>2, <4>3, PostPendingHead
      <4> QED BY <4>4, MoreAsleep
    <3> QED BY <2>1, <3>3, <3>4
  <2>3. QueueSound(U)
    BY <2>2 DEF QueueSound
  <2> QED BY <2>3 DEF U
<1> QED BY <1>1, <1>2

\* A waiting request is rejected.
LEMMA RejectQueue ==
  ASSUME NEW T \in GoodTable, NEW v \in Requests, IsPending(BlockOf(T, v), v), QueueSound(T)
  PROVE  QueueSound(WithBlock(T, v, reject(BlockOf(T, v), v)))
<1> DEFINE A == BlockOf(T, v)
           C == reject(A, v)
           U == WithBlock(T, v, C)
           l == lrq_lock[v]
<1>1. T \in Table /\ A \in GoodBlock /\ v \in Queued(A) /\ T.pc[v] # "idle"
  <2>1. v \in Queued(A)
    BY QueuedHere
  <2> QED BY <2>1, BlockOfGood DEF GoodTable
<1>2. OthersSound(T, v) /\ HeadSound(A, Asleep(T, l))
  BY QueueSoundSplit
<1>3. v \in Asleep(T, l)
  BY <1>1 DEF Asleep
<1>4. HeadSound(C, Asleep(T, l))
  <2> HIDE DEF A
  <2> QED BY <1>1, <1>2, <1>3, RejectHead DEF HeadSound, A
<1>5. C \in Block
  BY <1>1, RejectGood DEF Keeps, GoodBlock
<1> HIDE DEF C
<1>6. U.lbl = [T.lbl EXCEPT ![l] = C] /\ U.pc = T.pc
  BY <1>1, <1>5, WithBlockIs
<1> HIDE DEF U
<1>7. HeadSound(C, Asleep(U, l))
  BY <1>4, <1>6 DEF Asleep
<1>8. QueueSound(U)
  BY <1>1, <1>2, <1>6, <1>7, WithBlockQueue
<1> QED BY <1>8 DEF U, C

---------------------------------------------------------------------------
(* The actions.                                                          *)

\* A step of no request keeps every queue.
LEMMA QuietQueue ==
  ASSUME NEW T, NEW U, NoMove(T, U), QueueSound(T)
  PROVE  QueueSound(U)
<1>1. T \in GoodTable /\ U \in GoodTable /\ TableFlags(T, U)
  BY DEF NoMove, SoundStep, SoundTable
<1>2. \A x \in Requests : U.pc[x] = "idle" => T.pc[x] = "idle"
  BY DEF NoMove, SamePlaces
<1> QED BY <1>1, <1>2, FlagsQueue

\* create_owner purges the owners of dead processes.
LEMMA InitializeOwnerQueue ==
  ASSUME Now \in SoundTable, QueueSound(Now), NEW o \in Owners, InitializeOwner(o)
  PROVE  QueueSound(Now')
<1> DEFINE T == probe_processes(Now)
<1>1. T \in Table /\ QueueSound(T)
  BY SoundNow, ProbeProcessesGood, ProbeQueue DEF GoodTable
<1>2. lbl' = T.lbl /\ pc' = T.pc
  <2> HIDE DEF T
  <2>1. InitializeOwner(o) <=>
          o \notin T.lhb_owners /\ Becomes([T EXCEPT !.lhb_owners = @ \cup {o},
                             !.own_count = [@ EXCEPT ![o] = 1],
                             !.own_flags = [@ EXCEPT ![o] = {}],
                             !.own_blocks = [@ EXCEPT ![o] = << >>]])
    BY DEF InitializeOwner, T
  <2> QED BY <1>1, <2>1 DEF Becomes, Table
<1> HIDE DEF T
<1>3. Now'.lbl = T.lbl /\ Now'.pc = T.pc
  BY <1>2 DEF Now
<1> QED BY <1>1, <1>3, SameQueue

\* What the invariant says of the lock of a request held.
LEMMA IdleQueue ==
  ASSUME Now \in SoundTable, QueueSound(Now), NEW r \in Requests, pc[r] = "idle"
  PROVE  LET A == BlockOf(Now, r)
             S == Asleep(Now, lrq_lock[r])
         IN  /\ OthersSound(Now, r) /\ HeadBlocked(A, S) /\ SettledBut(A, {}) /\ r \notin S
             /\ Now \in GoodTable /\ Now \in Table
<1>1. Now \in GoodTable /\ Now \in Table /\ Now.pc[r] = "idle"
  BY SoundNow DEF GoodTable
<1>2. OthersSound(Now, r) /\ HeadSound(BlockOf(Now, r), Asleep(Now, lrq_lock[r]))
  BY QueueSoundSplit
<1> QED BY <1>1, <1>2 DEF HeadSound, Asleep

\* dequeue, and a downgrade to nothing.
LEMMA ReleaseQueue ==
  ASSUME Now \in SoundTable, QueueSound(Now), NEW r \in Requests, pc[r] = "idle",
         Becomes(ReleaseRequest(Now, r))
  PROVE  QueueSound(Now')
<1>1. /\ OthersSound(Now, r) /\ SettledBut(BlockOf(Now, r), {}) /\ Now \in GoodTable
      /\ Now.pc[r] = "idle"
  BY IdleQueue, SoundNow
<1>2. SettledBut(BlockOf(Now, r), {r})
  BY <1>1 DEF SettledBut
<1>3. QueueSound(ReleaseRequest(Now, r))
  BY <1>1, <1>2, ReleaseRequestQueue
<1>4. ReleaseRequest(Now, r) \in GoodTable
  BY <1>1, ReleaseRequestTable
<1>5. Now' = ReleaseRequest(Now, r)
  BY <1>4, BecomesIs
<1> QED BY <1>3, <1>5

\* internal_convert: granted, the queue is looked at; given up, nothing changes; waiting,
\* the other holders are in the way.
LEMMA ConvertQueue ==
  ASSUME Now \in SoundTable, QueueSound(Now), NEW r \in Requests, pc[r] = "idle",
         NEW type \in Level \ {LCK_none}, NEW lck_wait, internal_convert(r, type, lck_wait)
  PROVE  QueueSound(Now')
<1> DEFINE A == BlockOf(Now, r)
           B == begin_convert(A, r, type)
           S == Asleep(Now, lrq_lock[r])
           fits == compatibility(type, StateWithout(B, r))
<1>1. \/ fits /\ Becomes(GrantAndPost(Now, r, grant_convert(B, r)))
      \/ Becomes(WithBlock(Now, r, end_convert(B, r)))
      \/ ~fits /\ Becomes(begin_wait_for_request(Now, r, B, lck_wait = "timeout"))
  BY DEF internal_convert
<1>2. /\ A \in GoodBlock /\ r \in Queued(A) /\ Now.pc[r] = "idle"
      /\ ~IsPending(A, r) /\ A.lrq_state[r] # LCK_none /\ Now \in GoodTable /\ Now \in Table
  BY IdleHolds, SoundNow DEF GoodTable
<1>3. OthersSound(Now, r) /\ HeadBlocked(A, S) /\ SettledBut(A, {}) /\ r \notin S
  BY IdleQueue
<1> HIDE DEF S
<1>4. /\ Keeps(A, B) /\ B \in GoodBlock /\ r \in Queued(B) /\ B.lrq_requested[r] = type
      /\ Advance(A, B, {r}) /\ B.lrq_state = A.lrq_state /\ ~IsPending(B, r)
  BY <1>2, BeginConvertGood, BeginConvertAdvance DEF Keeps
<1> HIDE DEF A
<1>5. HeadBlocked(B, S) /\ SettledBut(B, {r})
  BY <1>2, <1>3, BeginConvertHead
<1> HIDE DEF B, fits
<1>6. ASSUME fits, Becomes(GrantAndPost(Now, r, grant_convert(B, r)))
      PROVE  QueueSound(Now')
  <2> DEFINE G == grant_convert(B, r)
             V == GrantAndPost(Now, r, G)
  <2>1. Keeps(A, G) /\ G \in GoodBlock
    BY <1>4, <1>6, GrantConvertGood DEF Keeps, fits
  <2>2. SettledBut(G, {})
    BY <1>4, <1>5, GrantSettled
  <2>3. Advance(A, G, {r})
    <3>1. Advance(B, G, {r})
      BY <1>4, GrantConvertAdvance
    <3> HIDE DEF G
    <3> QED BY <1>4, <3>1, AdvanceTwice
  <2> HIDE DEF G
  <2>4. V \in GoodTable
    BY <1>2, <2>1, <2>3, GrantAndPostTable, GrantAndPostGood DEF A
  <2>5. QueueSound(V)
    BY <1>2, <1>3, <2>1, <2>2, GrantAndPostQueue
  <2>6. Becomes(V)
    BY <1>6 DEF G
  <2> HIDE DEF V
  <2> QED BY <2>4, <2>5, <2>6, BecomesIs
<1>7. ASSUME Becomes(WithBlock(Now, r, end_convert(B, r)))
      PROVE  QueueSound(Now')
  <2> DEFINE G == end_convert(B, r)
             V == WithBlock(Now, r, G)
  <2>1. Keeps(A, G) /\ G \in Block
    BY <1>4, EndConvertGood DEF Keeps, GoodBlock
  <2>2. HeadSound(G, S)
    BY <1>3, <1>4, <1>5, EndConvertHead DEF HeadSound
  <2> HIDE DEF G
  <2>3. V \in GoodTable
    BY <1>2, <2>1, WithBlockGood DEF A
  <2>4. V.lbl = [Now.lbl EXCEPT ![lrq_lock[r]] = G] /\ V.pc = Now.pc
    BY <1>2, <2>1, WithBlockIs
  <2>5. Becomes(V)
    BY <1>7 DEF G
  <2> HIDE DEF V
  <2>6. HeadSound(G, Asleep(V, lrq_lock[r]))
    BY <2>2, <2>4 DEF S, Asleep
  <2>7. QueueSound(V)
    BY <1>2, <1>3, <2>4, <2>6, WithBlockQueue
  <2> QED BY <2>3, <2>5, <2>7, BecomesIs
<1>8. ASSUME ~fits, Becomes(begin_wait_for_request(Now, r, B, lck_wait = "timeout"))
      PROVE  QueueSound(Now')
  <2> DEFINE timed == lck_wait = "timeout"
             V == begin_wait_for_request(Now, r, B, timed)
  <2>1. timed \in BOOLEAN
    OBVIOUS
  <2> HIDE DEF timed
  <2>2. V \in GoodTable
    BY <1>2, <1>4, <2>1, BeginWaitTable DEF A
  <2>3. HeadBlocked(begin_wait(B, r, timed), S) /\ SettledBut(begin_wait(B, r, timed), {})
    <3>1. B.lrq_state[r] # LCK_none /\ ~compatibility(B.lrq_requested[r], StateWithout(B, r))
      BY <1>2, <1>4, <1>8 DEF fits
    <3> QED BY <1>3, <1>4, <1>5, <2>1, <3>1, ConvertWaitHead
  <2>4. HeadSound(begin_wait(B, r, timed), S \cup {r})
    <3> DEFINE C == begin_wait(B, r, timed)
    <3>1. HeadBlocked(C, S) /\ SettledBut(C, {})
      BY <2>3
    <3> HIDE DEF C
    <3>2. HeadSound(C, S \cup {r})
      BY <3>1, MoreAsleep DEF HeadSound
    <3> QED BY <3>2 DEF C
  <2>5. QueueSound(V)
    BY <1>2, <1>3, <1>4, <2>1, <2>4, BeginWaitQueue DEF A, S
  <2>6. Becomes(V)
    BY <1>8 DEF timed
  <2> HIDE DEF V
  <2> QED BY <2>2, <2>5, <2>6, BecomesIs
<1> QED BY <1>1, <1>6, <1>7, <1>8

\* enqueue: the prior request of the caller has left; the new one is granted and the queue
\* looked at, refused and taken off the queue, or waits for a good reason.
LEMMA EnqueueQueue ==
  ASSUME Now \in SoundTable, QueueSound(Now), NEW r \in Requests,
         NEW type \in Level \ {LCK_none}, NEW lck_wait, Enqueue(r, type, lck_wait)
  PROVE  QueueSound(Now')
<1> DEFINE T == IF pc[r] = "idle" THEN ReleaseRequest(Now, r) ELSE Now
           A == BlockOf(T, r)
           B == insert_request(A, r, type)
           T1 == At(WithBlock(T, r, B), r, "idle")
           k == lrq_lock[r]
           S == Asleep(T, k)
<1>1. pc[r] \in {"free", "idle"}
  BY DEF Enqueue
<1>2. T \in GoodTable /\ T \in Table /\ T.pc[r] = "free"
  BY <1>1, EnqueueBegins DEF GoodTable
<1>3. QueueSound(T)
  <2>1. CASE pc[r] = "idle"
    <3>1. OthersSound(Now, r) /\ SettledBut(BlockOf(Now, r), {}) /\ Now \in GoodTable
      BY <2>1, IdleQueue
    <3>2. SettledBut(BlockOf(Now, r), {r}) /\ Now.pc[r] # "free"
      BY <2>1, <3>1, SoundNow DEF SettledBut
    <3> QED BY <2>1, <3>1, <3>2, ReleaseRequestQueue
  <2>2. CASE pc[r] # "idle"
    BY <2>2
  <2> QED BY <2>1, <2>2
<1>4. \/ grant_now(A, type) /\ Becomes(GrantAndPost(T1, r, grant(B, r)))
      \/ Becomes(ReleaseRequest(T1, r))
      \/ ~grant_now(A, type) /\ Becomes(begin_wait_for_request(T1, r, B, lck_wait = "timeout"))
  BY DEF Enqueue
<1> HIDE DEF T
<1>5. A \in GoodBlock /\ r \notin Queued(A) /\ k \in Locks
  BY <1>2, BlockOfGood
<1>6. OthersSound(T, r) /\ HeadBlocked(A, S) /\ SettledBut(A, {})
  BY <1>3, QueueSoundSplit DEF HeadSound
<1> HIDE DEF A
<1>7. /\ B \in GoodBlock /\ B \in Block
      /\ Queued(B) = Queued(A) \cup {r} /\ B.lrq_requested[r] = type
      /\ B.lrq_state[r] = LCK_none /\ B.lrq_state = A.lrq_state /\ ~IsPending(B, r)
      /\ \A x \in Requests : IsPending(B, x) => IsPending(A, x)
  BY <1>5, InsertRequestGood DEF GoodBlock
<1>8. B.lbl_state = A.lbl_state
  BY <1>5, <1>7, GoodBlockCounts
<1>9. SettledBut(B, {r})
  BY <1>5, <1>6, InsertHead
<1>10. /\ T1 \in Table /\ T1.lbl = [T.lbl EXCEPT ![k] = B]
       /\ T1.pc = [T.pc EXCEPT ![r] = "idle"] /\ T1.dead = T.dead
  <2> HIDE DEF B
  <2> QED BY <1>2, <1>5, <1>7 DEF At, WithBlock, Table, Place
<1>11. BlockOf(T1, r) = B /\ T1.pc[r] = "idle"
  BY <1>2, <1>5, <1>10 DEF BlockOf, Table
<1> HIDE DEF T1
<1>12. T1 \in GoodTable
  <2> HIDE DEF B
  <2>1. Queued(B) \ {r} = Queued(BlockOf(T, r)) \ {r} /\ r \in Queued(B)
    BY <1>5, <1>7 DEF A
  <2>2. \A x \in Requests \ {r} : IsPending(B, x) => IsPending(BlockOf(T, r), x)
    BY <1>7 DEF A
  <2> QED BY <1>2, <1>7, <1>10, <1>11, <2>1, <2>2, MoveGood DEF Place
<1>13. \A x \in Requests \ {r} : T1.pc[x] = T.pc[x]
  BY <1>2, <1>10 DEF Table
<1>14. OthersSound(T1, r)
  <2>1. \A l \in Locks \ {k} : T1.lbl[l] = T.lbl[l]
    BY <1>2, <1>10 DEF Table
  <2>2. OthersKept(T, T1, r)
    BY <1>13, <2>1 DEF OthersKept
  <2> QED BY <1>6, <2>2, OthersSoundKept
<1>15. S \subseteq Asleep(T1, k) \cup {r}
  BY <1>13 DEF Asleep
<1> HIDE DEF S
<1>16. ASSUME grant_now(A, type), Becomes(GrantAndPost(T1, r, grant(B, r)))
       PROVE  QueueSound(Now')
  <2> DEFINE G == grant(B, r)
             V == GrantAndPost(T1, r, G)
  <2>1. r \in Queued(B)
    BY <1>7
  <2>2. SettledBut(G, {}) /\ Advance(B, G, {r})
    <3> HIDE DEF B
    <3> QED BY <1>7, <1>9, <2>1, GrantSettled, GrantAdvance
  <2>3. Keeps(B, G) /\ G \in GoodBlock
    <3> HIDE DEF B
    <3>1. compatibility(B.lrq_requested[r], B.lbl_state)
      BY <1>7, <1>8, <1>16 DEF grant_now
    <3> QED BY <1>7, <2>1, <3>1, GrantGood DEF Keeps
  <2>4. Becomes(V)
    BY <1>16
  <2> HIDE DEF G, B
  <2>5. V \in GoodTable
    BY <1>10, <1>11, <1>12, <2>2, <2>3, GrantAndPostTable, GrantAndPostGood
  <2>6. QueueSound(V)
    BY <1>10, <1>14, <2>2, <2>3, GrantAndPostQueue
  <2> HIDE DEF V
  <2> QED BY <2>4, <2>5, <2>6, BecomesIs
<1>17. ASSUME Becomes(ReleaseRequest(T1, r))
       PROVE  QueueSound(Now')
  <2> HIDE DEF B
  <2>1. SettledBut(BlockOf(T1, r), {r}) /\ T1.pc[r] # "free"
    BY <1>9, <1>11
  <2>2. QueueSound(ReleaseRequest(T1, r))
    BY <1>12, <1>14, <2>1, ReleaseRequestQueue
  <2>3. ReleaseRequest(T1, r) \in GoodTable
    BY <1>12, <2>1, ReleaseRequestTable
  <2> QED BY <1>17, <2>2, <2>3, BecomesIs
<1>18. ASSUME ~grant_now(A, type), Becomes(begin_wait_for_request(T1, r, B, lck_wait = "timeout"))
       PROVE  QueueSound(Now')
  <2> DEFINE timed == lck_wait = "timeout"
             V == begin_wait_for_request(T1, r, B, timed)
             C == begin_wait(B, r, timed)
  <2>1. timed \in BOOLEAN
    OBVIOUS
  <2> HIDE DEF timed
  <2>2. HeadBlocked(C, S) /\ SettledBut(C, {})
    BY <1>5, <1>6, <1>18, <2>1, NewWaiterHead
  <2>3. Becomes(V)
    BY <1>18 DEF timed
  <2> HIDE DEF B, C
  <2>4. HeadSound(C, Asleep(T1, k) \cup {r})
    BY <1>15, <2>2, MoreAsleep DEF HeadSound
  <2>5. Keeps(BlockOf(T1, r), B) /\ Advance(BlockOf(T1, r), B, {r})
    BY <1>7, <1>11, AdvanceIdle DEF Keeps
  <2>6. V \in GoodTable
    BY <1>11, <1>12, <2>1, <2>5, BeginWaitTable
  <2>7. QueueSound(V)
    BY <1>11, <1>12, <1>14, <2>1, <2>4, <2>5, BeginWaitQueue DEF C
  <2> HIDE DEF V
  <2> QED BY <2>3, <2>6, <2>7, BecomesIs
<1> QED BY <1>4, <1>16, <1>17, <1>18

\* Every call on a request.
LEMMA RequestStepQueue ==
  ASSUME Now \in SoundTable, QueueSound(Now), NEW r \in Requests, RequestStep(r)
  PROVE  QueueSound(Now')
<1>1. ASSUME NEW type \in RequestLevels[r], NEW lck_wait \in WaitModes[r],
             Enqueue(r, type, lck_wait) \/ Convert(r, type, lck_wait)
      PROVE  QueueSound(Now')
  <2>1. type \in Level \ {LCK_none}
    BY ManagerAssumption DEF GrantedLevel, Level
  <2>2. CASE Enqueue(r, type, lck_wait)
    BY <2>1, <2>2, EnqueueQueue
  <2>3. CASE Convert(r, type, lck_wait)
    <3>1. pc[r] = "idle" /\ internal_convert(r, type, lck_wait)
      BY <2>3 DEF Convert
    <3> QED BY <2>1, <3>1, ConvertQueue
  <2> QED BY <1>1, <2>2, <2>3
<1>2. ASSUME Dequeue(r) PROVE QueueSound(Now')
  BY <1>2, ReleaseQueue DEF Dequeue
<1>3. ASSUME Downgrade(r) PROVE QueueSound(Now')
  <2> DEFINE to == DowngradeTo(BlockOf(Now, r), r)
  <2>1. to \in Level
    BY SoundNow, BlockOfGood, DowngradeToType
  <2>2. /\ pc[r] = "idle"
        /\ \/ Becomes(ReleaseRequest(Now, r))
           \/ to > LCK_null /\ internal_convert(r, to, "no_wait")
    BY <1>3 DEF Downgrade
  <2> HIDE DEF to
  <2>3. to > LCK_null => to \in Level \ {LCK_none}
    BY <2>1
  <2> QED BY <2>2, <2>3, ReleaseQueue, ConvertQueue
<1> QED BY <1>1, <1>2, <1>3 DEF RequestStep

\* The thread waiting for r leaves wait_for_request.
LEMMA WaitEndsQueue ==
  ASSUME NEW W \in GoodTable, NEW r \in Requests, W.pc[r] \in {"wait", "post"},
         ~IsPending(BlockOf(W, r), r), QueueSound(W), Becomes(end_wait_for_request(W, r))
  PROVE  QueueSound(Now')
<1>1. end_wait_for_request(W, r) \in GoodTable
  BY EndWaitTable
<1>2. QueueSound(end_wait_for_request(W, r))
  BY EndWaitQueue
<1> QED BY <1>1, <1>2, BecomesIs

\* Owner flags are not the queue's business.
LEMMA DropFlagsQueue ==
  ASSUME NEW T \in GoodTable, NEW r \in Requests, NEW F, QueueSound(T)
  PROVE  LET U == DropFlags(T, lrq_owner[r], F)
         IN  U \in GoodTable /\ QueueSound(U) /\ U.lbl = T.lbl /\ U.pc = T.pc
BY DropFlagsGood, SameQueue, OwnerOfRequest

\* The thread finds its request granted, or rejected by somebody's deadlock scan.
LEMMA WaitResolvedQueue ==
  ASSUME Now \in SoundTable, QueueSound(Now), NEW r \in Requests, WaitResolved(r)
  PROVE  QueueSound(Now')
<1>1. /\ Now \in GoodTable /\ Now.pc[r] = "wait" /\ ~IsPending(BlockOf(Now, r), r)
      /\ Becomes(end_wait_for_request(Now, r))
  BY SoundNow DEF WaitResolved, Waiting
<1> QED BY <1>1, WaitEndsQueue

\* The purge before a scan grants the request.
LEMMA WaitScanResolvedQueue ==
  ASSUME Now \in SoundTable, QueueSound(Now), NEW r \in Requests, WaitScanResolved(r)
  PROVE  QueueSound(Now')
<1> DEFINE T == probe_processes(Now)
<1>1. /\ Waiting(r) /\ ~IsPending(BlockOf(T, r), r) /\ Becomes(end_wait_for_request(T, r))
  BY DEF WaitScanResolved, ScanDue
<1>2. T \in GoodTable /\ T.pc[r] = "wait" /\ QueueSound(T)
  BY <1>1, SoundNow, PurgeFirst, ProbeQueue
<1> HIDE DEF T
<1> QED BY <1>1, <1>2, WaitEndsQueue

\* A timeout or a cancellation: the request stands for those behind it from its rejection
\* until it leaves.
LEMMA WaitRejectedQueue ==
  ASSUME Now \in SoundTable, QueueSound(Now), NEW r \in Requests, WaitRejected(r)
  PROVE  QueueSound(Now')
<1> DEFINE o == lrq_owner[r]
           T == DropFlags(Now, o, {"wakeup"})
           B == reject(BlockOf(T, r), r)
           V == WithBlock(T, r, B)
           W == probe_processes(V)
           D == DeadRequests(Now)
<1>0. Now \in GoodTable /\ Registered(Now)
  BY SoundNow
<1>1. T \in GoodTable /\ T \in Table /\ T.lbl = Now.lbl /\ T.pc = Now.pc /\ QueueSound(T)
  BY <1>0, DropFlagsQueue DEF GoodTable
<1>2. SameOwners(Now, T) /\ T.dead = Now.dead
  BY DEF DropFlags, Now, SameOwners
<1>3. /\ Waiting(r) /\ IsPending(BlockOf(T, r), r)
      /\ Becomes(end_wait_for_request(W, r))
  BY <1>1 DEF WaitRejected, BlockOf
<1> HIDE DEF T
<1>4. BlockOf(T, r) \in GoodBlock /\ r \in Queued(BlockOf(T, r)) /\ lrq_lock[r] \in Locks
  BY <1>1, <1>3, BlockOfGood, QueuedHere
<1>5. Keeps(BlockOf(T, r), B) /\ ~IsPending(B, r)
  BY <1>3, <1>4, RejectGood, RejectAdvance
<1>6. QueueSound(V)
  BY <1>1, <1>3, RejectQueue
<1> HIDE DEF B
<1>7. V \in GoodTable /\ V.pc = T.pc /\ BlockOf(V, r) = B
  BY <1>1, <1>5, WithBlockGood
<1>8. SameOwners(T, V) /\ V.dead = T.dead
  BY <1>1, WithBlockIs
<1> HIDE DEF V
<1>9. Registered(V) /\ DeadRequests(V) = D
  <2>1. SameOwners(Now, V) /\ V.pc = Now.pc
    BY <1>1, <1>2, <1>7, <1>8 DEF SameOwners
  <2> QED BY <1>0, <1>2, <1>8, <2>1, RegisteredKept DEF DeadRequests
<1>10. /\ W \in GoodTable /\ TableAdvance(V, W, D)
       /\ \A x \in Requests : W.pc[x] = IF x \in D THEN "free" ELSE V.pc[x]
  BY <1>7, <1>9, ProbeProcessesAdvance
<1>11. r \notin D /\ Now.pc[r] = "wait"
  BY <1>3, PurgeFirst
<1>12. QueueSound(W)
  BY <1>6, <1>7, ProbeQueue
<1> HIDE DEF W
<1>13. ~IsPending(BlockOf(W, r), r)
  <2>1. Advance(B, BlockOf(W, r), D)
    BY <1>4, <1>7, <1>10 DEF TableAdvance, BlockOf
  <2> QED BY <1>5, <1>11, <2>1 DEF Advance, SameIn, GrantedIn
<1>14. W.pc[r] = "wait"
  BY <1>1, <1>7, <1>10, <1>11
<1> QED BY <1>3, <1>10, <1>12, <1>13, <1>14, WaitEndsQueue

\* A deadlock: the victim stands for those behind it until its own thread leaves.
LEMMA WaitScanDeadlockQueue ==
  ASSUME Now \in SoundTable, QueueSound(Now), NEW r \in Requests, WaitScanDeadlock(r)
  PROVE  QueueSound(Now')
<1> DEFINE P == probe_processes(Now)
<1>1. Waiting(r)
  BY DEF WaitScanDeadlock, ScanDue
<1>2. PICK v \in deadlock_walk(P, r) :
        LET T1 == DropFlags(WithBlock(P, v, reject(BlockOf(P, v), v)),
                            lrq_owner[v], {"scanned"})
        IN  Becomes(IF v = r THEN end_wait_for_request(T1, r) ELSE post_wakeup(T1, {v}))
  BY DEF WaitScanDeadlock
<1>3. P \in GoodTable /\ P \in Table /\ P.pc[r] = "wait" /\ QueueSound(P)
  BY <1>1, SoundNow, PurgeFirst, ProbeQueue DEF GoodTable
<1>4. v \in Requests /\ IsPending(BlockOf(P, v), v)
  BY <1>2 DEF deadlock_walk
<1> HIDE DEF P
<1> DEFINE B == reject(BlockOf(P, v), v)
           V == WithBlock(P, v, B)
           T1 == DropFlags(V, lrq_owner[v], {"scanned"})
<1>5. BlockOf(P, v) \in GoodBlock /\ v \in Queued(BlockOf(P, v))
  BY <1>3, <1>4, BlockOfGood, QueuedHere
<1>6. Keeps(BlockOf(P, v), B) /\ ~IsPending(B, v)
  BY <1>4, <1>5, RejectGood, RejectAdvance
<1>7. Becomes(IF v = r THEN end_wait_for_request(T1, r) ELSE post_wakeup(T1, {v}))
  BY <1>2
<1>8. QueueSound(V)
  BY <1>3, <1>4, RejectQueue
<1> HIDE DEF B
<1>9. V \in GoodTable /\ V.pc = P.pc /\ BlockOf(V, v) = B
  BY <1>3, <1>4, <1>6, WithBlockGood
<1> HIDE DEF V
<1>10. T1 \in GoodTable /\ QueueSound(T1) /\ T1.lbl = V.lbl /\ T1.pc = P.pc
  BY <1>4, <1>8, <1>9, DropFlagsQueue
<1>11. T1 \in Table /\ BlockOf(T1, v) = B
  BY <1>9, <1>10 DEF BlockOf, GoodTable
<1> HIDE DEF T1
<1>12. CASE v = r
  BY <1>3, <1>4, <1>6, <1>7, <1>10, <1>11, <1>12, WaitEndsQueue
<1>13. CASE v # r
  <2> DEFINE U == post_wakeup(T1, {v})
  <2>1. U \in GoodTable /\ U.lbl = T1.lbl /\ U.pc = T1.pc
    BY <1>10, <1>11, PostWakeupIs, PostWakeupGood
  <2>2. Becomes(U)
    BY <1>7, <1>13
  <2> HIDE DEF U
  <2> QED BY <1>10, <2>1, <2>2, SameQueue, BecomesIs
<1> QED BY <1>12, <1>13

\* No deadlock is found; the holders are told again.
LEMMA WaitScanRepostQueue ==
  ASSUME Now \in SoundTable, QueueSound(Now), NEW r \in Requests, WaitScanRepost(r)
  PROVE  QueueSound(Now')
<1> DEFINE P == probe_processes(Now)
           o == lrq_owner[r]
           certain == Scannable(P, r) /\ ~maybe_deadlock(P, r)
           F == [P.own_flags EXCEPT ![o] = P.own_flags[o] \cup (IF certain THEN {"scanned"} ELSE {})]
           T1 == [P EXCEPT !.own_flags = F]
           U == post_blockage(T1, r)
<1>1. Waiting(r)
  BY DEF WaitScanRepost, ScanDue
<1>2. P \in GoodTable /\ P \in Table /\ P.pc[r] = "wait" /\ o \in Owners /\ QueueSound(P)
  BY <1>1, SoundNow, PurgeFirst, ProbeQueue, OwnerOfRequest DEF GoodTable
<1>3. Becomes(U)
  BY DEF WaitScanRepost, ScanAndRepost
<1> HIDE DEF P, certain
<1>4. F \in [Owners -> SUBSET OwnFlag]
  BY <1>2 DEF Table, OwnFlag
<1> HIDE DEF F
<1>5. T1 \in Table /\ T1.lbl = P.lbl /\ T1.pc = P.pc /\ T1.dead = P.dead
  BY <1>2, <1>4 DEF Table
<1> HIDE DEF T1
<1>6. T1 \in GoodTable /\ QueueSound(T1)
  BY <1>2, <1>5, SameLocks, SameQueue
<1>7. /\ U \in GoodTable /\ TableFlags(T1, U)
      /\ \E where \in {"wait", "post"} : U.pc = [T1.pc EXCEPT ![r] = where]
  BY <1>2, <1>5, <1>6, PostBlockageGood, PostBlockageFlags
<1> HIDE DEF U
<1>8. \A y \in Requests : U.pc[y] = "idle" => T1.pc[y] = "idle"
  <2>1. T1.pc \in [Requests -> Place]
    BY <1>5 DEF Table
  <2> QED BY <1>7, <2>1
<1>9. QueueSound(U)
  BY <1>6, <1>7, <1>8, FlagsQueue
<1> QED BY <1>3, <1>7, <1>9, BecomesIs

---------------------------------------------------------------------------
(* The specification.                                                    *)

\* Every step of the lock manager keeps every queue.
LEMMA QueueNext ==
  ASSUME Now \in SoundTable, QueueSound(Now), Next
  PROVE  QueueSound(Now')
<1>1. ASSUME NEW o \in Owners, OwnerStep(o) PROVE QueueSound(Now')
  BY <1>1, InitializeAgainStep, InitializeOwnerQueue, ShutdownOwnerStep, PurgeOwnerStep,
     RepostAstStep, CancelWaitStep, QuietQueue DEF OwnerStep
<1>2. ASSUME NEW r \in Requests, WaitStep(r) PROVE QueueSound(Now')
  BY <1>2, WaitResolvedQueue, WaitWokenStep, WaitRejectedQueue, WaitScanResolvedQueue,
     WaitScanDeadlockQueue, WaitScanRepostQueue, QuietQueue DEF WaitStep
<1>3. ASSUME NEW t \in Threads, AstReturns(t) PROVE QueueSound(Now')
  BY <1>3, AstReturnsStep, QuietQueue
<1>4. ASSUME NEW p \in Processes, ProcessDies(p) \/ BlockingThreadWakes(p)
      PROVE  QueueSound(Now')
  BY <1>4, ProcessDiesStep, BlockingThreadWakesStep, QuietQueue
<1> QED BY <1>1, <1>2, <1>3, <1>4, RequestStepQueue DEF Next

\* Nobody waits in an empty lock table.
LEMMA QueueInit ==
  ASSUME Init
  PROVE  QueueSound(Now)
<1>1. \A l \in Locks : Now.lbl[l] = FreeBlock
  BY DEF Init, Now
<1>2. Queued(FreeBlock) = {}
  BY DEF Queued, FreeBlock
<1> QED BY <1>1, <1>2 DEF QueueSound, HeadBlocked, FirstPending, SettledBut

\* In every reachable state the head of every queue is blocked, or stands behind a
\* rejected request whose thread has not woken up; who does not wait asks for what it has.
THEOREM QueueSoundAlways == Spec => [](Now \in SoundTable /\ QueueSound(Now))
<1>1. Init => Now \in SoundTable /\ QueueSound(Now)
  BY SoundInit, QueueInit
<1>2. Now \in SoundTable /\ QueueSound(Now) /\ [Next]_vars => (Now \in SoundTable /\ QueueSound(Now))'
  <2>1. Now \in SoundTable /\ QueueSound(Now) /\ Next => Now' \in SoundTable /\ QueueSound(Now')
    BY SoundNext, QueueNext DEF SoundStep
  <2>2. UNCHANGED vars => Now' = Now
    BY DEF vars, Now
  <2>3. QueueSound(Now)' <=> QueueSound(Now')
    BY DEF QueueSound, Asleep
  <2> QED BY <2>1, <2>2, <2>3
<1> QED BY <1>1, <1>2, PTL DEF Spec

\* A queue with pending requests has a first one.
LEMMA FirstPendingExists ==
  ASSUME NEW B \in GoodBlock, NEW r \in Queued(B), IsPending(B, r)
  PROVE  \E x \in Requests : FirstPending(B, x) /\ (x = r \/ Before(B, x, r))
<1> DEFINE q == B.lbl_requests
           I == {i \in DOMAIN q : IsPending(B, q[i])}
<1>1. /\ NoDuplicates(B) /\ DOMAIN q \in SUBSET Nat /\ Queued(B) \subseteq Requests
      /\ \A p \in Requests : IsPending(B, p) => p \in Queued(B)
  BY GoodBlockCounts DEF GoodBlock, Block, BlockInv, OnlyQueuedCount
<1>2. PICK n \in I : q[n] = r
  BY DEF Queued
<1>3. PICK i \in I : \A j \in I : i <= j
  <2>1. I \in SUBSET Nat /\ I # {}
    BY <1>1, <1>2
  <2> HIDE DEF I
  <2> QED BY <2>1, LeastElement
<1> DEFINE x == q[i]
<1>4. x \in Queued(B) /\ IsPending(B, x) /\ i \in Nat /\ n \in Nat /\ i <= n
  BY <1>1, <1>2, <1>3 DEF Queued
<1>5. ASSUME NEW p \in Requests, IsPending(B, p), Before(B, p, x) PROVE FALSE
  <2>1. PICK j \in DOMAIN q, k \in DOMAIN q : j < k /\ q[j] = p /\ q[k] = x
    BY <1>5 DEF Before
  <2>2. k = i /\ j \in I
    BY <1>1, <1>3, <1>5, <2>1 DEF NoDuplicates
  <2> QED BY <1>1, <1>3, <2>1, <2>2
<1>6. FirstPending(B, x)
  BY <1>4, <1>5 DEF FirstPending
<1>7. x = r \/ Before(B, x, r)
  <2>1. i = n \/ i < n
    BY <1>4
  <2> QED BY <1>2, <1>3, <2>1 DEF Before
<1> QED BY <1>1, <1>4, <1>6, <1>7

\* What validate_lock checks follows from the state of a queue.
LEMMA JustifiedQueue ==
  ASSUME NEW B \in GoodBlock, NEW S, HeadBlocked(B, S), SettledBut(B, {})
  PROVE  QueueJustified(B)
<1>1. B \in Block /\ Queued(B) \subseteq Requests /\ HeldCompatible(B)
  BY GoodBlockCounts DEF GoodBlock, BlockInv
<1>2. ASSUME NEW r \in Queued(B), IsPending(B, r)
      PROVE  Clashes(B, r) \/ \E p \in Queued(B) : Before(B, p, r) /\ Clashes(B, p)
  <2>1. PICK x \in Requests : FirstPending(B, x) /\ (x = r \/ Before(B, x, r))
    BY <1>2, FirstPendingExists
  <2>2. CASE Blocked(B, x)
    <3>1. Clashes(B, x)
      BY <2>2, BlockedClashes
    <3> QED BY <2>1, <3>1, BeforeOrder
  <2>3. ASSUME NEW p, Before(B, p, x), Clashes(B, p)
        PROVE  Before(B, p, r) /\ p \in Queued(B)
    BY <2>1, <2>3, BeforeOrder
  <2> QED BY <2>1, <2>2, <2>3 DEF HeadBlocked
<1>3. ASSUME NEW r \in Queued(B), ~IsPending(B, r), ~Rejected(B, r)
      PROVE  B.lrq_requested[r] = B.lbl_state \/ ~Clashes(B, r)
  <2> DEFINE f == B.lrq_state
             h == B.lbl_state
  <2>1. B.lrq_requested[r] = f[r] /\ r \in Requests
    BY <1>1, <1>3 DEF SettledBut
  <2>2. f \in [Requests -> Level] /\ h = lock_state(HeldCounts(f))
    BY <1>1, GoodBlockCounts DEF Block
  <2>3. \A s \in Requests \ {r} : compatibility(f[r], f[s])
    BY <1>1, <2>1 DEF HeldCompatible
  <2>4. h # LCK_none => \E s \in Requests : f[s] = h
    BY <2>2, HeldCountsHighest
  <2>5. f[r] \in Level
    BY <2>1, <2>2
  <2>6. compatibility(f[r], LCK_none)
    BY <2>5 DEF compatibility, Tolerates, Level
  <2> HIDE DEF f, h
  <2>7. f[r] = h \/ compatibility(f[r], h)
    BY <2>3, <2>4, <2>6
  <2> QED BY <2>1, <2>7 DEF Clashes, f, h
<1> QED BY <1>2, <1>3 DEF QueueJustified, Clashes, Rejected

\* The first pending request is one that post_pending would not grant.
LEMMA HeadNotGrantable ==
  ASSUME NEW B \in GoodBlock, NEW i \in DOMAIN B.lbl_requests,
         IsPending(B, B.lbl_requests[i]), PendingAhead(B, i) = {},
         Blocked(B, B.lbl_requests[i])
  PROVE  ~grantable(B, i)
<1> DEFINE r == B.lbl_requests[i]
           D == CountsAfter(B, {})
<1>1. B.lbl_counts \in [GrantedLevel -> Nat]
  BY DEF GoodBlock, Block
<1>2. D = B.lbl_counts
  <2>1. \A P : {y \in {} : P} = {}
    OBVIOUS
  <2>2. \A m \in GrantedLevel : D[m] = B.lbl_counts[m]
    <3> SUFFICES ASSUME NEW m \in GrantedLevel PROVE D[m] = B.lbl_counts[m]
      OBVIOUS
    <3>1. {y \in {} : B.lrq_state[y] = m} = {} /\ {y \in {} : B.lrq_requested[y] = m} = {}
      OBVIOUS
    <3>2. D[m] = B.lbl_counts[m] - Cardinality({}) + Cardinality({})
      BY <3>1 DEF CountsAfter
    <3> QED BY <1>1, <3>2, FS_EmptySet
  <2>3. D = [m \in GrantedLevel |-> D[m]]
    BY DEF CountsAfter
  <2>4. B.lbl_counts = [m \in GrantedLevel |-> B.lbl_counts[m]]
    BY <1>1
  <2> HIDE DEF D
  <2> QED BY <2>2, <2>3, <2>4
<1>3. grantable(B, i) <=>
        compatibility(B.lrq_requested[r], IF B.lrq_state[r] # LCK_none
                                          THEN lock_state(Uncount(D, B.lrq_state[r]))
                                          ELSE B.lbl_state)
  BY DEF grantable
<1> HIDE DEF D
<1> QED BY <1>2, <1>3 DEF Blocked, StateFor, StateWithout

\* The first pending request of a lock could not be granted, unless a rejected request
\* before it has yet to wake up: no release, conversion, rejection or purge forgets to look
\* at the head of the queue.
THEOREM FirstPendingBlockedAlways == Spec => []FirstPendingBlocked
<1>1. Now \in SoundTable /\ QueueSound(Now) => FirstPendingBlocked
  <2> SUFFICES ASSUME Now \in SoundTable, QueueSound(Now), NEW l \in Locks,
                      NEW i \in DOMAIN lbl[l].lbl_requests,
                      IsPending(lbl[l], lbl[l].lbl_requests[i]),
                      PendingAhead(lbl[l], i) = {},
                      ~\E j \in 1 .. i : /\ "rejected" \in lbl[l].lrq_flags[lbl[l].lbl_requests[j]]
                                         /\ pc[lbl[l].lbl_requests[j]] # "idle"
               PROVE  ~grantable(lbl[l], i)
    BY DEF FirstPendingBlocked
  <2> DEFINE B == lbl[l]
             q == B.lbl_requests
             x == q[i]
             S == Asleep(Now, l)
  <2>1. B \in GoodBlock /\ HeadBlocked(B, S) /\ SettledBut(B, {})
    BY SoundNow DEF GoodTable, QueueSound
  <2>2. /\ q \in Seq(Requests) /\ NoDuplicates(B) /\ DOMAIN q \in SUBSET Nat
        /\ i \in Nat /\ x \in Requests /\ x \in Queued(B) /\ DOMAIN q = 1 .. Len(q)
    BY <2>1 DEF GoodBlock, Block, BlockInv, Queued
  <2>3. ASSUME NEW p, Before(B, p, x)
        PROVE  \E j \in 1 .. (i - 1) : q[j] = p
    <3>1. PICK j \in DOMAIN q, k \in DOMAIN q : j < k /\ q[j] = p /\ q[k] = x
      BY <2>3 DEF Before
    <3>2. k = i
      BY <2>2, <3>1 DEF NoDuplicates
    <3> QED BY <2>2, <3>1, <3>2
  <2>4. FirstPending(B, x)
    <3>1. ASSUME NEW p \in Requests, IsPending(B, p), Before(B, p, x) PROVE FALSE
      <4>1. PICK j \in 1 .. (i - 1) : q[j] = p
        BY <2>3, <3>1
      <4>2. p \in PendingAhead(B, i)
        BY <3>1, <4>1 DEF PendingAhead
      <4> QED BY <4>2
    <3> QED BY <2>2, <3>1 DEF FirstPending
  <2>5. ASSUME NEW p \in S, Before(B, p, x), Rejected(B, p) PROVE FALSE
    <3>1. PICK j \in 1 .. (i - 1) : q[j] = p
      BY <2>3, <2>5
    <3>2. j \in 1 .. i
      BY <2>2
    <3>3. pc[p] # "idle"
      BY SoundNow DEF Asleep
    <3> QED BY <2>5, <3>1, <3>2, <3>3 DEF Rejected
  <2>6. Blocked(B, x)
    BY <2>1, <2>2, <2>4, <2>5 DEF HeadBlocked
  <2> QED BY <2>1, <2>6, HeadNotGrantable
<1> QED BY <1>1, QueueSoundAlways, PTL

\* What validate_lock checks of the requests in a queue in debug builds holds in every
\* reachable state: each pending request is in conflict with the lock, or behind one that
\* is; each of the others goes with what the lock is held at.
THEOREM ValidateLockAlways == Spec => []validate_lock
<1>1. Now \in SoundTable /\ QueueSound(Now) => validate_lock
  <2> SUFFICES ASSUME Now \in SoundTable, QueueSound(Now), NEW l \in Locks
               PROVE  QueueJustified(lbl[l])
    BY DEF validate_lock
  <2>1. /\ lbl[l] \in GoodBlock /\ HeadBlocked(lbl[l], Asleep(Now, l))
        /\ SettledBut(lbl[l], {})
    BY SoundNow DEF GoodTable, QueueSound
  <2> QED BY <2>1, JustifiedQueue
<1> QED BY <1>1, QueueSoundAlways, PTL
===========================================================================
