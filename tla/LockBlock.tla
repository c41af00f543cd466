---------------------------- MODULE LockBlock ----------------------------
(***************************************************************************)
(* One lock block (lbl) of the lock table with the requests (lrq) queued   *)
(* on it, as a record, and every routine of the lock manager that changes  *)
(* it, as an operator from block to block.  The lock table mutex is held   *)
(* during each of these routines, so each is one indivisible change.       *)
(*                                                                         *)
(* A request is identified by a member of Requests; the fields of its lrq  *)
(* are kept in the block of its lock as functions of the request.  A       *)
(* request that is not queued on the block has the values of a free lrq.   *)
(***************************************************************************)
EXTENDS LockModes, Sequences, FiniteSets, SequencesExt

CONSTANTS
  Requests,          \* request blocks, each of one owner and one lock
  lrq_ast_routine    \* the requests that carry a blocking AST

ASSUME RequestsAssumption ==
  /\ IsFiniteSet(Requests)
  /\ lrq_ast_routine \subseteq Requests

LrqFlag == {"blocking", "pending", "rejected", "blocking_seen",
            "just_granted", "wait_timeout"}

Block ==
  [ lbl_requests          : Seq(Requests),          \* queue, granted and pending
    lbl_counts            : [GrantedLevel -> Nat],  \* granted requests by level
    lbl_state             : Level,                  \* highest level granted
    lbl_pending_lrq_count : Nat,
    lrq_requested         : [Requests -> Level],
    lrq_state             : [Requests -> Level],
    lrq_flags             : [Requests -> SUBSET LrqFlag] ]

\* A lock nobody asks for: its block is on lhb_free_locks.
FreeBlock ==
  [ lbl_requests          |-> << >>,
    lbl_counts            |-> [m \in GrantedLevel |-> 0],
    lbl_state             |-> LCK_none,
    lbl_pending_lrq_count |-> 0,
    lrq_requested         |-> [r \in Requests |-> LCK_none],
    lrq_state             |-> [r \in Requests |-> LCK_none],
    lrq_flags             |-> [r \in Requests |-> {}] ]

Queued(B)    == {B.lbl_requests[i] : i \in DOMAIN B.lbl_requests}
IsPending(B, r) == "pending" \in B.lrq_flags[r]
Pending(B)   == {r \in Queued(B) : IsPending(B, r)}
Before(B, p, r) ==
  \E i, j \in DOMAIN B.lbl_requests :
     i < j /\ B.lbl_requests[i] = p /\ B.lbl_requests[j] = r

\* The entries of sequence q at the positions in P, in order.
EntriesAt(q, P) ==
  [k \in 1 .. Cardinality(P) |->
     q[CHOOSE i \in P : Cardinality({j \in P : j <= i}) = k]]

Uncount(counts, m) ==
  [n \in GrantedLevel |-> IF n = m THEN counts[n] - 1 ELSE counts[n]]
Count(counts, m) ==
  [n \in GrantedLevel |-> IF n = m THEN counts[n] + 1 ELSE counts[n]]

AddFlags(B, S, F) ==
  [B EXCEPT !.lrq_flags =
     [r \in Requests |-> IF r \in S THEN @[r] \cup F ELSE @[r]]]
ClearFlags(B, S, F) ==
  [B EXCEPT !.lrq_flags =
     [r \in Requests |-> IF r \in S THEN @[r] \ F ELSE @[r]]]

--------------------------------------------------------------------------
(* Granting.                                                              *)

\* Grant a request that is not pending, its former level already uncounted.
grant(B, r) ==
  LET counts == Count(B.lbl_counts, B.lrq_requested[r])
  IN  [B EXCEPT !.lbl_counts = counts,
                !.lrq_state[r] = B.lrq_requested[r],
                !.lbl_state = lock_state(counts)]

\* The counts once the pending requests in S have been granted: each leaves
\* its present level for the one it asked for.
CountsAfter(B, S) ==
  [m \in GrantedLevel |->
     B.lbl_counts[m] - Cardinality({r \in S : B.lrq_state[r] = m})
                     + Cardinality({r \in S : B.lrq_requested[r] = m})]

\* The pending requests ahead of queue position i.
PendingAhead(B, i) ==
  {B.lbl_requests[j] : j \in {k \in 1 .. (i - 1) : IsPending(B, B.lbl_requests[k])}}

\* Mutant of grantable: the state of the lock is read once, before the walk.
grantable_stale(B, i) ==
  compatibility(B.lrq_requested[B.lbl_requests[i]], B.lbl_state)

\* Whether post_pending grants the pending request at position i when it has
\* granted every pending request ahead of it.  A conversion is compared with
\* the state of the lock without itself, a new request with lbl_state.
grantable(B, i) ==
  LET r == B.lbl_requests[i]
      S == PendingAhead(B, i)
      state == IF B.lrq_state[r] # LCK_none
               THEN lock_state(Uncount(CountsAfter(B, S), B.lrq_state[r]))
               ELSE IF S = {} THEN B.lbl_state
               ELSE lock_state(CountsAfter(B, S))
  IN  compatibility(B.lrq_requested[r], state)

\* Queue positions of the pending requests that cannot be granted; post_pending
\* walks the queue, grants, and stops at the first of these.
Refused(B) ==
  {i \in DOMAIN B.lbl_requests : IsPending(B, B.lbl_requests[i]) /\ ~grantable(B, i)}

Granted(B) ==
  LET refused == Refused(B)
  IN  {B.lbl_requests[i] : i \in {k \in DOMAIN B.lbl_requests :
         IsPending(B, B.lbl_requests[k]) /\ \A j \in refused : k < j}}

\* The requests whose owners post_pending wakes: those it grants and the one it
\* stops at.
Woken(B) ==
  LET refused == Refused(B)
  IN  {B.lbl_requests[i] : i \in {k \in DOMAIN B.lbl_requests :
         IsPending(B, B.lbl_requests[k]) /\ \A j \in refused : k <= j}}

\* The effect of granting all of S at once.
GrantAll(B, S) ==
  LET counts == CountsAfter(B, S)
  IN  [B EXCEPT
         !.lbl_counts = counts,
         !.lbl_state = IF S = {} THEN @ ELSE lock_state(counts),
         !.lbl_pending_lrq_count = @ - Cardinality(S),
         !.lrq_state = [r \in Requests |-> IF r \in S THEN B.lrq_requested[r] ELSE @[r]],
         !.lrq_flags = [r \in Requests |-> IF r \in S THEN @[r] \ {"pending"} ELSE @[r]]]

\* Requests ahead of the first one still pending whose owner has not been told
\* that it is in the way.
JustGranted(B) ==
  {r \in Queued(B) \cap lrq_ast_routine :
     /\ B.lrq_flags[r] \cap {"blocking", "blocking_seen"} = {}
     /\ \A p \in Pending(B) : p # r /\ ~Before(B, p, r)}

post_pending(B) ==
  IF B.lbl_pending_lrq_count = 0 THEN B
  ELSE LET after == GrantAll(B, Granted(B))
       IN  IF after.lbl_pending_lrq_count = 0 THEN after
           ELSE AddFlags(after, JustGranted(after), {"just_granted"})

\* The requests whose owners a call of post_pending wakes.
PostPendingWakes(B) == IF B.lbl_pending_lrq_count = 0 THEN {} ELSE Woken(B)

--------------------------------------------------------------------------
(* Queueing and releasing.                                                *)

RemoveRequest(q, r) ==
  RemoveAt(q, CHOOSE i \in DOMAIN q : q[i] = r)

\* A new request for level type at the tail of the queue.
insert_request(B, r, type) ==
  [B EXCEPT !.lbl_requests = Append(@, r),
            !.lrq_requested[r] = type,
            !.lrq_state[r] = LCK_none,
            !.lrq_flags[r] = {}]

\* Mutant of grant_now: new requests do not queue behind waiting ones.
grant_now_barging(B, type) == compatibility(type, B.lbl_state)

\* grant_or_que's test for granting a new request at once: nothing may be
\* waiting, unless the request is for LCK_null.
grant_now(B, type) ==
  /\ compatibility(type, B.lbl_state)
  /\ type = LCK_null \/ B.lbl_pending_lrq_count = 0

\* release_request up to its call of post_pending; the block is freed with its
\* last request.
unlink_request(B, r) ==
  LET q == RemoveRequest(B.lbl_requests, r)
      m == B.lrq_state[r]
      counts == Uncount(B.lbl_counts, m)
  IN  IF q = << >> THEN FreeBlock
      ELSE [B EXCEPT
              !.lbl_requests = q,
              !.lbl_pending_lrq_count = IF IsPending(B, r) THEN @ - 1 ELSE @,
              !.lbl_counts = IF m = LCK_none THEN @ ELSE counts,
              !.lbl_state = IF m # LCK_none /\ counts[m] = 0
                            THEN lock_state(counts) ELSE @,
              !.lrq_requested[r] = LCK_none,
              !.lrq_state[r] = LCK_none,
              !.lrq_flags[r] = {}]

release_request(B, r) == post_pending(unlink_request(B, r))

\* The level of the lock without the request, as internal_convert computes it.
StateWithout(B, r) == lock_state(Uncount(B.lbl_counts, B.lrq_state[r]))

\* internal_convert up to the point where it has to wait or give up.
begin_convert(B, r, type) ==
  [ClearFlags(B, {r}, {"blocking_seen"}) EXCEPT !.lrq_requested[r] = type]

\* The conversion is compatible with everybody else: uncount, grant.
grant_convert(B, r) ==
  grant([B EXCEPT !.lbl_counts = Uncount(@, B.lrq_state[r])], r)

--------------------------------------------------------------------------
(* Waiting.                                                               *)

\* wait_for_request marks the request pending; a request with no level yet
\* goes to the end of the queue.
begin_wait(B, r, timed) ==
  [B EXCEPT
     !.lbl_pending_lrq_count = @ + 1,
     !.lbl_requests = IF B.lrq_state[r] = LCK_none
                      THEN Append(RemoveRequest(@, r), r) ELSE @,
     !.lrq_flags[r] = (@ \ {"rejected"}) \cup {"pending"}
                        \cup (IF timed THEN {"wait_timeout"} ELSE {})]

\* Mutant of reject: the request is not discounted.
reject_uncounted(B, r) ==
  [B EXCEPT !.lrq_flags[r] = (@ \ {"pending"}) \cup {"rejected"}]

\* A waiting request is turned down (timeout, cancellation, deadlock victim).
reject(B, r) ==
  [B EXCEPT !.lbl_pending_lrq_count = @ - 1,
            !.lrq_flags[r] = (@ \ {"pending"}) \cup {"rejected"}]

\* Mutant of end_wait: the request is discounted although whoever resolved it
\* has done that.
end_wait_discounting(B, r) ==
  [ClearFlags(B, {r}, {"wait_timeout"}) EXCEPT !.lbl_pending_lrq_count = @ - 1]

end_wait(B, r) == ClearFlags(B, {r}, {"wait_timeout"})

\* Mutant of end_convert: the request goes on asking for what it did not get.
end_convert_nothing(B, r) == B

\* internal_convert gives up: the request asks for what it has.
end_convert(B, r) == [B EXCEPT !.lrq_requested[r] = B.lrq_state[r]]

--------------------------------------------------------------------------
(* Blocking.                                                              *)

\* post_blockage: whose AST is to be run on behalf of request r, in queue
\* order; the walk stops behind the first holder of LCK_EX.  others are the
\* requests of other owners.
IsBlocker(B, r, b, others) ==
  /\ b \in others
  /\ ~compatibility(B.lrq_requested[r], B.lrq_state[b])
  /\ b \in lrq_ast_routine
  /\ "blocking_seen" \notin B.lrq_flags[b]

Blockers(B, r, others) ==
  LET q == B.lbl_requests
      all == {i \in DOMAIN q : IsBlocker(B, r, q[i], others)}
      exclusive == {i \in all : B.lrq_state[q[i]] = LCK_EX}
  IN  EntriesAt(q, {i \in all : \A j \in exclusive : i <= j})

\* Blockers newly put on their owner's own_blocks.
mark_blocking(B, S) ==
  AddFlags(ClearFlags(B, S, {"blocking_seen", "just_granted"}), S, {"blocking"})

\* blocking_action takes the request off own_blocks before it runs the AST.
mark_seen(B, r) ==
  AddFlags(ClearFlags(B, {r}, {"blocking"}), {r}, {"blocking_seen"})

--------------------------------------------------------------------------
(* What every routine keeps true of a block.                              *)

\* A request is queued at most once.
NoDuplicates(B) ==
  \A i, j \in DOMAIN B.lbl_requests : B.lbl_requests[i] = B.lbl_requests[j] => i = j

\* A request that is not queued holds nothing and waits for nothing.
OnlyQueuedCount(B) ==
  \A r \in Requests \ Queued(B) : B.lrq_state[r] = LCK_none /\ ~IsPending(B, r)

\* The counters and the state of the lock agree with its requests.
CountsAgree(B) ==
  /\ \A m \in GrantedLevel :
       B.lbl_counts[m] = Cardinality({r \in Requests : B.lrq_state[r] = m})
  /\ B.lbl_state = lock_state(B.lbl_counts)
  /\ B.lbl_pending_lrq_count = Cardinality({r \in Requests : IsPending(B, r)})

\* No two requests hold levels that exclude each other.
HeldCompatible(B) ==
  \A r, s \in Requests : r # s => compatibility(B.lrq_state[r], B.lrq_state[s])

BlockInv(B) ==
  NoDuplicates(B) /\ OnlyQueuedCount(B) /\ CountsAgree(B) /\ HeldCompatible(B)
==========================================================================
