--------------------------- MODULE LockManager ---------------------------
(***************************************************************************)
(* The Firebird lock manager: owners grouped in processes, the lock table  *)
(* they share, and the threads that wait in it or deliver blocking ASTs.   *)
(*                                                                         *)
(* The lock table mutex is held from entry to return of every routine      *)
(* except while a thread sleeps in wait_for_request, while an AST runs     *)
(* inside blocking_action, and while shutdownOwner waits for ASTs.  One    *)
(* action is the work a thread does between two of these points.           *)
(*                                                                         *)
(* What an AST routine does (release, downgrade, or nothing) is left to    *)
(* the actions of the owner, which may be taken at any moment; here an AST *)
(* starts, and later returns.                                              *)
(***************************************************************************)
EXTENDS LockBlock

CONSTANTS
  Owners, Processes, Locks,
  lrq_owner,          \* the owner of a request
  lrq_lock,           \* the lock of a request
  own_process,        \* the process of an owner
  UseBlockingThread,  \* m_useBlockingThread: every server mode but SuperServer
  RequestLevels,      \* the levels the caller of a request asks for
  WaitModes,          \* lck_wait of a request: zero, positive or negative
  Cancellable,        \* owners whose attachment may be cancelled
  Crashable,          \* processes that may die
  Transient,          \* owners that come and go; the others stay registered
  MaxOwnCount,        \* bound on own_count
  MaxReposts,         \* bound on the reposts waiting on an owner
  MaxWaits,           \* bound on the requests an owner waits for at a time
  NoOwner, Repost

ASSUME ManagerAssumption ==
  /\ lrq_owner \in [Requests -> Owners]
  /\ lrq_lock \in [Requests -> Locks]
  /\ own_process \in [Owners -> Processes]
  /\ UseBlockingThread \in BOOLEAN
  /\ RequestLevels \in [Requests -> SUBSET GrantedLevel]
  /\ WaitModes \in [Requests -> SUBSET {"no_wait", "wait", "timeout"}]
  /\ Cancellable \subseteq Owners
  /\ Crashable \subseteq Processes
  /\ Transient \subseteq Owners
  /\ MaxOwnCount \in Nat \ {0} /\ MaxReposts \in [Owners -> Nat] /\ MaxWaits \in Nat
  /\ NoOwner \notin Owners
  /\ Repost \notin Requests
  /\ Requests \cap Processes = {}
  /\ Requests \cap Owners = {}
  /\ Processes \cap Owners = {}

\* A process that may die holds at most one request on each lock.
ASSUME CrashAssumption ==
  \A r, s \in Requests :
    /\ own_process[lrq_owner[r]] \in Crashable
    /\ own_process[lrq_owner[r]] = own_process[lrq_owner[s]]
    /\ lrq_lock[r] = lrq_lock[s]
    => r = s

VARIABLES
  lbl,           \* the lock blocks
  lhb_owners,    \* owners registered in the lock table
  own_count,     \* use count of an owner
  own_flags,     \* OWN_scanned, OWN_wakeup, OWN_signaled
  own_blocks,    \* per owner, requests and reposts whose AST is to be run
  prc_blocking,  \* per process, the event its blocking thread sleeps on
  pc,            \* per request: unused, held, in wait_for_request, in post_blockage
  sig,           \* per request, the owners its post_blockage has yet to signal
  ast,           \* per thread, the owner whose AST it is running
  dead           \* processes that died and have not been purged

vars == <<lbl, lhb_owners, own_count, own_flags, own_blocks, prc_blocking,
          pc, sig, ast, dead>>

\* Threads that run ASTs: those in wait_for_request (named by the request they
\* wait for), the blocking threads (by process), the callers of repost (by owner).
Threads == Requests \cup Processes \cup Owners

OwnFlag == {"scanned", "wakeup", "signaled"}
Place == {"free", "idle", "wait", "post"}

TypeOK ==
  /\ lbl \in [Locks -> Block]
  /\ lhb_owners \subseteq Owners
  /\ own_count \in [Owners -> Nat]
  /\ own_flags \in [Owners -> SUBSET OwnFlag]
  /\ own_blocks \in [Owners -> Seq(Requests \cup {Repost})]
  /\ prc_blocking \in [Processes -> BOOLEAN]
  /\ pc \in [Requests -> Place]
  /\ sig \in [Requests -> Seq(Owners)]
  /\ ast \in [Threads -> Owners \cup {NoOwner}]
  /\ dead \subseteq Processes

Init ==
  /\ lbl = [l \in Locks |-> FreeBlock]
  /\ lhb_owners = Owners \ Transient
  /\ own_count = [o \in Owners |-> IF o \in Transient THEN 0 ELSE 1]
  /\ own_flags = [o \in Owners |-> {}]
  /\ own_blocks = [o \in Owners |-> << >>]
  /\ prc_blocking = [p \in Processes |-> FALSE]
  /\ pc = [r \in Requests |-> "free"]
  /\ sig = [r \in Requests |-> << >>]
  /\ ast = [t \in Threads |-> NoOwner]
  /\ dead = {}

--------------------------------------------------------------------------
(* The routines below take the lock table (and the control state of the   *)
(* threads in it) as a record and return what it becomes, so that they    *)
(* compose as the calls in the code do.                                   *)

Now == [lbl |-> lbl, lhb_owners |-> lhb_owners, own_count |-> own_count,
        own_flags |-> own_flags, own_blocks |-> own_blocks,
        prc_blocking |-> prc_blocking, pc |-> pc, sig |-> sig, ast |-> ast,
        dead |-> dead]

Becomes(T) ==
  /\ lbl' = T.lbl
  /\ lhb_owners' = T.lhb_owners
  /\ own_count' = T.own_count
  /\ own_flags' = T.own_flags
  /\ own_blocks' = T.own_blocks
  /\ prc_blocking' = T.prc_blocking
  /\ pc' = T.pc
  /\ sig' = T.sig
  /\ ast' = T.ast
  /\ dead' = T.dead

SameOwner(r, s) == lrq_owner[r] = lrq_owner[s]
BlockOf(T, r) == T.lbl[lrq_lock[r]]
WithBlock(T, r, B) == [T EXCEPT !.lbl = [@ EXCEPT ![lrq_lock[r]] = B]]
At(T, r, where) == [T EXCEPT !.pc = [@ EXCEPT ![r] = where]]
DropFlags(T, o, F) == [T EXCEPT !.own_flags = [@ EXCEPT ![o] = T.own_flags[o] \ F]]

\* own_waits and own_ast_count of the owner block.
own_waits(T, o) ==
  Cardinality({r \in Requests : lrq_owner[r] = o /\ T.pc[r] \in {"wait", "post"}})
own_ast_count(o) == Cardinality({t \in Threads : ast[t] = o})

\* The process a thread belongs to.
ProcessOf(t) == IF t \in Processes THEN t
                ELSE own_process[IF t \in Owners THEN t ELSE lrq_owner[t]]

\* The caller's process runs, and its owner is registered and in use.
Active(o) == own_process[o] \notin dead /\ o \in lhb_owners /\ own_count[o] > 0

\* Wake the owners of the requests in S that wait for something.
post_wakeup(T, S) ==
  [T EXCEPT !.own_flags =
     [o \in Owners |-> IF (\E r \in S : lrq_owner[r] = o) /\ own_waits(T, o) > 0
                       THEN T.own_flags[o] \cup {"wakeup"} ELSE T.own_flags[o]]]

\* post_pending on the lock of request r, whose block has become B.
PostPending(T, r, B) == post_wakeup(WithBlock(T, r, post_pending(B)), PostPendingWakes(B))

\* Request r has been granted in block B: wake its owner, look at the queue.
GrantAndPost(T, r, B) == PostPending(post_wakeup(T, {r}), r, B)

\* Mutant of ReleaseRequest: nobody looks at the requests left waiting.
ReleaseRequestSilently(T, r) ==
  At(WithBlock(T, r, unlink_request(BlockOf(T, r), r)), r, "free")

\* Mutant of ReleaseRequest: the request stays on the blocking queue of its owner.
ReleaseRequestStillBlocking(T, r) ==
  PostPending(At(T, r, "free"), r, unlink_request(BlockOf(T, r), r))

\* release_request, with its part on the owner's blocking queue.
ReleaseRequest(T, r) ==
  LET o == lrq_owner[r]
      q == T.own_blocks[o]
      T1 == [At(T, r, "free") EXCEPT !.own_blocks =
               [@ EXCEPT ![o] = EntriesAt(q, {i \in DOMAIN q : q[i] # r})]]
  IN  PostPending(T1, r, unlink_request(BlockOf(T, r), r))

--------------------------------------------------------------------------
(* Blocking ASTs.                                                         *)

\* Mutant of blocking_action: the owner stays marked as signalled.
blocking_action_late(T, t, o) ==
  LET b == Head(T.own_blocks[o])
      T1 == [T EXCEPT !.own_blocks = [@ EXCEPT ![o] = Tail(T.own_blocks[o])],
                      !.ast = [@ EXCEPT ![t] = o]]
  IN  IF T.own_count[o] > 0 /\ T.own_blocks[o] # << >>
      THEN IF b = Repost THEN T1 ELSE WithBlock(T1, b, mark_seen(BlockOf(T, b), b))
      ELSE [T EXCEPT !.ast = [@ EXCEPT ![t] = NoOwner]]

\* Thread t takes the first entry off the blocking queue of owner o and starts
\* its AST; with nothing to run, or the owner shut down, it is done with o.
blocking_action(T, t, o) ==
  LET b == Head(T.own_blocks[o])
      T1 == [T EXCEPT !.own_blocks = [@ EXCEPT ![o] = Tail(T.own_blocks[o])],
                      !.ast = [@ EXCEPT ![t] = o]]
  IN  IF T.own_count[o] > 0 /\ T.own_blocks[o] # << >>
      THEN IF b = Repost THEN T1 ELSE WithBlock(T1, b, mark_seen(BlockOf(T, b), b))
      ELSE [DropFlags(T, o, {"signaled"}) EXCEPT !.ast = [@ EXCEPT ![t] = NoOwner]]

\* post_blockage's second loop over the owners q, on the thread waiting for r.
\* signal_owner posts the event of another process, and runs the ASTs of an
\* owner of its own process itself: the loop stands still at the first of these
\* that has any.  When it goes on, an owner in the list may have been purged with
\* its process: own_count is still set, own_process no longer, and what signal_owner
\* does with such an owner comes to nothing here (an event posted to the dead).
signal_owners(T, r, q) ==
  LET idle(i)  == T.own_count[q[i]] > 0 /\ "signaled" \notin T.own_flags[q[i]]
      local(i) == own_process[q[i]] = ProcessOf(r)
      runs     == {i \in DOMAIN q : idle(i) /\ local(i) /\ T.own_blocks[q[i]] # << >>}
      upto     == IF runs = {} THEN Len(q) ELSE CHOOSE i \in runs : \A j \in runs : i <= j
      posted   == {q[i] : i \in {j \in 1 .. upto : idle(j) /\ ~local(j)}}
      signaled == posted \cup (IF runs = {} THEN {} ELSE {q[upto]})
      T1 == [T EXCEPT
               !.own_flags = [o \in Owners |->
                  IF o \in signaled THEN T.own_flags[o] \cup {"signaled"} ELSE T.own_flags[o]],
               !.prc_blocking = [p \in Processes |->
                  T.prc_blocking[p] \/ \E o \in posted : own_process[o] = p],
               !.sig = [@ EXCEPT ![r] = SubSeq(q, upto + 1, Len(q))]]
  IN  IF runs = {} THEN At(T1, r, "wait")
      ELSE blocking_action(At(T1, r, "post"), r, q[upto])

\* Mutant of blocking_owners: only the first holder in the way is told.
blocking_owners_first(bs) == IF bs = << >> THEN << >> ELSE << lrq_owner[bs[1]] >>

\* The owners of the blocking requests bs, in order.
blocking_owners(bs) == [i \in DOMAIN bs |-> lrq_owner[bs[i]]]

\* The holders in the way of request r get their AST queued and are signalled.
post_blockage(T, r) ==
  LET B   == BlockOf(T, r)
      bs  == Blockers(B, r, {b \in Requests : ~SameOwner(b, r)})
      new == {b \in Requests : \E i \in DOMAIN bs : bs[i] = b /\ "blocking" \notin B.lrq_flags[b]}
      T1  == [WithBlock(T, r, mark_blocking(B, new)) EXCEPT !.own_blocks =
                [o \in Owners |-> T.own_blocks[o] \o
                   EntriesAt(bs, {i \in DOMAIN bs : lrq_owner[bs[i]] = o /\ bs[i] \in new})]]
  IN  signal_owners(T1, r, blocking_owners(bs))

\* blocking_action found nothing to run for the owners in S.
ClearSignaled(T, S) ==
  [T EXCEPT !.own_flags =
     [o \in Owners |-> IF o \in S THEN T.own_flags[o] \ {"signaled"} ELSE T.own_flags[o]]]

\* One round of blocking_action_thread of process p: any signalled owner with
\* something to run comes next, owners with nothing to run are done with.
blocking_action_thread(T, p) ==
  LET signaled == {o \in T.lhb_owners : own_process[o] = p /\ "signaled" \in T.own_flags[o]}
      runs == {o \in signaled : T.own_count[o] > 0 /\ T.own_blocks[o] # << >>}
  IN  IF runs = {} THEN {ClearSignaled(T, signaled)}
      ELSE {blocking_action(ClearSignaled(T, S), p, o) :
              o \in runs, S \in SUBSET (signaled \ runs)}

--------------------------------------------------------------------------
(* Owners.                                                                *)

\* Mutant of probe_processes: dead processes are never noticed.
probe_processes_blind(T) == T

\* Mutant of probe_processes: the requests of a purged owner stay on their locks.
probe_processes_leaky(T) ==
  LET gone == {o \in T.lhb_owners : own_process[o] \in T.dead}
  IN  [T EXCEPT !.lhb_owners = @ \ gone,
                !.pc = [r \in Requests |-> IF lrq_owner[r] \in gone THEN "free" ELSE @[r]],
                !.dead = {}]

\* probe_processes: the owners of dead processes and their requests go.
probe_processes(T) ==
  LET gone == {o \in T.lhb_owners : own_process[o] \in T.dead}
      theirs(l) == {r \in Queued(T.lbl[l]) : lrq_owner[r] \in gone}
      lost(l) == CHOOSE r \in theirs(l) : TRUE
      wakes == UNION {IF theirs(l) = {} THEN {}
                      ELSE PostPendingWakes(unlink_request(T.lbl[l], lost(l))) : l \in Locks}
      T1 == post_wakeup(T, wakes)
      Reset(f, S, v) == [x \in DOMAIN f |-> IF x \in S THEN v ELSE f[x]]
      requests == {r \in Requests : lrq_owner[r] \in gone}
      threads == {t \in Threads : ProcessOf(t) \in T.dead}
  IN  IF T.dead = {} THEN T
      ELSE [T1 EXCEPT
         !.lbl = [l \in Locks |-> IF theirs(l) = {} THEN T.lbl[l]
                                  ELSE release_request(T.lbl[l], lost(l))],
         !.lhb_owners = @ \ gone,
         !.own_flags = Reset(@, gone, {}),
         !.own_blocks = Reset(@, gone, << >>),
         !.prc_blocking = Reset(@, T.dead, FALSE),
         !.pc = Reset(@, requests, "free"),
         !.sig = Reset(@, requests, << >>),
         !.ast = Reset(@, threads, NoOwner),
         !.dead = {}]

\* initializeOwner with a handle: one more user.
InitializeAgain(o) ==
  /\ o \in Transient
  /\ Active(o)
  /\ own_count[o] < MaxOwnCount
  /\ Becomes([Now EXCEPT !.own_count = [own_count EXCEPT ![o] = @ + 1]])

\* initializeOwner without a handle, create_owner: a previous instance of the
\* owner and the owners of dead processes are purged, then the owner is new.
\* The process of the owner may be one started in place of a dead one.
InitializeOwner(o) ==
  LET T == probe_processes(Now)
  IN  /\ o \notin T.lhb_owners
      /\ Becomes([T EXCEPT !.lhb_owners = @ \cup {o},
                           !.own_count = [@ EXCEPT ![o] = 1],
                           !.own_flags = [@ EXCEPT ![o] = {}],
                           !.own_blocks = [@ EXCEPT ![o] = << >>]])

\* shutdownOwner by one of several users, or by the last one; all requests of
\* the owner have been released by then.
ShutdownOwner(o) ==
  /\ o \in Transient
  /\ Active(o)
  /\ own_count[o] = 1 => \A r \in Requests : lrq_owner[r] = o => pc[r] = "free"
  /\ Becomes([Now EXCEPT !.own_count = [own_count EXCEPT ![o] = @ - 1]])

\* Mutant of PurgeOwner: it does not wait for the ASTs of the owner.
PurgeOwnerAtOnce(o) ==
  /\ own_process[o] \notin dead
  /\ o \in lhb_owners
  /\ own_count[o] = 0
  /\ Becomes([Now EXCEPT !.lhb_owners = @ \ {o},
                         !.own_flags = [own_flags EXCEPT ![o] = {}],
                         !.own_blocks = [own_blocks EXCEPT ![o] = << >>]])

\* shutdownOwner, when no AST of the owner is running any more: purge_owner.
PurgeOwner(o) ==
  /\ own_process[o] \notin dead
  /\ o \in lhb_owners
  /\ own_count[o] = 0
  /\ own_ast_count(o) = 0
  /\ Becomes([Now EXCEPT !.lhb_owners = @ \ {o},
                         !.own_flags = [own_flags EXCEPT ![o] = {}],
                         !.own_blocks = [own_blocks EXCEPT ![o] = << >>]])

\* A process dies outside the lock table mutex; its blocks stay in the table.
\* The next one dies only after the table has been cleaned of it.
ProcessDies(p) ==
  /\ p \in Crashable
  /\ dead = {}
  /\ \E o \in lhb_owners : own_process[o] = p
  /\ Becomes([Now EXCEPT !.dead = {p}])

--------------------------------------------------------------------------
(* Requests.                                                              *)

\* Request r starts to wait in block B: wait_for_request up to its first sleep.
begin_wait_for_request(T, r, B, timed) ==
  post_blockage(DropFlags(At(WithBlock(T, r, begin_wait(B, r, timed)), r, "wait"),
                          lrq_owner[r], {"scanned", "wakeup"}), r)

\* enqueue of a new request, or of one that replaces the caller's prior request.
Enqueue(r, type, lck_wait) ==
  LET T == IF pc[r] = "idle" THEN ReleaseRequest(Now, r) ELSE Now
      B == insert_request(BlockOf(T, r), r, type)
      T1 == At(WithBlock(T, r, B), r, "idle")
  IN  /\ Active(lrq_owner[r])
      /\ pc[r] \in {"free", "idle"}
      /\ \/ /\ grant_now(BlockOf(T, r), type)
            /\ Becomes(GrantAndPost(T1, r, grant(B, r)))
         \/ /\ ~grant_now(BlockOf(T, r), type)
            /\ lck_wait = "no_wait"
            /\ Becomes(ReleaseRequest(T1, r))
         \/ /\ ~grant_now(BlockOf(T, r), type)
            /\ lck_wait # "no_wait"
            /\ own_waits(Now, lrq_owner[r]) < MaxWaits
            /\ Becomes(begin_wait_for_request(T1, r, B, lck_wait = "timeout"))

internal_convert(r, type, lck_wait) ==
  LET B == begin_convert(BlockOf(Now, r), r, type)
      fits == compatibility(type, StateWithout(B, r))
  IN  \/ /\ fits
         /\ Becomes(GrantAndPost(Now, r, grant_convert(B, r)))
      \/ /\ ~fits
         /\ lck_wait = "no_wait"
         /\ Becomes(WithBlock(Now, r, end_convert(B, r)))
      \/ /\ ~fits
         /\ lck_wait # "no_wait"
         /\ own_waits(Now, lrq_owner[r]) < MaxWaits
         /\ Becomes(begin_wait_for_request(Now, r, B, lck_wait = "timeout"))

Convert(r, type, lck_wait) ==
  /\ Active(lrq_owner[r])
  /\ pc[r] = "idle"
  /\ internal_convert(r, type, lck_wait)

\* The highest level another request of the lock is waiting for.
PendingState(B, r) ==
  LET waiting == {B.lrq_requested[p] : p \in Pending(B) \ {r}} \cup {LCK_none}
  IN  CHOOSE m \in waiting : \A n \in waiting : n <= m

\* The level downgrade() settles on, and returns.
DowngradeTo(B, r) == DowngradeLevel(B.lrq_state[r], PendingState(B, r))

Downgrade(r) ==
  LET to == DowngradeTo(BlockOf(Now, r), r)
  IN  /\ Active(lrq_owner[r])
      /\ pc[r] = "idle"
      /\ \/ to <= LCK_null /\ Becomes(ReleaseRequest(Now, r))
         \/ to > LCK_null /\ internal_convert(r, to, "no_wait")

Dequeue(r) ==
  /\ Active(lrq_owner[r])
  /\ pc[r] = "idle"
  /\ Becomes(ReleaseRequest(Now, r))

\* repost: the caller runs the blocking queue itself unless somebody has been
\* told to.
RepostAst(o) ==
  LET T == [Now EXCEPT !.own_blocks = [own_blocks EXCEPT ![o] = Append(@, Repost)]]
  IN  /\ own_process[o] \notin dead
      /\ o \in lhb_owners
      /\ ast[o] = NoOwner
      /\ Cardinality({i \in DOMAIN own_blocks[o] : own_blocks[o][i] = Repost}) < MaxReposts[o]
      /\ \/ "signaled" \in own_flags[o] /\ Becomes(T)
         \/ /\ "signaled" \notin own_flags[o]
            /\ Becomes(blocking_action([T EXCEPT !.own_flags =
                 [@ EXCEPT ![o] = own_flags[o] \cup {"signaled"}]], o, o))

\* cancelWait wakes the owner; the waiting thread asks its attachment why.
CancelWait(o) ==
  /\ o \in Cancellable
  /\ Active(o)
  /\ own_waits(Now, o) > 0
  /\ Becomes([Now EXCEPT !.own_flags = [own_flags EXCEPT ![o] = @ \cup {"wakeup"}]])

--------------------------------------------------------------------------
(* Waiting: the loop of wait_for_request.                                 *)

\* Request r is resolved: leave wait_for_request and finish the enqueue or the
\* conversion that was waiting.
end_wait_for_request(T, r) ==
  LET B == end_wait(BlockOf(T, r), r)
      T1 == At(WithBlock(T, r, B), r, "idle")
  IN  IF "rejected" \notin B.lrq_flags[r] THEN T1
      ELSE IF B.lrq_state[r] = LCK_none THEN ReleaseRequest(T1, r)
      ELSE LET T2 == PostPending(T1, r, B)
           IN  WithBlock(T2, r, end_convert(BlockOf(T2, r), r))

Waiting(r) == ProcessOf(r) \notin dead /\ pc[r] = "wait"

\* Somebody granted or rejected the request.
WaitResolved(r) ==
  /\ Waiting(r)
  /\ ~IsPending(BlockOf(Now, r), r)
  /\ Becomes(end_wait_for_request(Now, r))

\* Woken without a grant: tell the present holders.
WaitWoken(r) ==
  /\ Waiting(r)
  /\ IsPending(BlockOf(Now, r), r)
  /\ "wakeup" \in own_flags[lrq_owner[r]]
  /\ Becomes(post_blockage(DropFlags(Now, lrq_owner[r], {"wakeup"}), r))

\* The lock timeout has passed, or the attachment is cancelled.
WaitRejected(r) ==
  LET T == DropFlags(Now, lrq_owner[r], {"wakeup"})
  IN  /\ Waiting(r)
      /\ IsPending(BlockOf(Now, r), r)
      /\ \/ "wait_timeout" \in BlockOf(Now, r).lrq_flags[r]
         \/ lrq_owner[r] \in Cancellable
      /\ Becomes(end_wait_for_request(
                   probe_processes(WithBlock(T, r, reject(BlockOf(T, r), r))), r))

\* The deadlock scan: the requests deadlock_walk finds in the way of request r.
DeadlockBlocks(T, r) ==
  LET B == BlockOf(T, r)
      conversion == B.lrq_state[r] > LCK_null
      highest(b) == IF B.lrq_state[b] > B.lrq_requested[b]
                    THEN B.lrq_state[b] ELSE B.lrq_requested[b]
  IN  {b \in Queued(B) :
         \/ conversion /\ b # r /\ ~compatibility(B.lrq_requested[r], B.lrq_state[b])
         \/ ~conversion /\ Before(B, b, r) /\ ~compatibility(B.lrq_requested[r], highest(b))}

\* The owner of the blocking request still has something to react to.
MayStillAct(T, b) ==
  \/ T.own_flags[lrq_owner[b]] \cap {"signaled", "wakeup"} # {}
  \/ T.own_blocks[lrq_owner[b]] # << >>
  \/ "just_granted" \in BlockOf(T, b).lrq_flags[b]

\* The waiting requests of the owners in the way of r: the edges of the graph.
WaitsFor(T, r) ==
  {t \in Requests :
     /\ IsPending(BlockOf(T, t), t)
     /\ "wait_timeout" \notin BlockOf(T, t).lrq_flags[t]
     /\ \E b \in DeadlockBlocks(T, r) : SameOwner(b, t) /\ ~MayStillAct(T, b)}

\* The requests reached from those in S: at most Cardinality(Requests) rounds.
DeadlockReach(T, S) ==
  LET Grow(R) == R \cup UNION {WaitsFor(T, r) : r \in R}
      reach[n \in Nat] == IF n = 0 THEN S ELSE Grow(reach[n - 1])
  IN  reach[Cardinality(Requests)]

\* deadlock_walk returns a request at which the walk from r closes a cycle.
deadlock_walk(T, r) ==
  {t \in Requests :
     /\ IsPending(BlockOf(T, t), t)
     /\ t \in DeadlockReach(T, {r})
     /\ t \in DeadlockReach(T, WaitsFor(T, t))}

maybe_deadlock(T, r) ==
  \E t \in DeadlockReach(T, {r}) : \E b \in DeadlockBlocks(T, t) : MayStillAct(T, b)

\* The scan interval has passed.  Dead owners are purged first, which may
\* resolve the request.
ScanDue(r) ==
  /\ Waiting(r)
  /\ IsPending(BlockOf(Now, r), r)
  /\ "wakeup" \notin own_flags[lrq_owner[r]]

WaitScanResolved(r) ==
  LET T == probe_processes(Now)
  IN  /\ ScanDue(r)
      /\ ~IsPending(BlockOf(T, r), r)
      /\ Becomes(end_wait_for_request(T, r))

\* Whether wait_for_request calls deadlock_scan for the request.
Scannable(T, r) ==
  /\ "scanned" \notin T.own_flags[lrq_owner[r]]
  /\ "wait_timeout" \notin BlockOf(T, r).lrq_flags[r]

\* A deadlock: its victim is rejected; if that is another request its owner is
\* woken and we wait on, otherwise we leave.
WaitScanDeadlock(r) ==
  LET T == probe_processes(Now)
  IN  /\ ScanDue(r)
      /\ IsPending(BlockOf(T, r), r)
      /\ Scannable(T, r)
      /\ \E v \in deadlock_walk(T, r) :
           LET T1 == DropFlags(WithBlock(T, v, reject(BlockOf(T, v), v)),
                               lrq_owner[v], {"scanned"})
           IN  Becomes(IF v = r THEN end_wait_for_request(T1, r) ELSE post_wakeup(T1, {v}))

\* Mutant of ScanAndRepost: an owner that may still act does not cast doubt on the
\* outcome of the scan.
ScanAndRepostHasty(r) ==
  LET T == probe_processes(Now)
  IN  post_blockage([T EXCEPT !.own_flags = [@ EXCEPT ![lrq_owner[r]] =
        T.own_flags[lrq_owner[r]] \cup (IF Scannable(T, r) THEN {"scanned"} ELSE {})]], r)

\* No deadlock: remember it if that is certain, and remind the holders.
ScanAndRepost(r) ==
  LET T == probe_processes(Now)
      certain == Scannable(T, r) /\ ~maybe_deadlock(T, r)
  IN  post_blockage([T EXCEPT !.own_flags = [@ EXCEPT ![lrq_owner[r]] =
        T.own_flags[lrq_owner[r]] \cup (IF certain THEN {"scanned"} ELSE {})]], r)

WaitScanRepost(r) ==
  LET T == probe_processes(Now)
  IN  /\ ScanDue(r)
      /\ IsPending(BlockOf(T, r), r)
      /\ Scannable(T, r) => deadlock_walk(T, r) = {}
      /\ Becomes(ScanAndRepost(r))

--------------------------------------------------------------------------
(* Threads that deliver ASTs.                                             *)

\* The AST that thread t runs for owner ast[t] returns; the thread goes on with
\* the blocking queue, and after that with what it was doing.
AstReturns(t) ==
  LET o == ast[t]
      T == blocking_action([Now EXCEPT !.ast = [ast EXCEPT ![t] = NoOwner]], t, o)
  IN  /\ ast[t] # NoOwner
      /\ ProcessOf(t) \notin dead
      /\ \/ T.ast[t] # NoOwner /\ Becomes(T)
         \/ T.ast[t] = NoOwner /\ t \in Owners /\ Becomes(T)
         \/ /\ T.ast[t] = NoOwner
            /\ t \in Requests /\ pc[t] = "post"
            /\ Becomes(signal_owners(T, t, sig[t]))
         \/ /\ T.ast[t] = NoOwner
            /\ t \in Processes
            /\ \E T1 \in blocking_action_thread(T, t) : Becomes(T1)

\* The blocking thread of a process wakes up for its event.
BlockingThreadWakes(p) ==
  LET T == [Now EXCEPT !.prc_blocking = [prc_blocking EXCEPT ![p] = FALSE]]
  IN  /\ UseBlockingThread
      /\ prc_blocking[p]
      /\ p \notin dead
      /\ ast[p] = NoOwner
      /\ \E T1 \in blocking_action_thread(T, p) : Becomes(T1)

--------------------------------------------------------------------------
(* Specification.                                                         *)

OwnerStep(o) ==
  \/ InitializeAgain(o) \/ InitializeOwner(o) \/ ShutdownOwner(o) \/ PurgeOwner(o)
  \/ RepostAst(o) \/ CancelWait(o)

WaitStep(r) ==
  \/ WaitResolved(r) \/ WaitWoken(r) \/ WaitRejected(r)
  \/ WaitScanResolved(r) \/ WaitScanDeadlock(r) \/ WaitScanRepost(r)

RequestStep(r) ==
  \/ \E type \in RequestLevels[r], lck_wait \in WaitModes[r] :
       Enqueue(r, type, lck_wait) \/ Convert(r, type, lck_wait)
  \/ Downgrade(r)
  \/ Dequeue(r)

Next ==
  \/ \E o \in Owners : OwnerStep(o)
  \/ \E r \in Requests : RequestStep(r) \/ WaitStep(r)
  \/ \E t \in Threads : AstReturns(t)
  \/ \E p \in Processes : ProcessDies(p) \/ BlockingThreadWakes(p)

Spec == Init /\ [][Next]_vars

--------------------------------------------------------------------------
(* Fairness.  Where TLC would be slow to find out whether an action is    *)
(* enabled and changes something, the condition E for that is written out: *)
(* <>[]E => []<><<A>>_vars is WF_vars(A), []<>E => []<><<A>>_vars is SF.  *)

\* Whether the thread that waits for r has something to do when it wakes up.
WaitMoves(r) ==
  LET B == BlockOf(Now, r)
      T == probe_processes(Now)
  IN  /\ Waiting(r)
      /\ \/ ~IsPending(B, r)
         \/ "wakeup" \in own_flags[lrq_owner[r]]
         \/ "wait_timeout" \in B.lrq_flags[r]
         \/ lrq_owner[r] \in Cancellable
         \/ T # Now
         \/ Scannable(T, r) /\ deadlock_walk(T, r) # {}
         \/ ScanAndRepost(r) # Now

TimedOut(r) == "wait_timeout" \in BlockOf(Now, r).lrq_flags[r]

AstMoves(t) == ast[t] # NoOwner /\ ProcessOf(t) \notin dead

\* A holder that has been told it is in the way, and whose owner is not itself
\* waiting for a lock.
ShouldYield(r) ==
  /\ Active(lrq_owner[r])
  /\ pc[r] = "idle"
  /\ "blocking_seen" \in BlockOf(Now, r).lrq_flags[r]
  /\ own_waits(Now, lrq_owner[r]) = 0

\* While a thread of its owner waits for another lock, request r is asked for or
\* converted.
CallsWhileWaiting(r) ==
  /\ own_waits(Now, lrq_owner[r]) > 0
  /\ \E type \in RequestLevels[r], lck_wait \in WaitModes[r] :
       Enqueue(r, type, lck_wait) \/ Convert(r, type, lck_wait)

\* A thread asleep in wait_for_request wakes up, at the latest for its next scan
\* or its timeout; AST routines return; the thread that sleeps on the blocking
\* event of a process wakes up for it; holders yield when they should, and an
\* owner that waits does not go on asking for locks for ever.
FairSpec ==
  /\ Spec
  /\ \A r \in Requests :
       /\ <>[]WaitMoves(r) => []<><<WaitStep(r)>>_vars
       /\ <>[](Waiting(r) /\ IsPending(BlockOf(Now, r), r) /\ TimedOut(r))
            => []<><<WaitRejected(r)>>_vars
       /\ []<>ShouldYield(r) => []<><<Dequeue(r)>>_vars
       /\ ~[]<><<CallsWhileWaiting(r)>>_vars
  /\ \A t \in Threads : <>[]AstMoves(t) => []<><<AstReturns(t)>>_vars
  /\ \A p \in Processes : WF_vars(BlockingThreadWakes(p))

--------------------------------------------------------------------------
(* Properties.                                                            *)

\* Two requests for one lock never hold levels that exclude each other, whatever
\* mixture of grants, conversions, releases and purges led here.
GrantedCompatible == \A l \in Locks : HeldCompatible(lbl[l])

\* What validate_lock counts in debug builds agrees with the block: the requests
\* granted at every level, the highest level granted, the pending requests.
LockCountsAgree ==
  \A l \in Locks : NoDuplicates(lbl[l]) /\ OnlyQueuedCount(lbl[l]) /\ CountsAgree(lbl[l])

\* A request is queued on its lock, and nowhere else, exactly while it is in use,
\* and pending only while a thread waits for it.
Linked(b, place) ==
  /\ \A r \in Requests, l \in Locks :
       r \in Queued(b[l]) <=> (l = lrq_lock[r] /\ place[r] # "free")
  /\ \A r \in Requests : IsPending(b[lrq_lock[r]], r) => place[r] \in {"wait", "post"}

\* Together with the types, an inductive invariant of the specification: the
\* lock blocks are consistent, they agree with what the threads are doing, and
\* dead processes are purged one by one.
LockTableInv ==
  /\ \A l \in Locks : BlockInv(lbl[l])
  /\ Linked(lbl, pc)
  /\ dead \subseteq Crashable /\ \A p, q \in dead : p = q

\* A queued request that is not pending is compatible with the state of the
\* lock, or is a rejected one whose thread has not woken up yet; a pending one
\* is incompatible with it, or stands behind a request that is.
QueueJustified(B) ==
  LET clashes(r) == ~compatibility(B.lrq_requested[r], B.lbl_state)
  IN  \A r \in Queued(B) :
        IF IsPending(B, r)
        THEN clashes(r) \/ \E p \in Queued(B) : Before(B, p, r) /\ clashes(p)
        ELSE \/ "rejected" \in B.lrq_flags[r]
             \/ B.lrq_requested[r] = B.lbl_state
             \/ ~clashes(r)

\* What validate_lock checks of the requests in a queue in debug builds holds of
\* every lock.
validate_lock == \A l \in Locks : QueueJustified(lbl[l])

\* What validate_owner and validate_request check: the blocking queue of an
\* owner holds exactly its requests marked LRQ_blocking, once each; a pending
\* request has a thread waiting for it and is not rejected; a request is queued
\* on its lock exactly while it is in use.
validate_owner ==
  /\ \A r \in Requests :
       LET B == lbl[lrq_lock[r]]
           entries == {i \in DOMAIN own_blocks[lrq_owner[r]] : own_blocks[lrq_owner[r]][i] = r}
       IN  /\ Cardinality(entries) = IF "blocking" \in B.lrq_flags[r] THEN 1 ELSE 0
           /\ IsPending(B, r) => pc[r] \in {"wait", "post"} /\ "rejected" \notin B.lrq_flags[r]
           /\ r \in Queued(B) <=> pc[r] # "free"
           /\ r \in Queued(B) => lrq_owner[r] \in lhb_owners
  /\ \A o \in Owners : \A i \in DOMAIN own_blocks[o] :
       own_blocks[o][i] = Repost \/ lrq_owner[own_blocks[o][i]] = o

\* The first pending request of a lock could not be granted now: no release,
\* conversion, rejection or purge forgets to look at the head of the queue.  (A
\* rejected request still queued ahead of it looks when its thread wakes up.)
FirstPendingBlocked ==
  \A l \in Locks :
    LET B == lbl[l]
    IN  \A i \in DOMAIN B.lbl_requests :
          /\ IsPending(B, B.lbl_requests[i])
          /\ PendingAhead(B, i) = {}
          /\ ~\E j \in 1 .. i : /\ "rejected" \in B.lrq_flags[B.lbl_requests[j]]
                                /\ pc[B.lbl_requests[j]] # "idle"
          => ~grantable(B, i)

\* A blocking AST that is queued is going to be run: its owner is marked
\* signalled, or the thread that queued it is still on its way through its list.
NoLostBlock ==
  \A o \in lhb_owners :
    (own_blocks[o] # << >> /\ own_count[o] > 0 /\ own_process[o] \notin dead) =>
      \/ "signaled" \in own_flags[o]
      \/ \E r \in Requests : \E j \in DOMAIN sig[r] : sig[r][j] = o

\* An owner marked signalled has somebody to look after it: a thread running its
\* ASTs, or a blocking thread that will come round to it.
SignalServed ==
  \A o \in lhb_owners :
    ("signaled" \in own_flags[o] /\ own_process[o] \notin dead) =>
      \/ \E t \in Threads : ast[t] = o
      \/ prc_blocking[own_process[o]]
      \/ ast[own_process[o]] # NoOwner

\* No AST runs for an owner that has left the lock table, and a shut down owner
\* has left no request behind.
NoAstAfterPurge ==
  /\ \A t \in Threads : ast[t] # NoOwner => ast[t] \in lhb_owners
  /\ \A r \in Requests : pc[r] # "free" => lrq_owner[r] \in lhb_owners

\* As long as the deadlock walk's own graph has a cycle, some request on it
\* belongs to an owner that has not been marked OWN_scanned, so somebody is going
\* to look again: no order of waiting, scanning and waking loses a deadlock.
DeadlockWillBeScanned ==
  \A r \in Requests :
    (IsPending(BlockOf(Now, r), r) /\ r \in DeadlockReach(Now, WaitsFor(Now, r))) =>
      \E t \in DeadlockReach(Now, {r}) :
        r \in DeadlockReach(Now, {t}) /\ "scanned" \notin own_flags[lrq_owner[t]]

\* Every wait ends: with the lock, or with a deadlock or a timeout reported.  The
\* holders in the way learn of it, whichever process and thread they live in,
\* although their ASTs are queued, signalled, seen and forgotten again; owners
\* that wait for each other, and holders whose process died, are found by a scan.
WaitsEnd ==
  \A r \in Requests :
    pc[r] \in {"wait", "post"} ~> (pc[r] \in {"idle", "free"} \/ ProcessOf(r) \in dead)
==========================================================================
