# Verification of Firebird: locks, transactions, page cache, physical backup

TLA+ models of parts of the Firebird server, the TLC runs that check them on
small instances, and TLAPS proofs of what matters most for instances of every
size.  What is modelled is the part of the server in which processes that share
a database depend on each other:

* the lock manager (`src/src/lock/lock.cpp`), by whose table all other subsystems
  exclude each other and learn that they hold something somebody else needs;
* transactions (`src/src/jrd/tra.cpp`, `tpc.cpp`): inventory page, shared cache,
  snapshots, and the counters that say what is garbage;
* the page cache (`src/src/jrd/cch.cpp`): careful writes, and page locks given up to
  other processes;
* physical backup (`src/src/jrd/nbak.cpp`, with `GlobalRWLock.cpp` and the page
  reads and writes of `cch.cpp`).

## 1. The system

| Part | State | Operations | What is hard |
|---|---|---|---|
| Lock manager (`lock/lock.cpp`) | lock blocks with queues of requests and counters; owners with flags, a blocking queue and a use count; processes with a blocking event | enqueue, convert, downgrade, dequeue, repost, cancelWait, initializeOwner, shutdownOwner; waiting with deadlock scans; delivery of blocking ASTs | grants made by other threads, ASTs run outside the mutex, signals suppressed by flags, deadlock verdicts that must stay true, processes that die |
| Lock table memory (`acquire_shmem`, `insert_tail`, `remove_que`) | doubly linked queues of offsets, secondary header | queue operations, recovery of the previous holder's unfinished one, growth and remapping | death of a process between two stores |
| Engine locks (`jrd/lck.cpp`, `GlobalRWLock.cpp`, `rlck.cpp`) | logical and physical level of each lock, lists of compatible locks | LCK_lock, LCK_convert, LCK_release, LCK_assert; read-write locks cached across uses | an AST that arrives while the lock is being converted |
| Transactions (`jrd/tra.cpp`, `tpc.cpp`) | inventory pages, the shared cache of commit numbers, transaction locks with data, snapshot slots, header counters | start, commit, rollback, prepare, reconnect, wait, ask for a state, sweep | conclusions drawn from page, cache and lock read one after the other; lists read without their mutex; counters of other processes out of date |
| Record versions (`jrd/vio.cpp`, `Savepoint.cpp`) | version chains, undo | read, update, delete, backout, garbage collection | concurrent garbage collectors, rollback of a savepoint |
| Page cache (`jrd/cch.cpp`, `pag.cpp`, `dpm.epp`) | buffers, latches, precedence graph | fetch, mark, release, flush, page lock AST | careful write order, cycles in the precedence graph, writes and downgrades by an AST beside a worker, failed writes |
| Physical backup (`jrd/nbak.cpp`) | backup mode and SCN in the header page, difference file, its allocation table and the cached copies of all of these | begin, end (merge), recovery, page reads and writes meanwhile | a state cached under a lock that is given up by an AST; death in the middle of a merge |
| Shutdown, events, replication, encryption, metadata cache, shadows, monitoring | see `PROJECT.json` | | |
| B-trees, sorting, compression, SQL, client library, remote protocol, utilities, authentication, character sets | see `PROJECT.json` | | mostly sequential or input and output |

`PROJECT.json` lists every part with its sources and, for those that are not
modelled, the reason; and, under `hazards`, what is hard to test in them.

### How the lock manager works

The lock table mutex is held from entry to return of every public routine.
It is released in three places only, and these delimit the actions of the
model:

1. while a thread sleeps in `wait_for_request`;
2. while an AST routine runs inside `blocking_action`;
3. while `shutdownOwner` waits for running ASTs of its owner.

A request that cannot be granted is put at the tail of its lock's queue and
marked `LRQ_pending`; `post_blockage` puts the requests in its way on the
blocking queues of their owners and signals these.  In SuperServer the waiting
thread runs the ASTs itself.  Between processes it posts the event of the other
process, whose blocking thread runs them; in SuperClassic both happen.
`OWN_signaled` suppresses repeated signals, `LRQ_blocking` and
`LRQ_blocking_seen` repeated ASTs.  Whoever releases or converts a lock runs
`post_pending`, which grants what has become compatible in queue order and
wakes the owners concerned.  A waiter that has not been served for a scan
interval purges dead processes, searches the waits-for graph, rejects a victim
if it finds a cycle, and otherwise reminds the holders.

### How transactions work

A transaction takes its number from the header page and an exclusive lock named
after it, with a number as lock data.  Its state is on an inventory page (TIP)
and, as a *commit number*, in a cache in shared memory; a snapshot is the latest
commit number at its start, and a record version is visible to it if its
transaction has a commit number not above.  To end, `TRA_set_state` locks the TIP
page, changes the cache, then the page, and writes it; only then does the lock
go.  Who finds a transaction active in the cache and its lock without data takes
it for dead and says so on the page (`snapshotState`, `TRA_wait`).

Snapshots are also listed in shared memory, one slot each, so that garbage
collectors can tell which versions between two snapshots nobody reads; they copy
the list without its mutex.  Below the *oldest snapshot*, a minimum over the data
of all transaction locks, every old version is garbage.  The *oldest interesting*
transaction is the bound below which everything is committed.  All these numbers are
computed by every starting transaction, kept in the process, and carried to other
processes by the header page.

### How the page cache works

Firebird has no log: a crash must leave on disk pages that can be used as they
are, so a page is written only after the pages it refers to.  Before a thread makes
page *l* refer to page *h*, `CCH_precedence` puts a block with *h* above *l* into
the precedence graph, unless *h* is clean; if that would close a cycle, *l* is
written first.  `write_buffer` writes the pages above its page before it, one at
a time, and then removes the blocks below it.  In Classic the cache is private
and each page has a lock; when another process wants it, a blocking AST writes
the page, and the pages above, and downgrades the lock (`down_grade`).  A page in
use is left to its user (`BDB_blocking`), who posts the AST again on release; so does
the writer of a higher page the downgrade had to wait for.

### How physical backup works

BEGIN BACKUP freezes the main file: changed pages go to a difference file, found
through its allocation table.  END BACKUP merges: the mode becomes *merge*, pages are
written to both files, every page of the table is read and written once, the mode
becomes *normal*.  Every process caches mode and table under two locks, and
looks at the header page again when it has lost the first.  Reading and dirtying
pages needs the state lock for reading, changing the mode needs it for writing;
a process asked for it flushes and lets go when its last local reader is done
(`stateBlocking`).

## 2. Modules

| Module | Role |
|---|---|
| `LockModes` | levels, compatibility matrix, `lock_state`, the level `downgrade` falls back to |
| `LockBlock` | one lock block with its requests as a record; one operator for each routine that changes it (`grant`, `post_pending`, `release_request`, `internal_convert`'s and `wait_for_request`'s parts, `post_blockage`'s marks) |
| `LockManager` | the state machine: owners, processes, blocking queues, signals, waits, scans, ASTs, crashes; the properties; fairness |
| `LockService` | abstract specification: what a caller may rely on |
| `LockManagerService` | refinement mapping from `LockManager` to `LockService` |
| `LockManagerProofs` | proofs: consistency of lock blocks and of the table, mutual exclusion |
| `LockManagerServiceProofs` | proofs: the refinement, the head of each queue |
| `LockSignalProofs` | proofs: blocking queues, signals, ASTs |
| `TransactionsProofs`, `SnapshotListProofs`, `OldestTransactionsProofs` | proofs: all invariants of these three |
| `PageCacheProofs` | proofs: the precedence graph, and what page locks and buffers promise |
| `PhysicalBackupProofs` | proofs: the state lock, and what tables, buffers and files hold during backups |
| `SharedQueue` | the doubly linked queues of the table, store by store, with the mutex, the secondary header and recovery |
| `Transactions` | inventory page, cache and locks of transactions; ending, waiting, reading with snapshots, limbo, crashes, restart |
| `SnapshotList` | the slots of the shared list of snapshots, store by store, and the collectors' copies of it |
| `OldestTransactions` | the oldest interesting, active and snapshot transaction; sweep |
| `PageCache` | precedence graph, `write_buffer`, flushes, page locks with their ASTs and `down_grade`, failing writes |
| `PhysicalBackup` | backup state lock, allocation table, difference file, page reads and writes, merge and its recovery |
| `MCLockManager`, `MCSharedQueue`, `MCTransactions`, `MCSnapshotList`, `MCOldestTransactions`, `MCPageCache`, `MCPhysicalBackup` | instances for TLC |

Names are those of the source where TLA+ allows it; `PROJECT.json` maps each
definition to its lines.

### Lock manager

**State.** `lbl[l]` is a lock block: the queue `lbl_requests`, `lbl_counts`,
`lbl_state`, `lbl_pending_lrq_count`, and the fields of the requests on it.  A
request is identified by a name with a fixed owner and lock (`lrq_owner`,
`lrq_lock`); an unused one has the values of a free `lrq`.  `lhb_owners`,
`own_count`, `own_flags`, `own_blocks` are the owner blocks; `own_waits` and
`own_ast_count` are computed from where the threads are.  `prc_blocking` is the
blocking event of a process.  The remaining variables are program counters:
`pc[r]` says whether the thread that asked for `r` sleeps in
`wait_for_request` (`"wait"`) or is running ASTs inside its `post_blockage`
(`"post"`), `sig[r]` the part of its list of owners still to be signalled,
`ast[t]` the owner whose AST thread `t` runs, `dead` the processes that died and
have not been purged.

**Actions.** Each routine takes the whole table as a record and returns what it
becomes, so that actions compose as calls do.  `Enqueue`, `Convert`,
`Downgrade`, `Dequeue`, `RepostAst`, `CancelWait`, `InitializeOwner`,
`InitializeAgain`, `ShutdownOwner` and `PurgeOwner` are the public routines up
to their return or first sleep; `WaitResolved`, `WaitWoken`, `WaitRejected`,
`WaitScanResolved`, `WaitScanDeadlock`, `WaitScanRepost` are the ways one round
of the waiting loop can go; `AstReturns` and `BlockingThreadWakes` deliver ASTs;
`ProcessDies` is the environment.

**Abstractions.**
* Time is left out: a timeout or a scan may come at any moment while the request
  waits.  The timer reset by every wakeup is therefore not modelled.
* What an AST routine does is left to the other actions of its owner, which are
  possible at any time; only its start and its return are in the model.
* `deadlock_walk` returns *some* request at which the depth-first walk from `r`
  can close a cycle; the model lets the victim be any request on a cycle
  reachable from `r`, in place of the one the order of the queues selects.
* The blocking thread serves the signalled owners of its process in any order.
* `eventPost` to another process always succeeds; a dead process is found by
  `probe_processes`.
* An `enqueue` that finds the table full does to the queues what `Dequeue` of
  the prior request does, and is not an action of its own.
* A process that may die holds at most one request per lock
  (`CrashAssumption`), so that purging it is one release for each lock; only one
  dead process is in the table at a time.
* In `LockManager` a process dies outside the mutex; deaths inside it are the
  subject of `SharedQueue`.
* Lock data (`queryData`, `readData`, `readData2`, `writeData`), hash chains,
  free lists and history blocks are left out.

**`SharedQueue`.** One process at a time holds the mutex; `pc` is the next store
it makes.  `insert_tail` (`i1` to `i8`), `remove_que` (`r1` to `r6`) and the
recovery (`c0` to `c4`) are sequences of single stores to `srq_forward`,
`srq_backward` and the secondary header, which other processes see in program
order; a death (`Die`) between two of them frees the mutex and leaves
`lhb_active_owner` as it is, the sign by which `acquire_shmem` knows that there
is something to recover.  `Marks` says how holders are marked (an owner, or
`DUMMY_OWNER` until `setOwner`), `CrashPoints` with which mark and before which
store they may die.  `left` remembers the nodes of interrupted operations with
the store that was not made any more: such a request is still in `own_requests`
of the dead owner, so that `PurgeNode` removes it once more; `Purged` says for
which stores.  `content` is a history variable: the queues as the last holder saw
them.  Nodes are linked to themselves while they are in no queue, as `remove_que`
leaves those taken from a free list.  The checks inside `remove_que` are compiled
into development builds only and are left out.

### Transactions

Every attachment is a process (Classic).  The steps of a process are its accesses
to what is shared: the TIP page under its page lock (`tip`, `tip_latch`), one
word of the cache (`tpc`), the commit counter, the lock table (`lock_owner`,
`lock_data`).  `att[a]` holds where attachment `a` is, its transaction and the
locals of the routine it is in; `caller` tells whether `TRA_set_state` and
`snapshotState` work for its own end, a read or a wait.  A commit draws its number
(`setState`) and stores it (`StoreCommitNumber`) in two steps.  `lock_data`
outlives the transaction while somebody else has a request for the lock, since data
belong to the lock block; `Waiters` are these requests.  A refused change of state
is a bugcheck, which ends the process.  `before`, `committing` and `answers` are
history variables for `SnapshotExact`.

Left out: retaining commits (a commit and a start), savepoints, read-only
databases, imported snapshot numbers, the blocks of the cache and their release.
A commit that a read-only transaction leaves in the page buffer of a shared
database is written at once here.  A new transaction takes its lock while the
header page is locked, so start is one step.

`SnapshotList` has the stores of `allocateSnapshotSlot`, `beginSnapshot`,
`deallocateSnapshotSlot` and `endSnapshot` as steps under the mutex, and the loads
of `updateActiveSnapshots` as steps without it, fast and slow path.
`getSnapshotForVersion` and the rule of `VIO_intermediate_gc` (`Going`) are
operators over the copy.  Whether an attachment is dead is asked of the lock
manager, which may not know yet.  The slots do not grow.  `Staying` are collectors
that update more than once; the others detach after one update.  The history
variable `caught` names the users that have loaded their number and not published
their slot when a collector's update begins.

`OldestTransactions` has the shared accesses of `transaction_start` as steps, and
`state` and `cn` as the cache (what happens between page and cache is the
subject of `Transactions`).  `dbb[a]` are the counters in the Database block of a
process.  `VIO_sweep` backs out everything dead at its beginning; it is the step in
which the visit begins.  A transaction in limbo is ended by whoever reconnects to
it, and a rollback leaves its versions behind, for there is no undo log.  Two
history variables name what searches cannot see: `missed` what the search for
active transactions does not meet, `late` the transactions in limbo rolled back
while some sweep is between its visit and its search for limbo.
Transaction numbers stand for themselves; `TRA_ACTIVE_CLEANUP` is 3 instead of
1000, so that clean-up happens.

### Page cache

The contents of a page are the incarnation of its last change (`ver`) and what it
relies on: `needs[h]` is the incarnation of page `h` it was made to refer to.
`buf` and `disk` are the contents in the cache and on disk; `dirty`, `not_valid`
and `blocking` are buffer flags; `latch` and `io` the owners of `bdb_syncPage` and
`bdb_syncIO`; `held` the page locks, `wanted` the ones another process waits for,
`posted` the ASTs not delivered yet.  `blocks` are the precedence blocks with the free
ones, which keep their flags and are used again (`Insert`), since `down_grade` looks
at a block after it has let go of the graph.  `th[w]` is a worker: the page in its
window, the call of `write_buffer` it is in (`write_buffer` the page asked for,
`writing` the page above it being written), its flush.  `down` is the stack of
activations of `down_grade` in the thread that runs ASTs.

`WriteHigher`, `WriteBuffer` and `WriteClear` are the parts of `write_buffer`: the IO
lock is taken anew after each higher page, and precedence is cleared without it.
`CheckPrecedence` is the part of `check_precedence` under `bcb_syncPrecedence`;
`WriteLow` interrupts it.  `DownLatch`, `DownIO`, `DownHigher`, `DownBack`, `DownWrite`,
`DownLower` and `DownLeave` are the steps of `down_grade` between its locks.  Steps made
under the IO lock without another lock in between are one step.

**Abstractions.**  Which blocks the walk of `related` visits before it meets its goal
depends on the order of the queues: it *may* give up as soon as `PRE_SEARCH_LIMIT`
blocks can be reached (`TooComplex`).  Every latch is exclusive, a worker has one page
latched at a time, and `write_buffer` removes all cleared blocks above a page at
once.  A page lock is held for write or not at all.  A page must be written on release
or not (`CCH_release`), a flush may ask for any set of dirty pages.  `lost` is a history
variable with what failed writes gave up; the engine invalidates the transactions
concerned (`TRA_invalidate`).  `misled` is explained under *known limits*.
`MaxChanges`, `MaxRequests` are bounds.

Left out: replacement of buffers, `CCH_fake`, `CCH_handoff`, fetches for read, pages
fetched without blocking AST, the cache writer, what a bugcheck does, and crashes,
which need no action of their own: `CarefulWrite` speaks of the disk in every state.

### Physical backup

`hdr`, `main`, `delta` and `table` are what is on disk; `bm[p]`, `rw[p]`, `dirty[p]`
and `th[p]` are the `BackupManager`, the `GlobalRWLock`, the dirty pages and the
attachment thread of a process; `ast` and `unlocking` are the blocking handler
and the end of `unlockStateRead`, which run beside it.  The lock manager is a
queue, granted in order (`Grant`), an AST delivered at most once for each request
(`seen`), as module `LockManager` shows of the real one.  The lock on the
allocation table is modelled by what it does: who asks makes the others step
down, in the same step.  Pages carry a version and an SCN; a page is one that a
process has fetched, or is dirty in one process, as page locks guarantee.
Writes happen at any time after a page is dirty (`write_page`), flushes asked
for by an AST included, and write to the difference file first.

`Operators` says which process may begin or end at which SCN, `Writers` who
modifies which page; `MaxVersions` and `MaxDeaths` are bounds.  With few pages the
last page of the table is all of it, so that `actualizeAlloc` without the global
lock reads nothing.  Shared page locks, several threads of one process, file
growth (`extendDatabase`'s own work), encryption checks and the nbackup utility
are left out.  `EndRefused` is there because the code checks the state again; the
lock on END BACKUP keeps it from happening.

## 3. What the runs check

Deadlock checking is on where the system cannot stop; the bounded runs of
`SnapshotList`, `OldestTransactions` and `PhysicalBackup` end when their
bounds are used up.  Symmetry is used in `LockCrash`, `SharedQueue`,
`PageCache` and `EarlyWrite`.

| Run | Instance | Shows |
|---|---|---|
| `LockCrash` | 3 processes, 1 lock, PR and EX; all waits, cancellation, crashes | `TypeOK`, `GrantedCompatible`, `LockCountsAgree`, `LockTableInv`, `FirstPendingBlocked`, `validate_lock`, `ImplementsService` |
| `LockAst` | 2 owners of one process and 1 of another that comes, goes and dies; ASTs, reposts, use count up to 2 | `validate_owner`, `NoAstAfterPurge`, `NoLostBlock`, `SignalServed` |
| `LockLive` | 2 processes, 2 locks, one process may die, one waits with a timeout | `DeadlockWillBeScanned`, `WaitsEnd` |
| `SharedQueue` | 2 queues, 3 nodes, any number of deaths | `QueuesSound`, `AtomicQueues` |
| `Transactions` | 3 attachments, 3 transactions, commit numbers to 5, one attachment may die | `TypeOK`, `CacheFollowsPage`, `EndFinal`, `NotBuriedAlive`, `SnapshotExact` |
| `SnapshotList` | 2 users of snapshots, one may be killed, 2 collectors, 2 slots, 2 commits, 1 release | `TypeOK`, `ListConsistent`, `SnapshotKept`, `ScannedListSafe` |
| `OldestTransactions` | 3 attachments, 3 transactions of all kinds and ends | `TypeOK`, `GarbageSafeOnceStarted`, `OldestDecided` |
| `PhysicalBackup` | 2 processes, 2 pages, one makes backups and may die once | `TypeOK`, `DiskCurrent`, `ReadsLatest`, `StateKnown`, `AllocComplete`, `StepsDown` |
| `PageCache` | 2 pages, 1 worker beside the thread of the ASTs, 3 changes or failed writes, 1 request of another process | `TypeOK`, `CarefulWrite`, `CleanOnDisk`, `DirtyLocked`, `Acyclic`, `NeverForgotten` |
| `LimboBuried`, `MissedSnapshot`, `EarlyWrite` | the least that shows it | a counterexample, see below |

The bounds let the interesting cases happen.  Three owners on one lock are
the least with a holder, a waiter and somebody behind the waiter; all queue
orders and all mixtures of conversions and new requests of three requests occur.
The levels SR, SW and PW are left to the proofs, which cover all of them.
Two owners on two locks are the least with a deadlock.  Three owners of which
two share a process are the least where a thread leaves the mutex in the middle of
a list of owners to signal, and where a waiting thread and the blocking thread
serve the same owner; one of the two has no blocking AST and asks for EX only,
which keeps the run small.  `MaxOwnCount` bounds the use count, `MaxReposts` the
reposts waiting on one owner, `MaxWaits` the requests an owner waits for at a
time: one, as for an attachment whose threads take turns.  With two,
`DeadlockWillBeScanned` does not hold, since `OWN_scanned` belongs to the owner and
not to the request.  Three nodes and two queues are the least where a stale link can
point into a queue that has changed, or to a node that has moved to another one.

Three transactions are one that ends, one that reads or waits, and one that does so
after it, or takes over what the first left in limbo.  Commit numbers up to 5
allow each of them to draw a number, one of them to lose it in a crash, and
another to draw again.  Two slots are the least where the used part of the list
shrinks and grows, and one can be reused.  Two pages are needed because the header
page is treated differently; SCNs to 3 are one whole backup and the begin of
the next.  The passing run has one process that makes backups, see *known limits*.

Two pages are the least with a precedence and with a cycle to avoid; three changes
let each refer to the other, or the higher page be changed again while the lower
one waits for it; or two changes and a write that fails.  `PRE_SEARCH_LIMIT` is 2
instead of 256, so that the search does get too complex.  `CarefulWrite` is shown for
two pages, and with three it has an exception, see *known limits*.

**The properties.**
* `validate_lock` and `validate_owner` are what the routines of these names
  assert in debug builds, as invariants of every reachable state.
* `FirstPendingBlocked`: no path forgets to look at the head of a queue.
* `NoLostBlock`, `SignalServed`: a blocking AST that is queued will be run,
  although signals are suppressed by a flag that several threads set and clear.
* `NoAstAfterPurge`: `shutdownOwner` waits long enough.
* `DeadlockWillBeScanned`: the owners of a cycle are never all marked
  `OWN_scanned`.
* `ImplementsService`: every step belongs to at most one actor, everybody else
  is only given what it waits for, new requests are served in the order in which
  they came, nobody waits without a reason.
* `WaitsEnd`: every wait ends.
* `QueuesSound`, `AtomicQueues`: whoever holds the mutex finds queues whose links
  agree; an interrupted insertion or removal is seen completely or not at all.
* `CacheFollowsPage`: no interleaving of enders, undertakers and crashes makes the
  cache contradict the page.
* `EndFinal`: a transaction committed or dead on the page stays so, though
  `TRA_set_state` does not look at what it overwrites.
* `NotBuriedAlive`: who marks transactions of others dead never hits one that runs.
* `SnapshotExact`: a snapshot sees the commits before it and no others; the only
  transactions it may see either way are those that had drawn their number and not
  stored it.
* `ListConsistent`: the list of snapshots can be used after a death at any store.
* `SnapshotKept`: cleaning up after the dead never frees the slot of the living.
* `ScannedListSafe`: a collector that read the slots spares every version a
  snapshot needs, taken before its update, during it or after.  The only exceptions
  are snapshots `caught` between their number and their slot when it began.
* `GarbageSafeOnceStarted`: below the oldest snapshot of whatever process, every
  committed transaction is visible to every snapshot, apart from the transactions
  in `missed`.
* `OldestDecided`: everything below the oldest interesting transaction is
  committed or swept, and visible, apart from the transactions in `late`.
* `CarefulWrite`: whoever writes a page, worker, flush or AST, no page on disk refers to
  a version of another page that is not, apart from changes given up after a
  failed write.
* `CleanOnDisk`, `DirtyLocked`: a page lock is never given up with changes not on disk,
  no write loses a change made meanwhile, no old copy is used after the lock was away.
* `Acyclic`: every page can be written some time.
* `NeverForgotten`: a lock another process waits for is always somebody's business.
* `DiskCurrent`: whoever dies when, the files hold the last version written.
* `ReadsLatest`, `AllocComplete`: what a process remembers of the allocation table
  never makes it read an old version.
* `StateKnown`: nobody changes the mode under a reader or a dirty page.
* `StepsDown`: a request to give up the state lock is never forgotten.  The flag an AST
  leaves has a reader who will look at it, except in a process that makes backups
  (`Backs`): an AST that started before the process became master may leave the flag to
  whoever unlocks next.

**Disagreements with the code's own comments.**  Three runs end with the
counterexample they are there for; the lines they contradict are quoted in
`PROJECT.json`.
* `LimboBuried` (`LimboKept`): two attachments wait for a transaction that is left
  in limbo.  When its owner is gone both are granted; the first releases its lock
  and reads the lock data, which the second's request keeps alive.  It takes the
  transaction for active, and `TRA_wait` declares it dead.
* `MissedSnapshot` (`ListSafe`): a snapshot has its number and a slot that is counted,
  and publishes the slot just after an update has looked at it.  At the next update
  neither of the two numbers the fast path compares has changed, and
  `m_lastCommit` is past the snapshot.  The same happens to a snapshot that takes a
  slot freed, and counted, before the last update.
* `EarlyWrite` (`CarefulWrite`): in SuperServer one thread has written a page and
  released its IO lock; before it clears the precedence, another thread changes the
  page again and makes a third page wait for it.  The new block is deleted with the
  old, and the third page is written first.

**Known limits of the passing runs.**  In these cases a property does not hold and
the run leaves the case out; `hazards` in `PROJECT.json` has them with their lines.
* A process that dies inside a queue operation while `lhb_active_owner` is
  `DUMMY_OWNER` (-1) is not recovered, since `acquire_shmem` tests for a positive
  value (`CrashPoints`).
* `signal_owner` may run an AST inline, and an owner on the list of `signal_owners` may have
  been purged when it returns (`lock.cpp:2708-2710`; `purge_owner` clears
  `own_process` and `own_flags`, 2946-2949, not `own_count`).  In the model the event posted
  for it reaches nobody, and no property is about its use.
* An insertion that was undone leaves links in the node, through which the purge of
  its owner removes it again (`Purged`).
* A death between the stores that clear `shb_insert_que` and `shb_insert_prior`,
  followed by one between those that set them, pairs the new queue with the old
  prior node (`CrashPoints`).
* Two conversions can wait for each other through the order of the queue, which
  the deadlock walk does not follow.
* With three pages, `CarefulWrite` fails for one worker too, if a page is released
  after `CCH_precedence` without `CCH_MARK`, as an error between the two makes
  `CCH_unwind` do: a clean page *a* is then left below a dirty page *c*.  If a page *b*
  was put below *a* just when a blocking AST wrote *a* (`check_precedence` reads the
  dirty flag of *a* before it takes the mutex), `related` finds *c* above *b* by way of
  *a* and adds no block, and `down_grade` of *b*, which looks at the pages directly
  above, sees *a* clean and writes *b* before *c*.  Without that release TLC finds no
  counterexample with three pages (one worker; four changes and two requests without
  failed writes, or one request with them; no flush by the worker).
* Two processes that begin and end backups at the same time: the one that is master
  gives up the state lock in its AST without regard to its own readers, and
  `StateKnown` and `ReadsLatest` fail.  When they make them in turn, who merged one
  keeps `allocIsValid` set without a table, and relies on it in the merge of the
  next: `AllocComplete` fails, and `ReadsLatest` with it.
* The comment at `nbak.h:133-136` tells of an older merge.  In the code pages that are in
  the difference file are written there too while it is merged (`cch.cpp:4972`), and
  a read takes the page from the difference file without comparing versions; the
  model follows the code.
* A process other than the one that merges dies in `write_page` during the merge,
  between its write to the difference file and that to the main file
  (`cch.cpp:4972`).  The page in the difference file has the current SCN, so that the
  merge takes it for written and skips it (`nbak.cpp:541`), and when the mode becomes
  *normal* the main file still has the version before: `DiskCurrent` fails.  The
  run lets only the maker of the backup die: the merge then starts again, with
  a higher SCN.
* `beginSnapshot` loads its number (`tpc.cpp:953`) before its slot carries the
  attachment.  A collector that loads a later commit number and reads the slots in
  between does not find the snapshot, and drops the version it needs if the next one
  is committed.  `updateActiveSnapshots` reasons that "new snapshots will have numbers
  >= lastCommit and we don't GC them anyways" (`tpc.cpp:1042`), which holds only of
  those that load their number later.  `ScannedListSafe` says that these snapshots, in
  `caught`, are the only exceptions.
* A transaction that commits between the snapshot of another one and its search for
  active transactions is not seen by the snapshot and lies below the oldest snapshot
  all the same.  `GarbageSafeOnceStarted` says that this window, and transactions in
  limbo, are the only exceptions.
* A sweep visits the versions of dead transactions and then looks for the oldest one
  in limbo.  A transaction that was in limbo during the visit and is rolled back by an
  attachment that reconnects to it before the search is not found, and the oldest
  interesting transaction moves past it with its versions still there, which
  `TRA_snapshot_state` then takes for committed.  `TRA_sweep` says at this point
  "we know that no record versions belonging to dead transactions remain anymore"
  (`tra.cpp:1870`).  `OldestDecided` says that these, in `late`, are the only exceptions.
* `down_grade` reads the flag of a precedence block whose mutex it has released
  (`cch.cpp:3476`).  A worker may have freed the block and used it for other pages: the
  AST then leaves the page to a higher one that no longer blocks it, and nobody
  posts its lock again.  `NeverForgotten` leaves the pages in `misled` out.
* Two workers on one cache: `EarlyWrite`.

**Fairness** (`FairSpec` of `LockManager`).  A thread asleep in
`wait_for_request` wakes up whenever it has something to do: its `eventWait` has a
timeout.  A request waiting with a timeout is eventually rejected if it is not
granted.  AST routines return, and the blocking thread wakes up for its event.
A holder that has been told it is in the way (`LRQ_blocking_seen`: "the owner
promises to release the lock as soon as possible", `lock.cpp:2677`) and is not
itself waiting eventually releases; this is strong fairness, because other requests
of the owner may come in between.  An owner that waits does not go on asking
for locks without end.  Waiters of owners that never yield, and starvation by a stream
of conversions, are not claimed to end.

## 4. What is proved

Each theorem holds for every value of the constants allowed by the assumptions
named below, however many owners, processes, requests, attachments, transactions
or slots there are.

| Module | Theorems | Inductive invariant |
|---|---|---|
| `LockManagerProofs` | `LockTableInvariant`, `TypeCorrect`, `GrantedCompatibleAlways`, `LockCountsAgreeAlways` | `Now \in GoodTable` |
| `LockManagerServiceProofs` | `TableSound`, `ServiceImplemented` | `Now \in SoundTable` |
| the same | `QueueSoundAlways`, `FirstPendingBlockedAlways`, `ValidateLockAlways` | `QueueSound(Now)` |
| `LockSignalProofs` | `HandoverAlways`, `NoLostBlockAlways`, `SignalServedAlways`, `NoAstAfterPurgeAlways`, `ValidateOwnerAlways` | `Handover(Now)` |
| `TransactionsProofs` | `TransactionTypes`, `CacheFollowsPageAlways`, `EndFinalAlways`, `NotBuriedAliveAlways`, `SnapshotExactAlways` | `IInv` |
| `SnapshotListProofs` | `ListTypes`, `ListConsistentAlways`, `SnapshotKeptAlways`, `ScannedListSafeAlways` | `IInv` |
| `OldestTransactionsProofs` | `OldestTypes`, `GarbageSafeOnceStartedAlways`, `OldestDecidedAlways` | `IInv` |
| `PageCacheProofs` | `TypeCorrect`, `CleanOnDiskAlways`, `DirtyLockedAlways`, `AcyclicAlways` | `IInv` |
| `PhysicalBackupProofs` | `TypeCorrect`, `NeverForgetsToStepDown` | `Typed` |
| the same | `StateKnownToReaders` | `Typed`, `LocksOK` |
| the same | `FilesAreCurrent`, `ReadersGetLatest`, `ValidTableComplete`, `StateKnownToAll` | `Typed`, `LocksOK`, `ContentsOK(m)` |

**Assumptions.**  For the lock manager: `RequestsAssumption` (finitely many
requests), `ManagerAssumption` (types of the constants) and `CrashAssumption` (a
process that may die has one request for each lock).  For the others
`TransactionsAssumption`, `SnapshotListAssumption`, `OldestAssumption`, `CacheAssumption`
and `BackupAssumption`, which only say what kind of thing each constant is and which
names differ.  TLC evaluates all of them in every run.

Five theorems on physical backups have a hypothesis of their own, for they do not hold without
it (see the known limits in section 3).  `StateKnownToReaders` speaks of behaviours in
which no two processes are master of a backup at once.  The four on contents assume
`OneMaker(m)`: one process, `m`, makes all backups, and if a process dies it is `m`.  This is
a condition on the constants, and those of run `PhysicalBackup` satisfy it.

### The lock table

Mutual exclusion is not inductive as it stands.  A request is granted because it is
compatible with `lbl_state`, the highest level counted in `lbl_counts`: from
this it follows that it is compatible with every holder only if the counters
agree with the holders (`CountsAgree`), and the matrix has the property that what
is compatible with the highest level is compatible with the lower ones held
beside it (`HeldCompatible`; PR and SW never coexist).  The counters in turn are
kept right only if a request is queued once (`NoDuplicates`), and those
not queued hold nothing (`OnlyQueuedCount`).  These four are `BlockInv`.  That
routines are called on the right blocks needs `Linked`: a request is queued on
its lock exactly while it is in use, and pending only while a thread waits for
it.

The first part of `LockManagerProofs` shows for each operator of `LockBlock` that
it takes a consistent block to a consistent block; the lemma for `post_pending`
argues over the whole set of requests granted by one walk, since each is compatible
with the state the ones before it leave.  The second part lifts this to tables
(`GoodTable`), routine by routine along the calls, and then to the actions.
Subsequences are taken by `EntriesAt`, from the set of their positions, and not
by the recursive `SelectSeq`, so that nothing needs induction over data.

### The service

`Advance(B, C, A)` says what a routine may do to a lock block on behalf of the
requests in `A`: everybody else keeps its place and at most gets what it wants,
after all before it in line.  It holds of every operator of `LockBlock`, and of
two one after the other if it holds of each, hence of whole routines with all the
calls they make.  A step is sound (`SoundStep`) when it advances every lock on
behalf of one actor and of the dead, and moves the actor as the service allows;
`ServiceStep` shows that a sound step is a step of the service, and there is one
lemma for each action that shows it sound.  For this the table has to be a
`SoundTable`: who waits asks for something and is not rejected, who is in use and
does not wait holds a level, and no request outlives the registration of its
owner.

### Signals

`Handover` says who is responsible at each moment.  A thread that runs ASTs does so
for a registered owner of its process (`AstsInPlace`); a list of owners to be
signalled is held by a thread in `post_blockage` (`ListsInPlace`); the blocking
queues hold exactly the requests marked blocking, once each (`QueueExact`); and for
every owner whose process lives, a mark `OWN_signaled` has somebody behind it who is
going to run the queue (`Served`), and a queue that is not empty has the mark, or is
in somebody's list (`Announced`).  The last two support each other: `signal_owner`
trusts the mark and goes away, and `blocking_action` clears the mark before it looks
at the queue.  Owners of dead processes are excepted, for nobody will run their ASTs;
what holds again when such an owner is purged is that no queue, list or thread names
it any more, which is `NoAstAfterPurge`.

### Queues

The first pending request of a lock cannot be granted, except for a moment that has
to be described exactly: a rejected request is still in the queue, its thread has not
woken up, and it will call `post_pending` itself when it does.  `HeadBlocked` says
that the first pending request is blocked, or stands behind a rejected one whose thread
is asleep and that still clashes with the holders.  `post_pending` establishes this
for its lock whatever the queue looked like before (`PostPendingHead`); routines that
do not end in it must not make room: ASTs only set flags, a new waiter is last or
blocked, a conversion refused at once changes nothing the head is compared with, and
a rejection leaves a witness.

### Transactions and snapshots

In `Transactions` a process decides after it has read cache, lock and page one after
the other, without a mutex over all three.  The invariant says for each step
what the process may still rely on: that the page is locked (`LatchOK`); that the
cache already says what is about to be written (`WordOK`); that a lock once seen
released is not taken again for the same number (`PastOK`), since numbers are not
used twice; that a transaction neither prepared nor ending is active in both places
(`AliveOK`).  `CacheFollowsPage` then follows from the word written first, and
`EndFinal` since the word of a transaction that has ended can only be followed by
the same state.  `SnapshotExact` needs in addition that whoever has drawn a commit
number at or below a snapshot's, and has not stored it, is in `committing`
(`SnapshotOK`).

In `SnapshotList` the invariant says where each attachment stands in its sequence of
stores: whose slot it works on (`Taken`, `Owned`, `Freed`), what a collector has
found out about the slot it looks at (`Scanning`), and, for the collector that holds
no mutex, that a snapshot below its last commit, unless it is `caught`, was in its
slot when it began, keeps the slot, lies below the point where it will stop, and is in
its copy once that slot has been passed (`Needed`, `Copied`).  A snapshot that loads its
number later is not below that commit, since commit numbers only grow.  This is true although the used part of the list shrinks meanwhile, since it
never shrinks past a slot in use.

In `OldestTransactions` every process has counters of its own, of any age, merges
them into the header page and takes them from there.  The invariant therefore speaks
of all counters anybody remembers, in three sets: an oldest active transaction, and an
oldest snapshot, has nothing running below it (`Floor`); an oldest interesting one has
only committed or swept ones below it (`Settles`); and whatever is below an oldest
snapshot is seen by every snapshot in use, or is in its `missed` (`Safe`).  Each of
these stays true of a number once it is true, since ends are final and locks are
only taken for new numbers (`Progress`), so that it does not matter how long a counter
is kept, or that it goes back when a process dies.  What is left to show of a step is
that a counter it computes is good: a search finds the first transaction in a state
(`Found`), and the least lock data is below what holds back each snapshot, since the
lock of a snapshot carries a number it is safe from.  `StepKeeps` has this argument
once for all actions.

### Page cache

`Above(p)` is the least set of pages closed under the edges of the precedence
graph, so no induction is needed: to show that a page is not above another one it
is enough to show a closed set without it.  Steps that take blocks away leave the
old sets closed (`AcyclicKept`).  `check_precedence` adds a block only after its
second search has shown that `low` is not above `high`, or when nobody has `low`
above it; then the pages above `high`, joined to those above a page that reaches
`low`, are closed and do not contain that page (`NoCycle`).

`CleanOnDisk` and `DirtyLocked` are about buffers, and their invariant is about
threads.  `down_grade` calls itself for higher and lower pages, so that its thread
has a stack of activations.  `FramesOK` says that an activation past its first
decision owns the latch of its page, that no two own the same one, and that one
that found its page latched by a worker (`justWrite`) works on a page that has been
modified (`Touched`).  `Holds` says that a worker has the page in its window
latched, and that until it marks the page its lock is held.  Then a page marked
dirty is latched by the worker that marks it, so that no activation that may give
its lock up stands between the write of the page and the end.  The other way to lose a
lock over changes is a write that fails; a page found dirty has changes of its own,
so that the loss is on record in `lost`.  The proof corrected that record: it is the
last version ever given up, a maximum, and the model had replaced it by an
older one when a page was read again and given up a second time, which no run
within the bounds did.

### Physical backup

The invariant has three layers, each proved with the help of those before.

`Typed` has, besides the types, the shape of every thread and manager: which program
counters have a page, and its contents; a held allocation lock has a table.
`SeenTo` is there, too: a holder told to step down has an AST under way, or the flag
`stateBlocking` set, or a writer of its own that will be asked.  This is inductive
without anything about contents, for any number of processes that make backups and die.
That the flag has a reader takes `AllAttended` in addition: a process that neither makes
backups nor recovers is never master (`Attended`), its thread is only at the stages in
`Plain`, and once its AST is over, the flag set means a local reader, or an
`unlockStateRead` that has given the local lock back and not looked at the flag yet.
Every step that takes a reader away either puts the process among those that unlock
or leaves a dirty page behind; only `unlockStateRead` itself, which clears the flag, and
the AST, which clears it unless it finds a reader, end that.  The two together give
`StepsDown`.

`LocksOK` is about the state lock.  Requests in the queue are waiting and hold
nothing, none is there twice, and a writer excludes everybody (`Compatible`).  What
a process asks for follows from where its thread is, and it knows mode and SCN
just as long as it holds the lock and asks for nothing (`LockOK`); then both are those
of the header page, since only a writer changes them and the others have nothing then.
Threads that read, and dirty pages, keep the lock from being let go.  Only the AST of
a process that is master does not look at them.  It must not be asked by another
one's write request, which is what `OneMaster` is for.

`ContentsOK(m)` ties tables, buffers and files together.
* *Tables* (`TableFor`).  A process may have slept through whole backups.  What it
  remembers counts only if it is `Fresh`: `actualizeState` would keep it, because the mode is
  not *normal* and the SCN is at most one ahead.  Then it is part of the table on
  disk, and all of it if its lock is held, or if it says it is valid in a merge.
  That a stale table is never fresh again is the heart of it: each of the three
  changes of the mode increments the SCN, so that a table of an earlier backup is at least
  two behind.
* *Dirty pages* (`DirtyOK`) have the current SCN and are dirty in one process; they
  are marked for the difference file if and only if the table has them.  This holds since
  the mode does not change while anybody has a dirty page: whoever has the state lock
  for writing has flushed, and the others have no lock.
* *Fetched pages* (`FetchedOK`) belong to one process and have the last version.
* *The merge* (`MergeOK`).  A page of the difference file with the current SCN is in
  the main file, for it was written in this merge, and to both.  The pages the loop
  has passed are in the main file, or dirty; after its last flush all are, and the change
  to *normal*, which makes the main file the only one, loses nothing.  If the
  maker dies the merge starts again from the table, which is still complete.

### What is only model-checked

* `WaitsEnd`: liveness under fairness, and `ENABLED`, are out of the prover's reach.
* `DeadlockWillBeScanned` holds only if an owner waits for one request at a time
  (see the bounds above), and speaks of paths of any length in the waits-for graph.
* What `Walk` finds in `deadlock_walk`, and the queues of `SharedQueue` as
  sequences, would need induction over data.
* `CarefulWrite` is no theorem: it fails with two workers (`EarlyWrite`) and, with
  three pages, after an error in one (known limits in section 3).
* `NeverForgotten` speaks of threads still to come, and is not done.
* Of the real lock manager under `PhysicalBackup`: that it grants in order and asks
  each holder once is part of that model.

## 5. Not modelled

Below the level of the models: memory layout and remapping of shared memory,
allocation, file input and output, encryption and formatting.  Sequential or
without shared state: SQL compilation and execution, sorting, record compression,
client library, utilities, character sets.  Within reach, and not done: see the plan
and the notes in `PROJECT.json`.

## 6. Plan

1. Done: the lock manager with its service, invariants proved; `SharedQueue`;
   `Transactions`, `SnapshotList`, `OldestTransactions`; `PageCache`;
   `PhysicalBackup`.
2. Done: every invariant of `Transactions`, `SnapshotList`, `OldestTransactions`
   and `PhysicalBackup`, the refinement of the lock service, every safety
   property of the lock manager but `DeadlockWillBeScanned`, and four of the six
   of the page cache, proved.
3. Proof of `CarefulWrite` for one worker that marks every page it has given a
   precedence.  Page cache: replacement of buffers and fetches for read.
4. Engine locks: `lck.cpp` on top of `LockService` (the level a failed
   `downgrade` returns belongs here).
5. Record versions over `Transactions`: visibility, update conflicts, backout.
6. A crash inside `release_request`, between its queue operations and the
   counters: `LockBlock` over the atomic queues of `SharedQueue`.
