------------------------- MODULE OldestTransactions -------------------------
(***************************************************************************)
(* The oldest interesting, oldest active and oldest snapshot transaction:  *)
(* how transaction_start derives them (tra.cpp) from the header page, the  *)
(* TIP cache and the data of transaction locks, and what the garbage       *)
(* collector and sweep take from them (vio.cpp, TRA_sweep).                *)
(*                                                                         *)
(* Every attachment is a process with its own Database block, as in        *)
(* Classic.  How a state gets into the cache is the subject of module      *)
(* Transactions; here it is one step.                                      *)
(***************************************************************************)
EXTENDS Integers, FiniteSets

CONSTANTS
    Attachments,         \* attachments, each in its own process
    Kinds,               \* Kinds[a]: the transactions a starts
    Ends,                \* Ends[a]: how they end
    MaxTransactions,     \* bound: transactions started
    TRA_ACTIVE_CLEANUP   \* every so many transactions look for dead ones

KindNames == {"snapshot", "read_committed", "sweep"}
EndNames == {"commit", "rollback", "prepare", "reconnect", "crash"}

ASSUME OldestAssumption ==
    /\ Kinds \in [Attachments -> SUBSET KindNames]
    /\ Ends \in [Attachments -> SUBSET EndNames]
    /\ MaxTransactions \in Nat
    /\ TRA_ACTIVE_CLEANUP \in Nat \ {0}

Numbers == 0 .. MaxTransactions + 1
Transactions == 1 .. MaxTransactions

VARIABLES
    hdr,                   \* counters of the header page
    state,                 \* state of each transaction in the TIP cache
    cn,                    \* commit number of each committed transaction
    latest_commit_number,
    lock_data,             \* data of each transaction's lock, 0 if there is none
    dbb,                   \* counters of each attachment's Database block
    tra,                   \* the transaction of each attachment
    swept,                 \* dead transactions with no record version left
    missed,                \* history: transactions the snapshot of an attachment
                           \* does not see though its search for active ones did
                           \* not meet them: they were in limbo, or committed between
                           \* the snapshot and the search
    late                   \* history: transactions in limbo that were rolled back
                           \* while a sweep, having visited their versions, had not
                           \* looked for the ones in limbo

history == <<missed, late>>
vars == <<hdr, state, cn, latest_commit_number, lock_data, dbb, tra, swept, history>>

Counters == [oldest_transaction : Numbers, oldest_active : Numbers, oldest_snapshot : Numbers]

Header == [next_transaction : Numbers, oldest_transaction : Numbers,
           oldest_active : Numbers, oldest_snapshot : Numbers]

Steps == {"idle", "begin", "active", "write", "query", "oldest", "precommit",
          "ready", "prepared", "sweep", "limbo", "advance", "release"}

Transaction ==
    [pc : Steps,
     kind : KindNames \union {"none"},
     number : Numbers,
     tra_oldest : Numbers,
     active : Numbers,            \* where the search for active ones has got to;
                                  \* the oldest one in limbo for a sweep
     oldest_active : Numbers,     \* the local variable of transaction_start
     tra_oldest_active : Numbers, \* the oldest snapshot, as this transaction sees it
     snapshot : Numbers,
     cleanup : BOOLEAN]

NoTransaction ==
    [pc |-> "idle", kind |-> "none", number |-> 0, tra_oldest |-> 0, active |-> 0,
     oldest_active |-> 0, tra_oldest_active |-> 0, snapshot |-> 0, cleanup |-> FALSE]

Larger(m, n) == IF m > n THEN m ELSE n
Smaller(m, n) == IF m < n THEN m ELSE n

\* The first transaction from m up to, not including, n that is in one of the
\* states, else n.  (TipCache::findStates; states other than active and limbo
\* are final, so that one look at all words finds what looking at one after the
\* other does.)
findStates(m, n, states) ==
    LET found == {t \in m .. n - 1 : t \in Transactions /\ state[t] \in states}
    IN  IF found = {} THEN n ELSE CHOOSE t \in found : \A u \in found : t <= u

Init ==
    /\ hdr = [next_transaction |-> 0, oldest_transaction |-> 1,
              oldest_active |-> 0, oldest_snapshot |-> 0]
    /\ state = [t \in Transactions |-> "active"]
    /\ cn = [t \in Transactions |-> 0]
    /\ latest_commit_number = 1
    /\ lock_data = [t \in Transactions |-> 0]
    /\ dbb = [a \in Attachments |-> [oldest_transaction |-> 1, oldest_active |-> 0,
                                     oldest_snapshot |-> 0]]
    /\ tra = [a \in Attachments |-> NoTransaction]
    /\ swept = {}
    /\ missed = [a \in Attachments |-> {}]
    /\ late = {}

At(a, s) == tra[a].pc = s

-----------------------------------------------------------------------------
(* transaction_start, from one shared access to the next.                  *)

\* bump_transaction_id: the header page gets the next number and whatever this
\* process knows better.
bump_transaction_id(a) ==
    [next_transaction |-> hdr.next_transaction + 1,
     oldest_transaction |-> Larger(hdr.oldest_transaction, dbb[a].oldest_transaction),
     oldest_active |-> Larger(hdr.oldest_active, dbb[a].oldest_active),
     oldest_snapshot |-> Larger(hdr.oldest_snapshot, dbb[a].oldest_snapshot)]

\* Mutant: every lock carries the number of its transaction.
LockData_number(k, number, active) == number

\* The data of the lock of a new transaction of kind k.
LockData(k, number, active) == IF k = "snapshot" THEN active ELSE number

\* The number is taken and the lock with it while the header page is locked.
transaction_start(a) ==
    /\ At(a, "idle")
    /\ hdr.next_transaction < MaxTransactions
    /\ \E k \in Kinds[a] :
       LET h == bump_transaction_id(a)
           n == h.next_transaction
           active == Larger(h.oldest_active, h.oldest_transaction)
       IN  /\ hdr' = h
           /\ lock_data' = [lock_data EXCEPT ![n] = LockData(k, n, active)]
           /\ tra' = [tra EXCEPT ![a] =
                        [NoTransaction EXCEPT
                           !.pc = IF k = "snapshot" THEN "begin" ELSE "active",
                           !.kind = k, !.number = n, !.active = active,
                           !.tra_oldest = h.oldest_transaction,
                           !.cleanup = (n % TRA_ACTIVE_CLEANUP = 0)]]
    /\ UNCHANGED <<state, cn, latest_commit_number, dbb, swept, history>>

beginSnapshot(a) ==
    /\ At(a, "begin")
    /\ tra' = [tra EXCEPT ![a].pc = "active", ![a].snapshot = latest_commit_number]
    /\ missed' = [missed EXCEPT ![a] = {t \in Transactions : state[t] = "limbo"}]
    /\ UNCHANGED <<hdr, state, cn, latest_commit_number, lock_data, dbb, swept, late>>

\* Transaction t committed, but not for the snapshot of a.
Hidden(t, a) == state[t] = "committed" /\ cn[t] > tra[a].snapshot

\* The search for the oldest active transaction.  One that has no lock is dead:
\* a transaction whose turn it is to clean up has it marked (TRA_wait) and goes
\* on with the next.
FindActive(a) ==
    LET n == tra[a].number
        t == findStates(tra[a].active, n, {"active"})
    IN  /\ At(a, "active")
        /\ IF t < n /\ lock_data[t] = 0 /\ tra[a].cleanup
           THEN /\ state' = [state EXCEPT ![t] = "dead"]
                /\ tra' = [tra EXCEPT ![a].active = t + 1]
                /\ UNCHANGED missed
           ELSE /\ tra' = [tra EXCEPT ![a].pc = "write", ![a].active = 0,
                                      ![a].oldest_active = Smaller(t, n)]
                /\ missed' = [missed EXCEPT ![a] = @ \union
                                {u \in 1 .. n - 1 : state[u] = "limbo" \/ Hidden(u, a)}]
                /\ UNCHANGED state
        /\ UNCHANGED <<hdr, cn, latest_commit_number, lock_data, dbb, swept, late>>

LCK_write_data(a) ==
    /\ At(a, "write")
    /\ lock_data' = [lock_data EXCEPT ![tra[a].number] =
                       LockData(tra[a].kind, tra[a].number, tra[a].oldest_active)]
    /\ tra' = [tra EXCEPT ![a].pc = "query"]
    /\ UNCHANGED <<hdr, state, cn, latest_commit_number, dbb, swept, history>>

\* The smallest data of a transaction lock (LockManager::queryData).
LCK_MIN ==
    LET data == {lock_data[t] : t \in Transactions} \ {0}
    IN  CHOOSE d \in data : \A e \in data : d <= e

\* That is the oldest snapshot.
LCK_query_data(a) ==
    /\ At(a, "query")
    /\ tra' = [tra EXCEPT ![a].pc = "oldest",
                          ![a].tra_oldest_active = Smaller(tra[a].number, LCK_MIN)]
    /\ UNCHANGED <<hdr, state, cn, latest_commit_number, lock_data, dbb, swept, history>>

\* Mutant: nothing is left of the dead.
FindOldest_alive(a) ==
    LET r == tra[a]
        oldest == findStates(r.tra_oldest, r.number, {"active", "limbo"}) - 1
    IN  /\ At(a, "oldest")
        /\ dbb' = [dbb EXCEPT ![a] =
                     [oldest_transaction |-> Larger(@.oldest_transaction, oldest),
                      oldest_active |-> Larger(@.oldest_active, r.oldest_active),
                      oldest_snapshot |-> Larger(@.oldest_snapshot, r.tra_oldest_active)]]
        /\ tra' = [tra EXCEPT ![a].pc = IF r.kind = "sweep" THEN "precommit" ELSE "ready"]
        /\ UNCHANGED <<hdr, state, cn, latest_commit_number, lock_data, swept, history>>

\* The search for the oldest interesting transaction; the counters of the
\* Database block move forward.
FindOldest(a) ==
    LET r == tra[a]
        oldest == findStates(r.tra_oldest, r.number, {"active", "limbo", "dead"}) - 1
    IN  /\ At(a, "oldest")
        /\ dbb' = [dbb EXCEPT ![a] =
                     [oldest_transaction |-> Larger(@.oldest_transaction, oldest),
                      oldest_active |-> Larger(@.oldest_active, r.oldest_active),
                      oldest_snapshot |-> Larger(@.oldest_snapshot, r.tra_oldest_active)]]
        /\ tra' = [tra EXCEPT ![a].pc = IF r.kind = "sweep" THEN "precommit" ELSE "ready"]
        /\ UNCHANGED <<hdr, state, cn, latest_commit_number, lock_data, swept, history>>

\* Mutant: two numbers are drawn.
CommitAs_twice(t) ==
    /\ state' = [state EXCEPT ![t] = "committed"]
    /\ cn' = [cn EXCEPT ![t] = latest_commit_number + 1]
    /\ latest_commit_number' = latest_commit_number + 2

\* t gets the next commit number.
CommitAs(t) ==
    /\ state' = [state EXCEPT ![t] = "committed"]
    /\ cn' = [cn EXCEPT ![t] = latest_commit_number + 1]
    /\ latest_commit_number' = latest_commit_number + 1

\* A transaction that only reads, read committed, is committed at once and its
\* lock holds back nobody.
Precommit(a) ==
    /\ At(a, "precommit")
    /\ CommitAs(tra[a].number)
    /\ lock_data' = [lock_data EXCEPT ![tra[a].number] = 0]
    /\ tra' = [tra EXCEPT ![a].pc = "sweep"]
    /\ UNCHANGED <<hdr, dbb, swept, history>>

-----------------------------------------------------------------------------
(* The end of a transaction: its state, then its lock.                     *)

\* The transaction of a can still be decided: it is running, or prepared and
\* nobody has reconnected to it.
Undecided(a) ==
    \/ At(a, "ready")
    \/ At(a, "prepared") /\ state[tra[a].number] = "limbo"

TRA_commit(a) ==
    /\ Undecided(a) /\ "commit" \in Ends[a]
    /\ CommitAs(tra[a].number)
    /\ tra' = [tra EXCEPT ![a].pc = "release"]
    /\ UNCHANGED <<hdr, lock_data, dbb, swept, history>>

\* A rollback that leaves record versions behind.
TRA_rollback(a) ==
    /\ Undecided(a) /\ "rollback" \in Ends[a]
    /\ state' = [state EXCEPT ![tra[a].number] = "dead"]
    /\ tra' = [tra EXCEPT ![a].pc = "release"]
    /\ UNCHANGED <<hdr, cn, latest_commit_number, lock_data, dbb, swept, history>>

TRA_prepare(a) ==
    /\ At(a, "ready") /\ "prepare" \in Ends[a]
    /\ state' = [state EXCEPT ![tra[a].number] = "limbo"]
    /\ tra' = [tra EXCEPT ![a].pc = "prepared"]
    /\ UNCHANGED <<hdr, cn, latest_commit_number, lock_data, dbb, swept, history>>

\* The attachment goes and leaves its prepared transaction in limbo.
purgeTransactions(a) ==
    /\ At(a, "prepared")
    /\ tra' = [tra EXCEPT ![a].pc = "release"]
    /\ UNCHANGED <<hdr, state, cn, latest_commit_number, lock_data, dbb, swept, history>>

\* An attachment reconnects to a transaction in limbo and commits it, or rolls it
\* back: it has no undo log, and leaves the versions behind.
TRA_reconnect(a) ==
    /\ At(a, "idle") /\ "reconnect" \in Ends[a]
    /\ \E t \in Transactions :
       /\ state[t] = "limbo"
       /\ \/ CommitAs(t) /\ UNCHANGED late
          \/ /\ state' = [state EXCEPT ![t] = "dead"]
             /\ late' = IF \E b \in Attachments : At(b, "limbo") THEN late \union {t} ELSE late
             /\ UNCHANGED <<cn, latest_commit_number>>
    /\ UNCHANGED <<hdr, lock_data, dbb, tra, swept, missed>>

TRA_release_transaction(a) ==
    /\ At(a, "release")
    /\ lock_data' = [lock_data EXCEPT ![tra[a].number] = 0]
    /\ tra' = [tra EXCEPT ![a] = NoTransaction]
    /\ missed' = [missed EXCEPT ![a] = {}]
    /\ UNCHANGED <<hdr, state, cn, latest_commit_number, dbb, swept, late>>

\* The process dies and its locks with it; another one attaches and reads the
\* counters from the header page.
Crash(a) ==
    /\ "crash" \in Ends[a]
    /\ ~At(a, "idle")
    /\ lock_data' = [lock_data EXCEPT ![tra[a].number] = 0]
    /\ tra' = [tra EXCEPT ![a] = NoTransaction]
    /\ missed' = [missed EXCEPT ![a] = {}]
    /\ dbb' = [dbb EXCEPT ![a] = [oldest_transaction |-> hdr.oldest_transaction,
                                  oldest_active |-> hdr.oldest_active,
                                  oldest_snapshot |-> hdr.oldest_snapshot]]
    /\ UNCHANGED <<hdr, state, cn, latest_commit_number, swept, late>>

\* When a process leaves the database what it knows better goes to the header
\* page.
TRA_update_counters(a) ==
    /\ At(a, "idle")
    /\ hdr' = [hdr EXCEPT
                 !.oldest_transaction = Larger(@, dbb[a].oldest_transaction),
                 !.oldest_active = Larger(@, dbb[a].oldest_active),
                 !.oldest_snapshot = Larger(@, dbb[a].oldest_snapshot)]
    /\ UNCHANGED <<state, cn, latest_commit_number, lock_data, dbb, tra, swept, history>>

-----------------------------------------------------------------------------
(* Sweep.                                                                  *)

\* VIO_sweep visits every record: what dead transactions left is backed out,
\* transactions found without a lock included.  The step is the beginning of the
\* visit: what dies later may be left behind.
VIO_sweep(a) ==
    LET gone == {t \in 1 .. hdr.next_transaction :
                   \/ state[t] = "dead"
                   \/ state[t] = "active" /\ lock_data[t] = 0}
    IN  /\ At(a, "sweep")
        /\ state' = [t \in Transactions |-> IF t \in gone THEN "dead" ELSE state[t]]
        /\ swept' = swept \union gone
        /\ tra' = [tra EXCEPT ![a].pc = "limbo"]
        /\ UNCHANGED <<hdr, cn, latest_commit_number, lock_data, dbb, history>>

\* The search for the oldest transaction in limbo.  Page buffers are flushed
\* after it, and a transaction may be prepared meanwhile.
FindLimbo(a) ==
    LET top == tra[a].number
        limbo == findStates(tra[a].tra_oldest, top - 1, {"limbo"})
    IN  /\ At(a, "limbo")
        /\ tra' = [tra EXCEPT ![a].pc = "advance",
                              ![a].active = IF limbo < top - 1 THEN limbo ELSE top]
        /\ UNCHANGED <<hdr, state, cn, latest_commit_number, lock_data, dbb, swept, history>>

\* The oldest interesting transaction moves up to the oldest one in limbo, or
\* to the oldest snapshot there was when the sweep began.
AdvanceOldest(a) ==
    LET oldest == tra[a].tra_oldest_active - 1
    IN  /\ At(a, "advance")
        /\ hdr' = [hdr EXCEPT !.oldest_transaction =
                     IF @ < oldest THEN Smaller(tra[a].active, oldest) ELSE @]
        /\ tra' = [tra EXCEPT ![a].pc = "release", ![a].active = 0]
        /\ UNCHANGED <<state, cn, latest_commit_number, lock_data, dbb, swept, history>>

Next ==
    \E a \in Attachments :
        \/ transaction_start(a) \/ beginSnapshot(a) \/ FindActive(a)
        \/ LCK_write_data(a) \/ LCK_query_data(a) \/ FindOldest(a) \/ Precommit(a)
        \/ TRA_commit(a) \/ TRA_rollback(a) \/ TRA_prepare(a)
        \/ purgeTransactions(a) \/ TRA_reconnect(a)
        \/ TRA_release_transaction(a) \/ Crash(a) \/ TRA_update_counters(a)
        \/ VIO_sweep(a) \/ FindLimbo(a) \/ AdvanceOldest(a)

Spec == Init /\ [][Next]_vars

-----------------------------------------------------------------------------
(* What must hold.                                                         *)

\* The type of the state.
TypeOK ==
    /\ hdr \in Header
    /\ state \in [Transactions -> {"active", "limbo", "dead", "committed"}]
    /\ cn \in [Transactions -> Numbers]
    /\ latest_commit_number \in 1 .. MaxTransactions + 1
    /\ lock_data \in [Transactions -> Numbers]
    /\ dbb \in [Attachments -> Counters]
    /\ tra \in [Attachments -> Transaction]
    /\ swept \subseteq Transactions
    /\ missed \in [Attachments -> SUBSET Transactions]
    /\ late \subseteq Transactions

\* The attachments whose snapshot is in use.
Reading == {a \in Attachments : tra[a].snapshot # 0}

\* The numbers below which a committed record version makes the older ones
\* garbage: the oldest snapshot of every Database block (garbage collector
\* threads, sweeps) and of every other transaction.
Thresholds(a) ==
    {dbb[b].oldest_snapshot : b \in Attachments}
        \union {tra[b].tra_oldest_active : b \in Attachments \ {a}}

\* Whoever collects garbage, no snapshot loses the version it reads: below the
\* oldest snapshot every committed transaction is visible to every snapshot
\* (tra.h of tra_oldest_active: record versions older than this can be
\* garbage-collected), with counters of the header page and of other processes
\* out of date, crashes, sweeps and reconnects. It does not hold of transactions
\* that are in limbo during the snapshot or the search for active transactions,
\* or commit between the two.
GarbageSafeOnceStarted ==
    \A a \in Reading : \A x \in Thresholds(a) : \A t \in Transactions \ missed[a] :
        t < x => ~Hidden(t, a)

\* A transaction takes every transaction below its tra_oldest for committed
\* without asking (TRA_snapshot_state): it committed before the snapshot, or it
\* is dead and no version of it is left. It does not hold of transactions in late.
Settled(t) == state[t] = "committed" \/ t \in swept \union late

OldestDecided ==
    /\ \A t \in 1 .. hdr.oldest_transaction - 1 : Settled(t)
    /\ \A a \in Reading : \A t \in 1 .. tra[a].tra_oldest - 1 : Settled(t) /\ ~Hidden(t, a)
=============================================================================
