---------------------------- MODULE Transactions ----------------------------
(***************************************************************************)
(* The life of a transaction across processes: the transaction inventory   *)
(* page (TIP), the TIP cache all processes share, the transaction's lock,  *)
(* and the snapshots readers take (tra.cpp, tpc.cpp).                      *)
(*                                                                         *)
(* Every attachment is a process of its own, as in the Classic             *)
(* architecture, and a process may die between any two steps.  The steps   *)
(* of an attachment are the accesses to shared data: the TIP page under    *)
(* its page lock, a word of the cache, the lock table.                     *)
(***************************************************************************)
EXTENDS Integers, FiniteSets

CONSTANTS
    Attachments,      \* attachments, each in its own process
    NONE,             \* no attachment
    MaxTransactions,  \* bound: transactions started
    CN_MAX_NUMBER,    \* bound: the largest commit number
    Operations        \* Operations[a]: what the client of a asks for

OperationNames ==
    {"commit", "rollback", "prepare", "detach", "reconnect", "read", "wait", "crash"}

ASSUME TransactionsAssumption ==
    /\ NONE \notin Attachments
    /\ MaxTransactions \in Nat
    /\ CN_MAX_NUMBER \in Nat \ {0}
    /\ Operations \in [Attachments -> SUBSET OperationNames]

Transactions == 1 .. MaxTransactions

\* The numbers the cache keeps for a transaction: a commit number, or one of
\* three values no commit number has.
CN_ACTIVE == 0
CN_PREHISTORIC == 1
CN_DEAD == CN_MAX_NUMBER + 1
CN_LIMBO == CN_MAX_NUMBER + 2

Committed(cn) == cn \in CN_PREHISTORIC .. CN_MAX_NUMBER
CacheWord == CN_ACTIVE .. CN_LIMBO

TipState == {"active", "limbo", "dead", "committed"}

VARIABLES
    tip,                   \* state of each transaction on the inventory page
    tip_latch,             \* the process with the page locked for writing
    tpc,                   \* the shared cache: a CacheWord per transaction
    latest_commit_number,
    next_transaction,      \* hdr_next_transaction of the header page
    lock_owner,            \* holder of the transaction's LCK_tra lock
    lock_data,             \* the lock block still carries its holder's data
    att,                   \* what each attachment is doing
    dead,                  \* processes that died and were not yet purged
    before, committing,    \* history: transactions in the cache as committed,
                           \* or with a number not stored, when a reader began
    answers                \* history: what a snapshot was told

shared == <<tip, tip_latch, tpc, latest_commit_number, next_transaction>>
locks == <<lock_owner, lock_data>>
history == <<before, committing, answers>>
vars == <<shared, locks, att, dead, history>>

Steps ==
    {"idle", "starting", "ready", "latch", "set", "store", "write", "release",
     "wait", "cache", "lock_data", "fetch", "cached", "tweak", "bugcheck"}

Attachment ==
    [pc : Steps,
     tra_number : Transactions \union {0},
     tra_flags : SUBSET {"prepared", "reconnected"},
     tra_snapshot_number : CacheWord,
     number : Transactions \union {0},    \* the transaction looked at or changed,
     state : TipState,                    \* the state it gets,
     cn : CacheWord,                      \* the commit number drawn for it,
     caller : {"none", "own", "read", "wait"}]  \* and on whose behalf

Idle ==
    [pc |-> "idle", tra_number |-> 0, tra_flags |-> {},
     tra_snapshot_number |-> CN_ACTIVE, number |-> 0, state |-> "active",
     cn |-> CN_ACTIVE, caller |-> "none"]

Ready(r) ==
    [r EXCEPT !.pc = "ready", !.number = 0, !.state = "active",
              !.cn = CN_ACTIVE, !.caller = "none"]

\* Attachment a is alive, at step s.
At(a, s) == a \notin dead /\ att[a].pc = s
Goto(a, s) == att' = [att EXCEPT ![a].pc = s]

\* Attachments with a request for the lock of t, pending or granted: they are
\* granted as soon as no holder conflicts.
Waiters(t) == {a \in Attachments : att[a].pc = "wait" /\ att[a].number = t}

Init ==
    /\ tip = [t \in Transactions |-> "active"]
    /\ tip_latch = NONE
    /\ tpc = [t \in Transactions |-> CN_ACTIVE]
    /\ latest_commit_number = CN_PREHISTORIC
    /\ next_transaction = 0
    /\ lock_owner = [t \in Transactions |-> NONE]
    /\ lock_data = [t \in Transactions |-> FALSE]
    /\ att = [a \in Attachments |-> Idle]
    /\ dead = {}
    /\ before = [a \in Attachments |-> {}]
    /\ committing = [a \in Attachments |-> {}]
    /\ answers = [a \in Attachments |-> {}]

-----------------------------------------------------------------------------
(* Starting and ending a transaction.                                      *)

\* The number is taken from the header page, and the transaction's lock with
\* it, while the header page is locked for writing.
transaction_start(a) ==
    /\ At(a, "idle")
    /\ next_transaction < MaxTransactions
    /\ LET number == next_transaction + 1 IN
       /\ next_transaction' = number
       /\ lock_owner' = [lock_owner EXCEPT ![number] = a]
       /\ lock_data' = [lock_data EXCEPT ![number] = TRUE]
       /\ att' = [att EXCEPT ![a].pc = "starting", ![a].tra_number = number]
    /\ UNCHANGED <<tip, tip_latch, tpc, latest_commit_number, dead, history>>

\* A snapshot is the latest commit number drawn.
beginSnapshot(a) ==
    /\ At(a, "starting")
    /\ att' = [att EXCEPT ![a].pc = "ready",
                          ![a].tra_snapshot_number = latest_commit_number]
    /\ IF "read" \in Operations[a]
       THEN /\ before' = [before EXCEPT ![a] = {t \in Transactions : Committed(tpc[t])}]
            /\ committing' = [committing EXCEPT ![a] =
                 {att[b].number : b \in {c \in Attachments : att[c].pc = "store"}}]
       ELSE UNCHANGED <<before, committing>>
    /\ UNCHANGED <<shared, locks, dead, answers>>

\* TRA_set_state is called for the attachment's own transaction.
EndAs(a, s, flags) ==
    /\ att' = [att EXCEPT ![a].pc = "latch", ![a].number = att[a].tra_number,
                          ![a].state = s, ![a].caller = "own",
                          ![a].tra_flags = @ \union flags]
    /\ UNCHANGED <<shared, locks, dead, history>>

TRA_commit(a) ==
    /\ At(a, "ready") /\ "commit" \in Operations[a]
    /\ EndAs(a, "committed", {})

\* A transaction whose changes could all be undone, or that made none, is
\* marked committed.
TRA_rollback(a) ==
    /\ At(a, "ready") /\ "rollback" \in Operations[a]
    /\ \/ EndAs(a, "dead", {})
       \/ "reconnected" \notin att[a].tra_flags /\ EndAs(a, "committed", {})

TRA_prepare(a) ==
    /\ At(a, "ready") /\ "prepare" \in Operations[a]
    /\ "prepared" \notin att[a].tra_flags
    /\ EndAs(a, "limbo", {"prepared"})

\* An attachment that ends leaves its prepared transaction in limbo.
DetachPrepared(a) ==
    /\ At(a, "ready") /\ "detach" \in Operations[a]
    /\ "prepared" \in att[a].tra_flags
    /\ Goto(a, "release")
    /\ UNCHANGED <<shared, locks, dead, history>>

TRA_reconnect(a) ==
    /\ At(a, "idle") /\ "reconnect" \in Operations[a]
    /\ tip_latch = NONE
    /\ \E t \in 1 .. next_transaction :
        /\ tip[t] = "limbo"
        /\ att' = [att EXCEPT ![a] = [Idle EXCEPT !.pc = "ready", !.tra_number = t,
                                        !.tra_flags = {"prepared", "reconnected"}]]
    /\ UNCHANGED <<shared, locks, dead, history>>

\* The lock goes, then the snapshot.  A reconnected transaction has neither.
TRA_release_transaction(a) ==
    LET t == att[a].tra_number IN
    /\ At(a, "release")
    /\ \/ /\ "reconnected" \in att[a].tra_flags
          /\ UNCHANGED locks
       \/ /\ "reconnected" \notin att[a].tra_flags
          /\ lock_owner' = [lock_owner EXCEPT ![t] = NONE]
          /\ lock_data' = [lock_data EXCEPT ![t] = Waiters(t) # {}]
    /\ att' = [att EXCEPT ![a] = Idle]
    /\ answers' = [answers EXCEPT ![a] = {}]
    /\ before' = [before EXCEPT ![a] = {}]
    /\ committing' = [committing EXCEPT ![a] = {}]
    /\ UNCHANGED <<shared, dead>>

-----------------------------------------------------------------------------
(* Changing a transaction's state: TRA_set_state and TipCache::setState.   *)

\* Mutant: setState lets a transaction that ended end again.
Refused_limbo_only(old, s) == s = "limbo" /\ old \notin {CN_LIMBO, CN_ACTIVE}

\* setState calls for a bugcheck.
Refused(old, s) ==
    \/ s = "committed" /\ old = CN_DEAD
    \/ s = "limbo" /\ old \notin {CN_LIMBO, CN_ACTIVE}
    \/ s = "dead" /\ old \notin {CN_DEAD, CN_LIMBO, CN_ACTIVE}

\* Mutant: the snapshot leaves out the commit it was taken at.
Seen_older(a, cn) ==
    IF Committed(cn) /\ cn < att[a].tra_snapshot_number THEN "visible" ELSE "invisible"

\* What the snapshot of a makes of a transaction with cn in the cache.
Seen(a, cn) ==
    IF Committed(cn) /\ cn <= att[a].tra_snapshot_number THEN "visible" ELSE "invisible"

Answer(a, cn) ==
    answers' = IF att[a].caller = "read"
               THEN [answers EXCEPT ![a] = @ \union {<<att[a].number, Seen(a, cn)>>}]
               ELSE answers

\* snapshotState returns cn.  A reader is done; TRA_wait returns a committed
\* state, declares an active transaction dead, and is about to store any other
\* state in the cache once more.
Return(a, cn) ==
    LET r == att[a] IN
    /\ att' = [att EXCEPT ![a] =
                 IF r.caller = "read" \/ Committed(cn) THEN Ready(r)
                 ELSE IF cn = CN_ACTIVE
                      THEN [r EXCEPT !.pc = "latch", !.state = "dead"]
                      ELSE [r EXCEPT !.pc = "tweak",
                                     !.state = IF cn = CN_DEAD THEN "dead" ELSE "limbo"]]
    /\ Answer(a, cn)

fetch_inventory_page(a) ==
    /\ At(a, "latch")
    /\ tip_latch = NONE
    /\ tip_latch' = a
    /\ Goto(a, "set")
    /\ UNCHANGED <<tip, tpc, latest_commit_number, next_transaction, locks, dead, history>>

\* A bugcheck shuts the process down: the page it changed is not written.
Bugcheck(a) ==
    /\ Goto(a, "bugcheck")
    /\ dead' = dead \union {a}
    /\ UNCHANGED <<tpc, latest_commit_number, answers>>

\* setState returns cn: to TRA_set_state, which has the page locked, to the
\* last line of TRA_wait, or to snapshotState.
StateSet(a, cn) ==
    /\ IF tip_latch = a THEN Goto(a, "write") /\ UNCHANGED answers
       ELSE IF att[a].pc = "tweak"
            THEN att' = [att EXCEPT ![a] = Ready(@)] /\ UNCHANGED answers
            ELSE Return(a, cn)
    /\ UNCHANGED dead

\* The three callers of setState.  A commit takes its number with one atomic
\* operation and stores it with another.
setState(a) ==
    LET t == att[a].number
        s == att[a].state
        word == IF s = "dead" THEN CN_DEAD ELSE CN_LIMBO
    IN  /\ \E pc \in {"set", "cached", "tweak"} : At(a, pc)
        /\ \/ Refused(tpc[t], s) /\ Bugcheck(a)
           \/ /\ s = "committed" /\ Committed(tpc[t])
              /\ StateSet(a, tpc[t])
              /\ UNCHANGED <<tpc, latest_commit_number>>
           \/ /\ s = "committed" /\ tpc[t] \in {CN_ACTIVE, CN_LIMBO}
              /\ latest_commit_number < CN_MAX_NUMBER
              /\ latest_commit_number' = latest_commit_number + 1
              /\ att' = [att EXCEPT ![a].pc = "store", ![a].cn = latest_commit_number + 1]
              /\ UNCHANGED <<tpc, dead, answers>>
           \/ /\ s # "committed" /\ ~Refused(tpc[t], s)
              /\ tpc' = [tpc EXCEPT ![t] = word]
              /\ StateSet(a, word)
              /\ UNCHANGED latest_commit_number
        /\ UNCHANGED <<tip, tip_latch, next_transaction, locks, before, committing>>

StoreCommitNumber(a) ==
    /\ At(a, "store")
    /\ tpc' = [tpc EXCEPT ![att[a].number] = att[a].cn]
    /\ StateSet(a, att[a].cn)
    /\ UNCHANGED <<tip, tip_latch, latest_commit_number, next_transaction, locks,
                   before, committing>>

\* CCH_RELEASE: the page is written, then unlocked, and TRA_set_state returns
\* to the transaction's end, to TRA_prepare, to TRA_wait or to snapshotState.
WritePage(a) ==
    LET r == att[a] IN
    /\ At(a, "write")
    /\ tip' = [tip EXCEPT ![r.number] = r.state]
    /\ tip_latch' = NONE
    /\ \/ /\ r.caller = "own" /\ r.state # "limbo"
          /\ Goto(a, "release") /\ UNCHANGED answers
       \/ /\ r.caller = "own" /\ r.state = "limbo"
          /\ att' = [att EXCEPT ![a] = Ready(@)] /\ UNCHANGED answers
       \/ /\ r.caller # "own"
          /\ Return(a, CN_DEAD)
    /\ UNCHANGED <<tpc, latest_commit_number, next_transaction, locks, dead,
                   before, committing>>

-----------------------------------------------------------------------------
(* Asking for a transaction's state: TRA_snapshot_state and TRA_wait.      *)

Ask(a, pc, caller) ==
    /\ At(a, "ready")
    /\ "reconnected" \notin att[a].tra_flags
    /\ \E t \in (1 .. next_transaction) \ {att[a].tra_number} :
        att' = [att EXCEPT ![a].pc = pc, ![a].number = t, ![a].caller = caller]
    /\ UNCHANGED <<shared, locks, dead, history>>

TRA_snapshot_state(a) == "read" \in Operations[a] /\ Ask(a, "cache", "read")

TRA_wait(a) == "wait" \in Operations[a] /\ Ask(a, "wait", "wait")

\* The lock cannot be had: a timeout, a deadlock, or no wait was wanted.
WaitFails(a) ==
    /\ At(a, "wait")
    /\ lock_owner[att[a].number] # NONE
    /\ att' = [att EXCEPT ![a] = Ready(@)]
    /\ UNCHANGED <<shared, locks, dead, history>>

\* The lock was granted and is released.  The block, and the data of the
\* transaction that had it, stay while another attachment has a request.
WaitEnds(a) ==
    LET t == att[a].number IN
    /\ At(a, "wait")
    /\ lock_owner[t] = NONE
    /\ lock_data' = [lock_data EXCEPT ![t] = @ /\ Waiters(t) # {a}]
    /\ Goto(a, "cache")
    /\ UNCHANGED <<shared, lock_owner, dead, history>>

\* The first part of snapshotState: the cache's word for a transaction that
\* ended is its answer.
cacheState(a) ==
    LET cn == tpc[att[a].number] IN
    /\ At(a, "cache")
    /\ \/ /\ cn = CN_DEAD \/ Committed(cn)
          /\ Return(a, cn)
       \/ /\ cn \in {CN_ACTIVE, CN_LIMBO}
          /\ Goto(a, "lock_data") /\ UNCHANGED answers
    /\ UNCHANGED <<shared, locks, dead, before, committing>>

\* Mutant: the page is believed without a look at the lock.
LCK_read_data_skipped(a) ==
    /\ At(a, "lock_data")
    /\ Goto(a, "fetch")
    /\ UNCHANGED <<shared, locks, dead, history>>

\* The second part: a transaction whose lock has data is alive.
LCK_read_data(a) ==
    /\ At(a, "lock_data")
    /\ \/ lock_data[att[a].number] /\ Return(a, CN_ACTIVE)
       \/ ~lock_data[att[a].number] /\ Goto(a, "fetch") /\ UNCHANGED answers
    /\ UNCHANGED <<shared, locks, dead, before, committing>>

\* The third part: the page is read under a shared page lock.  A transaction it
\* still calls active is marked dead; any other state goes into the cache.
TRA_fetch_state(a) ==
    LET s == tip[att[a].number] IN
    /\ At(a, "fetch")
    /\ tip_latch = NONE
    /\ att' = [att EXCEPT ![a].pc = IF s = "active" THEN "latch" ELSE "cached",
                          ![a].state = IF s = "active" THEN "dead" ELSE s]
    /\ UNCHANGED <<shared, locks, dead, history>>

-----------------------------------------------------------------------------
(* Processes die; the lock manager notices and releases what they held,    *)
(* page locks included.                                                    *)

Crash(a) ==
    /\ a \notin dead /\ "crash" \in Operations[a]
    /\ att[a].pc # "idle"
    /\ dead' = dead \union {a}
    /\ UNCHANGED <<shared, locks, att, history>>

purge_owner(a) ==
    /\ a \in dead
    /\ dead' = dead \ {a}
    /\ att' = [att EXCEPT ![a] = Idle]
    /\ tip_latch' = IF tip_latch = a THEN NONE ELSE tip_latch
    /\ lock_owner' = [t \in Transactions |-> IF lock_owner[t] = a THEN NONE ELSE lock_owner[t]]
    /\ lock_data' = [t \in Transactions |->
                       lock_data[t] /\ \/ lock_owner[t] \notin {a, NONE}
                                       \/ Waiters(t) \ {a} # {}]
    /\ answers' = [answers EXCEPT ![a] = {}]
    /\ before' = [before EXCEPT ![a] = {}]
    /\ committing' = [committing EXCEPT ![a] = {}]
    /\ UNCHANGED <<tip, tpc, latest_commit_number, next_transaction>>

\* Mutant: the commit counter of the new shared memory starts at zero.
loadInventoryPages_zero ==
    /\ dead = {} /\ \A a \in Attachments : att[a].pc = "idle"
    /\ next_transaction > 0
    /\ latest_commit_number' = CN_ACTIVE
    /\ UNCHANGED <<tip, tip_latch, tpc, next_transaction, locks, att, dead, history>>

\* The last process leaves, the shared memory with it; the next one builds the
\* cache from the inventory page.
loadInventoryPages ==
    /\ dead = {} /\ \A a \in Attachments : att[a].pc = "idle"
    /\ next_transaction > 0
    /\ latest_commit_number' = CN_PREHISTORIC
    /\ tpc' = [t \in Transactions |->
                 CASE tip[t] = "active" -> CN_ACTIVE
                   [] tip[t] = "limbo" -> CN_LIMBO
                   [] tip[t] = "dead" -> CN_DEAD
                   [] tip[t] = "committed" -> CN_PREHISTORIC]
    /\ UNCHANGED <<tip, tip_latch, next_transaction, locks, att, dead, history>>

Next ==
    \/ \E a \in Attachments :
        \/ transaction_start(a) \/ beginSnapshot(a)
        \/ TRA_commit(a) \/ TRA_rollback(a) \/ TRA_prepare(a)
        \/ DetachPrepared(a) \/ TRA_reconnect(a) \/ TRA_release_transaction(a)
        \/ fetch_inventory_page(a) \/ setState(a) \/ StoreCommitNumber(a) \/ WritePage(a)
        \/ TRA_snapshot_state(a) \/ TRA_wait(a) \/ WaitFails(a) \/ WaitEnds(a)
        \/ cacheState(a) \/ LCK_read_data(a) \/ TRA_fetch_state(a)
        \/ Crash(a) \/ purge_owner(a)
    \/ loadInventoryPages

Spec == Init /\ [][Next]_vars

-----------------------------------------------------------------------------
(* What must hold.                                                         *)

\* The type of the state.
TypeOK ==
    /\ tip \in [Transactions -> TipState]
    /\ tip_latch \in Attachments \union {NONE}
    /\ tpc \in [Transactions -> CacheWord]
    /\ latest_commit_number \in CN_PREHISTORIC .. CN_MAX_NUMBER
    /\ next_transaction \in 0 .. MaxTransactions
    /\ lock_owner \in [Transactions -> Attachments \union {NONE}]
    /\ lock_data \in [Transactions -> BOOLEAN]
    /\ att \in [Attachments -> Attachment]
    /\ dead \subseteq Attachments
    /\ before \in [Attachments -> SUBSET Transactions]
    /\ committing \in [Attachments -> SUBSET Transactions]
    /\ answers \in [Attachments -> SUBSET (Transactions \X {"visible", "invisible"})]

\* The cache never contradicts the inventory page: a final state on the page is
\* in the cache too, through stale decisions to mark a transaction dead, two
\* attachments that end the same transaction in limbo, crashes between the two
\* stores, and restarts.  TRA_set_state overwrites the state on the page without
\* looking at it, so this is also what keeps the end of a transaction final.
CacheFollowsPage ==
    \A t \in Transactions :
        /\ tip[t] = "committed" => Committed(tpc[t])
        /\ tip[t] = "dead" => tpc[t] = CN_DEAD
        /\ tip[t] = "limbo" => tpc[t] # CN_ACTIVE

\* The end of a transaction on the page is final: no decision taken on what the
\* cache, the lock table or the page said before overwrites it.
EndFinal ==
    [][\A t \in Transactions : tip[t] \in {"committed", "dead"} => tip'[t] = tip[t]]_vars

\* A transaction that is neither prepared nor ending is active, on the page and
\* in the cache, whatever other processes concluded about it from the cache,
\* the lock table and the page, which they read one after the other
\* (snapshotState and TRA_wait mark transactions of others dead).
NotBuriedAlive ==
    \A a \in Attachments \ dead :
        (att[a].tra_number # 0 /\ att[a].tra_flags = {} /\ att[a].caller # "own") =>
            /\ tip[att[a].tra_number] = "active"
            /\ tpc[att[a].tra_number] = CN_ACTIVE

\* A snapshot sees every commit the cache had when it began and, apart from
\* transactions that had drawn their number but not stored it, nothing else.
SnapshotExact ==
    \A a \in Attachments : \A t \in Transactions :
        /\ <<t, "visible">> \in answers[a] => t \in before[a] \union committing[a]
        /\ <<t, "invisible">> \in answers[a] => t \notin before[a]

\* Only an attachment the transaction belongs to, or one that reconnected to
\* it, ends a transaction in limbo: TRA_wait returns limbo as it is.
LimboKept ==
    [][\A t \in Transactions :
         (tip[t] = "limbo" /\ tip'[t] # "limbo") =>
             \E a \in Attachments : att[a].tra_number = t /\ att[a].pc = "write"]_vars
=============================================================================
