--------------------------- MODULE PhysicalBackup ---------------------------
(***************************************************************************)
(* Physical backup: ALTER DATABASE BEGIN / END BACKUP redirect page writes *)
(* to a difference file and merge it back (BackupManager, nbak.cpp), under *)
(* the backup state lock (GlobalRWLock.cpp with its local read-write lock) *)
(* and the lock on the allocation table of the difference file.            *)
(*                                                                         *)
(* Every process has its own Database block, as in Classic, with one       *)
(* attachment thread; blocking ASTs and page writes happen beside it.      *)
(***************************************************************************)
EXTENDS Integers, Sequences, FiniteSets, SequencesExt

CONSTANTS
    Processes,      \* processes attached to the database
    Operators,      \* bound: pairs of a process and an SCN at which it may begin or end
    Writers,        \* bound: pairs of a process and a page that it modifies
    Mortal,         \* those that may die
    Pages,          \* pages of the database
    HeaderPage,     \* one of them
    MaxVersions,    \* bound: modifications of each page
    MaxDeaths,      \* bound: deaths
    None            \* no process, no page, no copy, no table

ASSUME BackupAssumption ==
    /\ Operators \subseteq Processes \X Nat /\ Writers \subseteq Processes \X Pages
    /\ Mortal \subseteq Processes /\ HeaderPage \in Pages
    /\ MaxVersions \in [Pages -> Nat] /\ MaxDeaths \in Nat
    /\ None \notin Processes \union Pages /\ \A S \in SUBSET Pages : S # None
    /\ None \notin [v : Nat, scn : Nat] /\ None \notin [v : Nat, scn : Nat, diff : BOOLEAN]

VARIABLES
    hdr,        \* backup mode and SCN in the header page of the main file
    main,       \* pages of the main file
    delta,      \* pages of the difference file, None: allocated, never written
    table,      \* allocation table of the difference file
    rw,         \* GlobalRWLock of the backup state, in each process
    queue,      \* requests waiting for that lock in the lock manager
    bm,         \* BackupManager of each process
    dirty,      \* dirty pages of each process
    th,         \* attachment thread of each process
    ast,        \* processes inside blockingAstHandler
    unlocking,  \* processes inside unlockStateRead
    endLock,    \* holder of LCK_backup_end
    version,    \* history: last version made of each page
    latest,     \* history: last version of each page that was written
    deaths

disk == <<hdr, main, delta, table>>
vars == <<disk, rw, queue, bm, dirty, th, ast, unlocking, endLock, version, latest, deaths>>

Modes == {"normal", "stalled", "merge"}
Levels == {"none", "read", "write"}
Copy == [v : Nat, scn : Nat]
Buffer == [v : Nat, scn : Nat, diff : BOOLEAN]

RWLock ==
    [lck_physical : Levels,
     want : Levels,            \* level asked for, while pendingLock is not zero
     currentWriter : BOOLEAN,
     blocking : BOOLEAN,
     seen : BOOLEAN]           \* the AST for this request has been delivered

Manager ==
    [backup_state : Modes \union {"unknown"},
     current_scn : Nat,
     alloc_table : (SUBSET Pages) \union {None},
     allocIsValid : BOOLEAN,
     alloc_physical : Levels,
     master : BOOLEAN,
     stateBlocking : BOOLEAN]

\* Where an attachment thread is; the ones in LocalRead hold localStateLock for
\* reading, those in LocalWrite for writing.
LocalRead == {"locking", "f_read", "m_mark", "g_read", "e_check", "e_alloc", "e_merge",
              "e_page", "e_mark", "a_alloc"}
LocalWrite == {"g_lock", "g_locked"}
PCs == LocalRead \union LocalWrite
         \union {"out", "idle", "held", "g_flush", "g_held", "e_guard", "a_recover"}

Thread ==
    [pc : PCs, next : PCs,
     op : {"none", "begin", "end", "recover", "end3"},
     page : Pages \union {None},        \* the page it has fetched
     buf : Copy \union {None},
     todo : SUBSET Pages]               \* pages still to merge

NewRWLock == [lck_physical |-> "none", want |-> "none", currentWriter |-> FALSE,
              blocking |-> FALSE, seen |-> FALSE]
NewManager == [backup_state |-> "unknown", current_scn |-> 0, alloc_table |-> None,
               allocIsValid |-> FALSE, alloc_physical |-> "none", master |-> FALSE,
               stateBlocking |-> FALSE]
NewThread == [pc |-> "idle", next |-> "idle", op |-> "none", page |-> None, buf |-> None,
              todo |-> {}]
Clean == [pg \in Pages |-> None]

Init ==
    /\ hdr = [mode |-> "normal", scn |-> 0]
    /\ main = [pg \in Pages |-> [v |-> 0, scn |-> 0]]
    /\ delta = Clean
    /\ table = {}
    /\ rw = [p \in Processes |-> NewRWLock]
    /\ queue = <<>>
    /\ bm = [p \in Processes |-> NewManager]
    /\ dirty = [p \in Processes |-> Clean]
    /\ th = [p \in Processes |-> NewThread]
    /\ ast = {}
    /\ unlocking = {}
    /\ endLock = None
    /\ version = [pg \in Pages |-> 0]
    /\ latest = [pg \in Pages |-> 0]
    /\ deaths = 0

At(p, s) == th[p].pc = s
DirtyPages(p) == {pg \in Pages : dirty[p][pg] # None}
LocalReaders(p) == th[p].pc \in LocalRead \/ DirtyPages(p) # {}
LocalWriter(p) == th[p].pc \in LocalWrite

\* Nobody else has fetched pg for writing, nor holds it dirty: page locks.
Available(p, pg) == \A q \in Processes : th[q].page # pg /\ dirty[q][pg] = None

-----------------------------------------------------------------------------
(* The allocation table.  B is the managers of all processes.              *)

\* Mutant: the table stays valid when its lock is lost.
StepDown_valid(B, p, level) ==
    [q \in Processes |->
       IF q = p THEN B[q]
       ELSE [B[q] EXCEPT !.alloc_physical = IF level = "write" THEN "none"
                                            ELSE IF @ = "write" THEN "read" ELSE @]]

\* Another process asks for the lock on the table: who writes steps down to
\* reading, or everybody releases it and invalidates his table.
StepDown(B, p, level) ==
    [q \in Processes |->
       IF q = p THEN B[q]
       ELSE IF level = "write"
            THEN [B[q] EXCEPT !.alloc_physical = "none",
                              !.allocIsValid = @ /\ B[q].alloc_physical = "none"]
            ELSE [B[q] EXCEPT !.alloc_physical = IF @ = "write" THEN "read" ELSE @]]

Known(b) == IF b.alloc_table = None THEN {} ELSE b.alloc_table

\* actualizeAlloc; without the global lock its last page is left out, and with few
\* pages that is all of it.
actualizeAlloc(b, haveGlobalLock) ==
    [b EXCEPT !.alloc_table = IF haveGlobalLock THEN Known(b) \union table ELSE Known(b),
              !.allocIsValid = haveGlobalLock]

\* The table is dropped and its lock, if there is one, released.
DropAlloc(b) ==
    [b EXCEPT !.alloc_table = None,
              !.allocIsValid = @ /\ b.alloc_physical = "none",
              !.alloc_physical = "none"]

\* Mutant: a table once read is never brought up to date.
getPageIndex_cached(B, p, pg) ==
    IF B[p].alloc_table # None THEN B
    ELSE [StepDown(B, p, "read") EXCEPT ![p] =
            [actualizeAlloc(B[p], TRUE) EXCEPT !.alloc_physical = "read"]]

\* getPageIndex: the managers after it.  Page pg is in the difference file if it
\* is then in the table of p.
getPageIndex(B, p, pg) ==
    LET b == B[p]
    IN  IF pg \in Known(b) \/ (b.backup_state = "merge" /\ b.allocIsValid)
           \/ b.alloc_physical # "none"
        THEN B
        ELSE [StepDown(B, p, "read") EXCEPT ![p] =
                [actualizeAlloc(b, TRUE) EXCEPT !.alloc_physical = "read"]]

Mapped(B, p, pg) == pg \in Known(B[p])

\* allocateDifferencePage: the managers after it.
allocateDifferencePage(B, p, pg) ==
    LET b == IF B[p].alloc_physical = "write" THEN B[p]
             ELSE [actualizeAlloc(B[p], TRUE) EXCEPT !.alloc_physical = "write"]
    IN  IF pg \in Known(B[p]) THEN B
        ELSE [StepDown(B, p, "write") EXCEPT ![p] =
                [b EXCEPT !.alloc_table = @ \union {pg}]]

-----------------------------------------------------------------------------
(* The backup state.                                                       *)

\* Mutant: the SCN remembered is the one before.
actualizeState_previous(b) ==
    [IF hdr.mode = "normal" /\ b.alloc_table # None THEN DropAlloc(b) ELSE b EXCEPT
       !.backup_state = hdr.mode, !.current_scn = hdr.scn - 1]

\* actualizeState: what the header page in the main file says.
actualizeState(b) ==
    LET missed_cycle == hdr.scn - b.current_scn > 1
        dropped == (hdr.mode = "normal" \/ missed_cycle) /\ b.alloc_table # None
    IN  [IF dropped THEN DropAlloc(b) ELSE b EXCEPT
           !.backup_state = hdr.mode, !.current_scn = hdr.scn]

Unknown(b) == [b EXCEPT !.backup_state = "unknown"]

Released(g) == [g EXCEPT !.lck_physical = "none", !.blocking = FALSE, !.seen = FALSE]

\* Requests of others that wait.
Waiting(p) == {rw[q].want : q \in ToSet(queue) \ {p}}

Conflicts(p) ==
    \/ rw[p].lck_physical = "write" /\ Waiting(p) # {}
    \/ rw[p].lck_physical = "read" /\ "write" \in Waiting(p)

\* LCK_downgrade: the highest level the waiting ones tolerate.
Downgraded(p) ==
    IF "write" \in Waiting(p) THEN "none"
    ELSE IF "read" \in Waiting(p) /\ rw[p].lck_physical = "write" THEN "read"
    ELSE rw[p].lck_physical

\* lockStateRead: the thread record t of p goes on at s, at once if the state is
\* known, else when the lock is granted.
lockStateRead(p, t, s) ==
    /\ IF bm[p].backup_state # "unknown" \/ rw[p].lck_physical # "none"
       THEN /\ th' = [th EXCEPT ![p] = [t EXCEPT !.pc = s]]
            /\ UNCHANGED <<rw, queue>>
       ELSE /\ th' = [th EXCEPT ![p] = [t EXCEPT !.pc = "locking", !.next = s]]
            /\ rw' = [rw EXCEPT ![p].want = "read"]
            /\ queue' = Append(queue, p)

\* The lock manager grants in the order of requests (external: LockManager).
Grant(p) ==
    /\ queue # <<>> /\ Head(queue) = p
    /\ \A q \in Processes \ {p} :
         \/ rw[q].lck_physical = "none"
         \/ rw[q].lck_physical = "read" /\ rw[p].want = "read"
    /\ rw' = [rw EXCEPT ![p].lck_physical = rw[p].want, ![p].seen = FALSE]
    /\ queue' = Tail(queue)
    /\ UNCHANGED <<disk, bm, dirty, th, ast, unlocking, endLock, version, latest, deaths>>

Granted(p) == rw[p].want # "none" /\ p \notin ToSet(queue)

\* lockRead from the grant on, and the unlockRead that follows.
lockRead(p) ==
    /\ At(p, "locking") /\ Granted(p)
    /\ rw' = [rw EXCEPT ![p] = IF @.blocking THEN [Released(@) EXCEPT !.want = "none"]
                               ELSE [@ EXCEPT !.want = "none"]]
    /\ bm' = [bm EXCEPT ![p] = IF rw[p].blocking THEN Unknown(actualizeState(@))
                               ELSE actualizeState(@)]
    /\ th' = [th EXCEPT ![p].pc = th[p].next, ![p].next = "idle"]
    /\ UNCHANGED <<disk, queue, dirty, ast, unlocking, endLock, version, latest, deaths>>

\* Mutant: the request to step down is dropped when it cannot be served.
unlockStateRead_forgetful(p) ==
    /\ p \in unlocking
    /\ unlocking' = unlocking \ {p}
    /\ bm' = [bm EXCEPT ![p].stateBlocking = FALSE]
    /\ UNCHANGED <<disk, rw, queue, dirty, th, ast, endLock, version, latest, deaths>>

\* unlockStateRead gives the local lock back (the action that uses this leaves
\* LocalRead, or cleans a page), then looks whether an AST has been waiting.
endRead(p) == unlocking' = unlocking \union {p}

unlockStateRead(p) ==
    /\ p \in unlocking
    /\ unlocking' = unlocking \ {p}
    /\ IF bm[p].stateBlocking /\ ~LocalReaders(p) /\ ~LocalWriter(p)
       THEN /\ rw' = [rw EXCEPT ![p] = IF @.lck_physical # "none" THEN Released(@) ELSE @]
            /\ bm' = [bm EXCEPT ![p] =
                        [IF rw[p].lck_physical # "none" THEN Unknown(@) ELSE @
                           EXCEPT !.stateBlocking = FALSE]]
       ELSE UNCHANGED <<rw, bm>>
    /\ UNCHANGED <<disk, queue, dirty, th, ast, endLock, version, latest, deaths>>

\* GlobalRWLock::blockingAstHandler.  Read locks are given back at once, so that
\* there are no readers to wait for.
BlockingAst(p) ==
    IF rw[p].want = "none" /\ ~rw[p].currentWriter
    THEN LET level == Downgraded(p)
         IN  /\ rw' = [rw EXCEPT ![p] = IF level = "none" THEN Released(@)
                                        ELSE [@ EXCEPT !.lck_physical = level, !.seen = FALSE]]
             /\ bm' = [bm EXCEPT ![p] =
                         [IF level = "none" THEN Unknown(@) ELSE @
                            EXCEPT !.stateBlocking = bm[p].stateBlocking /\ bm[p].master]]
    ELSE /\ rw' = [rw EXCEPT ![p].blocking = TRUE, ![p].seen = TRUE]
         /\ bm' = [bm EXCEPT ![p].stateBlocking = @ /\ bm[p].master]

\* NBackupStateLock::blockingAstHandler, up to the attempt to get the local lock.
blockingAstHandler(p) ==
    /\ Conflicts(p) /\ ~rw[p].seen
    /\ IF bm[p].master
       THEN BlockingAst(p) /\ UNCHANGED ast
       ELSE /\ bm' = [bm EXCEPT ![p].stateBlocking = TRUE]
            /\ ast' = ast \union {p}
            /\ rw' = [rw EXCEPT ![p].seen = TRUE]
    /\ UNCHANGED <<disk, queue, dirty, th, unlocking, endLock, version, latest, deaths>>

\* Mutant: the local lock is taken whoever has it.
tryBeginWrite_blind(p) ==
    /\ p \in ast
    /\ ast' = ast \ {p}
    /\ BlockingAst(p)
    /\ UNCHANGED <<disk, queue, dirty, th, unlocking, endLock, version, latest, deaths>>

\* The attempt to get the local lock: if it fails, the last reader steps down.  The
\* attempt and the store of stateBlocking are one step here; a flag stored after that
\* reader has gone makes the next unlockStateRead release the lock once more.
tryBeginWrite(p) ==
    /\ p \in ast
    /\ ast' = ast \ {p}
    /\ IF LocalReaders(p) \/ LocalWriter(p)
       THEN /\ bm' = [bm EXCEPT ![p].stateBlocking = TRUE]
            /\ UNCHANGED rw
       ELSE BlockingAst(p)
    /\ UNCHANGED <<disk, queue, dirty, th, unlocking, endLock, version, latest, deaths>>

-----------------------------------------------------------------------------
(* Pages.                                                                  *)

\* What a read of pg by a process with managers B gets from disk.
PageRead(B, p, pg) ==
    IF B[p].backup_state # "normal" /\ Mapped(B, p, pg) /\ delta[pg] # None
    THEN delta[pg] ELSE main[pg]

Indexed(p, pg) ==
    IF bm[p].backup_state = "normal" THEN bm ELSE getPageIndex(bm, p, pg)

\* CCH_FETCH of a page nobody else has: the lock on the page, then the state lock.
FetchPage(p, t, pg, s) ==
    /\ Available(p, pg)
    /\ lockStateRead(p, [t EXCEPT !.page = pg], s)

CCH_fetch(p) ==
    /\ At(p, "idle")
    /\ \E pg \in Pages :
         /\ <<p, pg>> \in Writers /\ version[pg] < MaxVersions[pg]
         /\ FetchPage(p, th[p], pg, "f_read")
    /\ UNCHANGED <<disk, bm, dirty, ast, unlocking, endLock, version, latest, deaths>>

\* The page is read, and the state unlocked.
CCH_fetch_page(p, from, to) ==
    LET pg == th[p].page
        B == Indexed(p, pg)
    IN  /\ At(p, from)
        /\ bm' = B
        /\ th' = [th EXCEPT ![p].pc = to, ![p].buf = PageRead(B, p, pg)]
        /\ endRead(p)
        /\ UNCHANGED <<disk, rw, queue, dirty, ast, endLock, version, latest, deaths>>

\* CCH_mark takes the state lock for the dirty page.
CCH_mark(p) ==
    /\ At(p, "held")
    /\ lockStateRead(p, th[p], "m_mark")
    /\ UNCHANGED <<disk, bm, dirty, ast, unlocking, endLock, version, latest, deaths>>

\* set_diff_page: the managers after it, when p dirties pg.
Placed(p, pg) ==
    LET B == getPageIndex(bm, p, pg)
    IN  IF bm[p].backup_state = "stalled" THEN allocateDifferencePage(B, p, pg)
        ELSE IF bm[p].backup_state = "merge" THEN B
        ELSE bm

\* The page is placed and gets the SCN of the state; that of the header page has been
\* set with the state and is left alone, which is the same value.
set_diff_page(p, v) ==
    LET pg == th[p].page
        B == Placed(p, pg)
        new == /\ bm[p].backup_state = "stalled"
               /\ pg \notin Known(getPageIndex(bm, p, pg)[p]) \union table
    IN  /\ bm' = B
        /\ table' = IF new THEN table \union {pg} ELSE table
        /\ delta' = IF new THEN [delta EXCEPT ![pg] = None] ELSE delta
        /\ dirty' = [dirty EXCEPT ![p][pg] =
                       [v |-> v, scn |-> B[p].current_scn,
                        diff |-> B[p].backup_state \in {"stalled", "merge"}
                                   /\ Mapped(B, p, pg)]]
        /\ UNCHANGED <<hdr, main>>

\* The page of the thread is modified and released.
Modify(p) ==
    LET v == version[th[p].page] + 1
    IN  /\ At(p, "m_mark")
        /\ set_diff_page(p, v)
        /\ version' = [version EXCEPT ![th[p].page] = v]
        /\ th' = [th EXCEPT ![p] = NewThread]
        /\ UNCHANGED <<rw, queue, ast, unlocking, endLock, latest, deaths>>

\* Mutant: during a merge pages go to the main file alone.
ToDelta_stalled(p, b) == bm[p].backup_state = "stalled" /\ b.diff

\* Where write_page sends a buffer.
ToDelta(p, b) ==
    \/ bm[p].backup_state = "stalled"
    \/ bm[p].backup_state = "merge" /\ b.diff
ToMain(p) == bm[p].backup_state # "stalled"

CopyOf(b) == [v |-> b.v, scn |-> b.scn]
Latest(pg, v) == [latest EXCEPT ![pg] = IF v > @ THEN v ELSE @]

\* A dirty page is written, by its process or for an AST on the page lock.
write_page(p) ==
    \E pg \in DirtyPages(p) :
        LET b == dirty[p][pg]
        IN  /\ delta' = IF ToDelta(p, b) THEN [delta EXCEPT ![pg] = CopyOf(b)] ELSE delta
            /\ main' = IF ToMain(p) THEN [main EXCEPT ![pg] = CopyOf(b)] ELSE main
            /\ latest' = Latest(pg, b.v)
            /\ dirty' = [dirty EXCEPT ![p][pg] = None]
            /\ endRead(p)
            /\ UNCHANGED <<hdr, table, rw, queue, bm, th, ast, endLock, version, deaths>>

\* The page is released unmodified.
CCH_release(p) ==
    /\ At(p, "held")
    /\ th' = [th EXCEPT ![p] = NewThread]
    /\ UNCHANGED <<disk, rw, queue, bm, dirty, ast, unlocking, endLock, version, latest, deaths>>

-----------------------------------------------------------------------------
(* StateWriteGuard: buffers are flushed, the header page is fetched, the   *)
(* local lock and then the global one are taken for writing.               *)

\* Thread p starts to change the state for operation o.
Guard(p, o) == [th[p] EXCEPT !.pc = "g_flush", !.op = o, !.page = None, !.buf = None]

GuardFetch(p) ==
    /\ At(p, "g_flush") /\ DirtyPages(p) = {}
    /\ FetchPage(p, th[p], HeaderPage, "g_read")
    /\ UNCHANGED <<disk, bm, dirty, ast, unlocking, endLock, version, latest, deaths>>

lockWrite(p) ==
    /\ At(p, "g_held") /\ ~LocalReaders(p)
    /\ IF rw[p].lck_physical = "write"
       THEN /\ rw' = [rw EXCEPT ![p].currentWriter = TRUE]
            /\ th' = [th EXCEPT ![p].pc = "g_locked"]
            /\ UNCHANGED <<queue, bm>>
       ELSE /\ rw' = [rw EXCEPT ![p] =
                        [IF @.lck_physical # "none" THEN Released(@) ELSE @
                           EXCEPT !.want = "write"]]
            /\ bm' = [bm EXCEPT ![p] = IF rw[p].lck_physical # "none" THEN Unknown(@) ELSE @]
            /\ queue' = Append(queue, p)
            /\ th' = [th EXCEPT ![p].pc = "g_lock"]
    /\ UNCHANGED <<disk, dirty, ast, unlocking, endLock, version, latest, deaths>>

WriteGranted(p) ==
    /\ At(p, "g_lock") /\ Granted(p)
    /\ rw' = [rw EXCEPT ![p].want = "none", ![p].currentWriter = TRUE]
    /\ bm' = [bm EXCEPT ![p] = actualizeState(@)]
    /\ th' = [th EXCEPT ![p].pc = "g_locked"]
    /\ UNCHANGED <<disk, queue, dirty, ast, unlocking, endLock, version, latest, deaths>>

\* unlockStateWrite, manager B[p] being what the change has made of it.
unlockStateWrite(p, B) ==
    LET level == IF B[p].backup_state = "unknown" THEN "none"
                 ELSE IF rw[p].blocking THEN Downgraded(p)
                 ELSE rw[p].lck_physical
    IN  /\ rw' = [rw EXCEPT ![p].currentWriter = FALSE, ![p].blocking = FALSE,
                            ![p].lck_physical = level,
                            ![p].seen = @ /\ level = rw[p].lck_physical /\ ~rw[p].blocking]
        /\ bm' = [B EXCEPT ![p] = IF level = "none" THEN Unknown(@) ELSE @]

\* Header page and mode go to the main file; the copy of p is what it fetched.
WriteHeader(p, mode, scn) ==
    /\ hdr' = [mode |-> mode, scn |-> scn]
    /\ main' = [main EXCEPT ![HeaderPage] = [v |-> th[p].buf.v, scn |-> scn]]

-----------------------------------------------------------------------------
(* ALTER DATABASE BEGIN BACKUP.                                            *)

StartBegin(p) ==
    /\ At(p, "idle") /\ <<p, hdr.scn>> \in Operators
    /\ bm' = [bm EXCEPT ![p].master = TRUE]
    /\ th' = [th EXCEPT ![p] = Guard(p, "begin")]
    /\ UNCHANGED <<disk, rw, queue, dirty, ast, unlocking, endLock, version, latest, deaths>>

Finish(B, p) == [B EXCEPT ![p].master = FALSE]

\* The state is not normal: nothing to do.
BeginRefused(p) ==
    /\ At(p, "g_locked") /\ th[p].op = "begin" /\ bm[p].backup_state # "normal"
    /\ unlockStateWrite(p, Finish(bm, p))
    /\ th' = [th EXCEPT ![p] = NewThread]
    /\ UNCHANGED <<disk, queue, dirty, ast, unlocking, endLock, version, latest, deaths>>

\* The difference file is created, the header written to the main file.
beginBackup(p) ==
    LET scn == hdr.scn + 1
    IN  /\ At(p, "g_locked") /\ th[p].op = "begin" /\ bm[p].backup_state = "normal"
        /\ table' = {} /\ delta' = Clean
        /\ WriteHeader(p, "stalled", scn)
        /\ unlockStateWrite(p, [Finish(bm, p) EXCEPT ![p].backup_state = "stalled",
                                                     ![p].current_scn = scn])
        /\ th' = [th EXCEPT ![p] = NewThread]
        /\ UNCHANGED <<queue, dirty, ast, unlocking, endLock, version, latest, deaths>>

\* The first page of the difference file cannot be written.
BeginFails(p) ==
    /\ At(p, "g_locked") /\ th[p].op = "begin" /\ bm[p].backup_state = "normal"
    /\ table' = {} /\ delta' = Clean
    /\ unlockStateWrite(p, [Finish(bm, p) EXCEPT ![p].backup_state = "unknown"])
    /\ th' = [th EXCEPT ![p] = NewThread]
    /\ UNCHANGED <<hdr, main, queue, dirty, ast, unlocking, endLock, version, latest, deaths>>

-----------------------------------------------------------------------------
(* ALTER DATABASE END BACKUP, and the recovery of every new attachment.    *)

\* LCK_backup_end is taken, or somebody else is at it already.
StartEnd(p, from, o) ==
    /\ At(p, from) /\ (from = "idle" => <<p, hdr.scn>> \in Operators)
    /\ IF endLock = None
       THEN /\ endLock' = p
            /\ bm' = [bm EXCEPT ![p].master = TRUE]
            /\ lockStateRead(p, [th[p] EXCEPT !.op = o], "e_check")
       ELSE /\ th' = [th EXCEPT ![p] = NewThread]
            /\ UNCHANGED <<endLock, bm, rw, queue>>
    /\ UNCHANGED <<disk, dirty, ast, unlocking, version, latest, deaths>>

Mergeable(p) ==
    \/ bm[p].backup_state = "merge"
    \/ bm[p].backup_state = "stalled" /\ th[p].op = "end"

\* extendDatabase reads the allocation table if there is none.
Extended(b) == IF b.alloc_table = None THEN actualizeAlloc(b, FALSE) ELSE b

CheckState(p) ==
    /\ At(p, "e_check")
    /\ endRead(p)
    /\ IF Mergeable(p)
       THEN /\ bm' = IF bm[p].backup_state = "stalled"
                     THEN [bm EXCEPT ![p] = Extended(@)] ELSE bm
            /\ th' = [th EXCEPT ![p] = Guard(p, th[p].op)]
            /\ UNCHANGED endLock
       ELSE /\ bm' = Finish(bm, p)
            /\ th' = [th EXCEPT ![p] = NewThread]
            /\ endLock' = None
    /\ UNCHANGED <<disk, rw, queue, dirty, ast, version, latest, deaths>>

\* The state has changed since it was checked.
EndRefused(p) ==
    /\ unlockStateWrite(p, Finish(bm, p))
    /\ th' = [th EXCEPT ![p] = NewThread]
    /\ endLock' = None
    /\ UNCHANGED <<disk, queue, dirty, ast, unlocking, version, latest, deaths>>

\* Step 1: the state becomes merge; the header page is written to both files if
\* it is in the difference file.
SetMerge(p) ==
    LET scn == bm[p].current_scn + 1
        B == getPageIndex([bm EXCEPT ![p] = [Extended(@) EXCEPT !.backup_state = "merge",
                                                                !.current_scn = scn]],
                          p, HeaderPage)
    IN  /\ WriteHeader(p, "merge", scn)
        /\ delta' = IF Mapped(B, p, HeaderPage)
                    THEN [delta EXCEPT ![HeaderPage] = [v |-> th[p].buf.v, scn |-> scn]]
                    ELSE delta
        /\ unlockStateWrite(p, B)
        /\ th' = [th EXCEPT ![p].pc = "e_guard", ![p].page = None, ![p].buf = None]
        /\ UNCHANGED <<table, queue, dirty, ast, unlocking, endLock, version, latest, deaths>>

EndLocked(p) ==
    /\ At(p, "g_locked") /\ th[p].op \in {"end", "recover"}
    /\ IF Mergeable(p) THEN SetMerge(p) ELSE EndRefused(p)

\* Step 2: under the state lock for reading every page of the table that has not
\* been marked since is fetched, marked and written.
MergeGuard(p) ==
    /\ At(p, "e_guard")
    /\ lockStateRead(p, th[p], "e_alloc")
    /\ UNCHANGED <<disk, bm, dirty, ast, unlocking, endLock, version, latest, deaths>>

MergeAlloc(p) ==
    LET b == actualizeAlloc(bm[p], TRUE)
    IN  /\ At(p, "e_alloc")
        /\ bm' = [bm EXCEPT ![p] = b]
        /\ th' = [th EXCEPT ![p].pc = "e_merge", ![p].todo = b.alloc_table]
        /\ UNCHANGED <<disk, rw, queue, dirty, ast, unlocking, endLock, version, latest, deaths>>

MergeFetch(p) ==
    /\ At(p, "e_merge")
    /\ \E pg \in th[p].todo :
        LET B == Indexed(p, pg)
        IN  /\ Available(p, pg)
            /\ bm' = B
            /\ th' = [th EXCEPT ![p].pc = "e_page", ![p].page = pg,
                                ![p].buf = PageRead(B, p, pg)]
    /\ UNCHANGED <<disk, rw, queue, dirty, ast, unlocking, endLock, version, latest, deaths>>

MergeMark(p) ==
    /\ At(p, "e_page") /\ th[p].buf.scn # bm[p].current_scn
    /\ lockStateRead(p, th[p], "e_mark")
    /\ UNCHANGED <<disk, bm, dirty, ast, unlocking, endLock, version, latest, deaths>>

\* The thread goes on with the pages it has left.
Merged(p) == [th EXCEPT ![p].pc = "e_merge", ![p].page = None, ![p].buf = None,
                        ![p].todo = @ \ {th[p].page}]

MergePage(p) ==
    /\ At(p, "e_mark")
    /\ set_diff_page(p, th[p].buf.v)
    /\ th' = Merged(p)
    /\ UNCHANGED <<rw, queue, ast, unlocking, endLock, version, latest, deaths>>

MergeSkip(p) ==
    /\ At(p, "e_page") /\ th[p].buf.scn = bm[p].current_scn
    /\ th' = Merged(p)
    /\ UNCHANGED <<disk, rw, queue, bm, dirty, ast, unlocking, endLock, version, latest, deaths>>

MergeOver(p) ==
    /\ At(p, "e_merge") /\ th[p].todo = {} /\ DirtyPages(p) = {}
    /\ th' = [th EXCEPT ![p] = Guard(p, "end3")]
    /\ endRead(p)
    /\ UNCHANGED <<disk, rw, queue, bm, dirty, ast, endLock, version, latest, deaths>>

\* Step 3: the state becomes normal; the difference file is deleted.
SetNormal(p) ==
    LET scn == bm[p].current_scn + 1
    IN  /\ At(p, "g_locked") /\ th[p].op = "end3"
        /\ WriteHeader(p, "normal", scn)
        /\ table' = {} /\ delta' = Clean
        /\ unlockStateWrite(p, [Finish(bm, p) EXCEPT ![p] =
                                  [DropAlloc(@) EXCEPT !.backup_state = "normal",
                                                       !.current_scn = scn]])
        /\ th' = [th EXCEPT ![p] = NewThread]
        /\ endLock' = None
        /\ UNCHANGED <<queue, dirty, ast, unlocking, version, latest, deaths>>

-----------------------------------------------------------------------------
(* Death, and a new attachment in its place.                               *)

\* The queue without the request of p, which has one at most.
Without(p) ==
    IF p \in ToSet(queue) THEN RemoveAt(queue, CHOOSE i \in DOMAIN queue : queue[i] = p)
    ELSE queue

\* The process is gone, with its buffers and its locks.
Gone(p) ==
    /\ p \in Mortal /\ ~At(p, "out") /\ deaths < MaxDeaths
    /\ deaths' = deaths + 1
    /\ rw' = [rw EXCEPT ![p] = NewRWLock]
    /\ queue' = Without(p)
    /\ bm' = [bm EXCEPT ![p] = NewManager]
    /\ dirty' = [dirty EXCEPT ![p] = Clean]
    /\ th' = [th EXCEPT ![p] = [NewThread EXCEPT !.pc = "out"]]
    /\ ast' = ast \ {p}
    /\ unlocking' = unlocking \ {p}
    /\ endLock' = IF endLock = p THEN None ELSE endLock
    /\ UNCHANGED version

Die(p) == Gone(p) /\ UNCHANGED <<disk, latest>>

\* It dies inside write_page, the difference file written and the main file not.
DieWriting(p) ==
    /\ Gone(p)
    /\ \E pg \in DirtyPages(p) :
        LET b == dirty[p][pg]
        IN  /\ ToDelta(p, b) /\ ToMain(p) /\ b.diff
            /\ delta' = [delta EXCEPT ![pg] = CopyOf(b)]
            /\ latest' = Latest(pg, b.v)
    /\ UNCHANGED <<hdr, main, table>>

\* A new process attaches and reads the allocation table (initializeAlloc).
Attach(p) ==
    /\ At(p, "out")
    /\ lockStateRead(p, NewThread, "a_alloc")
    /\ UNCHANGED <<disk, bm, dirty, ast, unlocking, endLock, version, latest, deaths>>

initializeAlloc(p) ==
    /\ At(p, "a_alloc")
    /\ bm' = IF bm[p].backup_state # "normal" THEN [bm EXCEPT ![p] = actualizeAlloc(@, FALSE)]
             ELSE bm
    /\ th' = [th EXCEPT ![p].pc = "a_recover"]
    /\ endRead(p)
    /\ UNCHANGED <<disk, rw, queue, dirty, ast, endLock, version, latest, deaths>>

-----------------------------------------------------------------------------
PageStep(p) ==
    \/ CCH_fetch(p) \/ CCH_fetch_page(p, "f_read", "held") \/ CCH_mark(p) \/ CCH_release(p)
    \/ Modify(p) \/ write_page(p)

StateLockStep(p) ==
    \/ Grant(p) \/ lockRead(p) \/ unlockStateRead(p) \/ blockingAstHandler(p)
    \/ tryBeginWrite(p) \/ lockWrite(p) \/ WriteGranted(p)

BackupStep(p) ==
    \/ StartBegin(p) \/ StartEnd(p, "idle", "end") \/ StartEnd(p, "a_recover", "recover")
    \/ GuardFetch(p) \/ CCH_fetch_page(p, "g_read", "g_held")
    \/ BeginRefused(p) \/ beginBackup(p) \/ BeginFails(p)
    \/ CheckState(p) \/ EndLocked(p) \/ MergeGuard(p) \/ MergeAlloc(p)
    \/ MergeFetch(p) \/ MergeMark(p) \/ MergePage(p) \/ MergeSkip(p) \/ MergeOver(p)
    \/ SetNormal(p)

ProcessStep(p) == Die(p) \/ DieWriting(p) \/ Attach(p) \/ initializeAlloc(p)

Next == \E p \in Processes : PageStep(p) \/ StateLockStep(p) \/ BackupStep(p) \/ ProcessStep(p)

Spec == Init /\ [][Next]_vars

-----------------------------------------------------------------------------
(* What must hold.                                                         *)

\* The type of the state.
TypeOK ==
    /\ hdr \in [mode : Modes, scn : Nat]
    /\ main \in [Pages -> Copy]
    /\ delta \in [Pages -> Copy \union {None}]
    /\ table \subseteq Pages
    /\ rw \in [Processes -> RWLock]
    /\ queue \in Seq(Processes)
    /\ bm \in [Processes -> Manager]
    /\ dirty \in [Processes -> [Pages -> Buffer \union {None}]]
    /\ th \in [Processes -> Thread]
    /\ ast \subseteq Processes /\ unlocking \subseteq Processes
    /\ endLock \in Processes \union {None}
    /\ version \in [Pages -> Nat]
    /\ latest \in [Pages -> Nat]
    /\ deaths \in 0 .. MaxDeaths

\* Whatever process of Mortal has died, the files alone give the last version written
\* of every page (CCH_fetch_page by a process that has just attached), in every backup
\* mode and at every moment of a merge.
DiskCurrent ==
    \A pg \in Pages :
        latest[pg] = IF hdr.mode # "normal" /\ pg \in table /\ delta[pg] # None
                     THEN delta[pg].v ELSE main[pg].v

\* A process that has locked the state for reading would get the last version of
\* every page (getPageIndex, CCH_fetch_page), whatever it remembers of the
\* allocation table.
ReadsLatest ==
    \A p \in Processes : LocalReaders(p) /\ ~At(p, "locking") =>
        \A pg \in Pages : PageRead(Indexed(p, pg), p, pg).v = latest[pg]

\* A process that has locked the state for reading, or has a dirty page, knows the
\* state: nobody changes it meanwhile (write_page asserts that it is known).
StateKnown ==
    \A p \in Processes : LocalReaders(p) /\ ~At(p, "locking") =>
        bm[p].backup_state = hdr.mode

\* A process that makes backups, or recovers after a death, may be told to step down
\* as master: its flag is then left for an unlockStateRead to come.
Backs(p) == p \in Mortal \/ \E o \in Operators : o[1] = p

\* A holder of the state lock that has been told to step down is not told again
\* (LRQ_blocking_seen), so it never forgets: the handler still runs, a reader is left
\* whose unlockStateRead will see stateBlocking, or the writer or the request that the
\* handler met will see blocking.
StepsDown ==
    \A p \in Processes : Conflicts(p) /\ rw[p].seen =>
        \/ p \in ast
        \/ bm[p].stateBlocking /\ (LocalReaders(p) \/ p \in unlocking \/ Backs(p))
        \/ rw[p].blocking /\ (rw[p].currentWriter \/ rw[p].want # "none")

\* allocIsValid says that the allocation table is completely read from disk.
AllocComplete ==
    \A p \in Processes :
        bm[p].allocIsValid /\ bm[p].backup_state = hdr.mode /\ hdr.mode = "merge"
            => Known(bm[p]) = table
=============================================================================
