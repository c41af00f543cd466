----------------------------- MODULE PageCache -----------------------------
(***************************************************************************)
(* The page cache of one process and its careful writes (cch.cpp): pages   *)
(* are written in the order their precedence graph asks for, by threads    *)
(* that need it (flush, must write, a cycle to avoid) and by the thread    *)
(* that runs blocking ASTs, which gives page locks up to other processes.  *)
(*                                                                         *)
(* The contents of a page are the incarnation of its last modification     *)
(* and, for every other page, the incarnation it relies upon: a pointer to *)
(* a page is of use only when the page pointed to is at least that recent. *)
(***************************************************************************)
EXTENDS Naturals, Sequences, FiniteSets, SequencesExt

CONSTANTS
    Pages,
    Workers,            \* threads of the process
    Ast,                \* the thread that runs its blocking ASTs
    Nobody,             \* no thread, no page
    Exclusive,          \* BCB_exclusive: no other process, no page locks
    PRE_SEARCH_LIMIT,   \* blocks visited before the graph is found too complex
    MaxChanges,         \* bound: modifications of pages and writes that fail
    MaxRequests         \* bound: requests of other processes

ASSUME CacheAssumption ==
    /\ Exclusive \in BOOLEAN /\ Ast \notin Workers
    /\ {PRE_SEARCH_LIMIT, MaxChanges, MaxRequests} \subseteq Nat
    /\ Nobody \notin Pages \union Workers \union {Ast}

VARIABLES
    disk, buf,      \* contents of the pages, on disk and in the cache
    dirty,          \* buffers with BDB_dirty
    not_valid,      \* buffers with BDB_not_valid
    blocking,       \* buffers with BDB_blocking
    held,           \* page locks held for write
    wanted,         \* pages other processes wait for
    posted,         \* blocking ASTs not delivered yet
    latch, io,      \* owners of bdb_syncPage and bdb_syncIO
    blocks,         \* precedence blocks, those of bcb_free included
    th,             \* the workers
    down,           \* activations of down_grade, innermost first
    lost,           \* history: last incarnation given up for each page
    misled,         \* history: pages left alone after a look at a block used anew
    incarnation, requests, failures

data == <<disk, buf, dirty, not_valid>>
locks == <<held, wanted, requests>>
counts == <<incarnation, failures, lost, misled>>
vars == <<data, blocking, locks, posted, latch, io, blocks, th, down, counts>>

Contents == [ver : Nat, needs : [Pages -> Nat]]

\* A block is in the queues of both pages, or in bcb_free.
Precedence ==
    [pre_hi : Pages, pre_low : Pages, cleared : BOOLEAN]
        \union [pre_hi : {Nobody}, pre_low : {Nobody}, cleared : BOOLEAN]

\* Activation of down_grade.
Frame ==
    [page : Pages, high : BOOLEAN, oldBlocking : BOOLEAN, justWrite : BOOLEAN,
     invalid : BOOLEAN, precedence : Nat, blocking_bdb : Pages \union {Nobody},
     pc : {"latch", "io", "higher", "back", "write", "lower"}]

Worker ==
    [pc : {"idle", "window", "precedence", "cycle", "ready", "marked", "flush",
           "flushing", "skip", "release", "repost"},
     window : Pages \union {Nobody},
     high : Pages \union {Nobody}, need : Nat,
     write_buffer : Pages \union {Nobody},     \* page to write before going on
     writing : Pages \union {Nobody},          \* it, or a page above it
     write_pc : {"start", "again", "clear"},
     todo : SUBSET Pages, rest : SUBSET Pages, \* flushPages
     found : BOOLEAN, writeAll : BOOLEAN]

Idle ==
    [pc |-> "idle", window |-> Nobody, high |-> Nobody, need |-> 0,
     write_buffer |-> Nobody, writing |-> Nobody, write_pc |-> "start",
     todo |-> {}, rest |-> {}, found |-> FALSE, writeAll |-> FALSE]

TypeOK ==
    /\ disk \in [Pages -> Contents] /\ buf \in [Pages -> Contents]
    /\ dirty \subseteq Pages /\ not_valid \subseteq Pages /\ blocking \subseteq Pages
    /\ held \subseteq Pages /\ wanted \subseteq Pages /\ posted \subseteq Pages
    /\ latch \in [Pages -> Workers \union {Ast, Nobody}]
    /\ io \in [Pages -> Workers \union {Ast, Nobody}]
    /\ blocks \in Seq(Precedence)
    /\ th \in [Workers -> Worker] /\ down \in Seq(Frame)
    /\ lost \in [Pages -> Nat] /\ misled \subseteq Pages
    /\ incarnation \in 0 .. MaxChanges /\ failures \in 0 .. MaxChanges - incarnation
    /\ requests \in 0 .. MaxRequests

Blank == [p \in Pages |-> [ver |-> 0, needs |-> [q \in Pages |-> 0]]]

Init ==
    /\ disk = Blank /\ buf = Blank
    /\ dirty = {} /\ not_valid = {} /\ blocking = {}
    /\ held = (IF Exclusive THEN Pages ELSE {})
    /\ wanted = {} /\ posted = {}
    /\ latch = [p \in Pages |-> Nobody] /\ io = [p \in Pages |-> Nobody]
    /\ blocks = <<>>
    /\ th = [w \in Workers |-> Idle] /\ down = <<>>
    /\ lost = [p \in Pages |-> 0] /\ misled = {}
    /\ incarnation = 0 /\ requests = 0 /\ failures = 0

---------------------------------------------------------------------------
(* The precedence graph.                                                   *)

Linked(i) == blocks[i].pre_hi # Nobody
Waits(i) == Linked(i) /\ ~ blocks[i].cleared

Higher(p) == {blocks[i].pre_hi : i \in {i \in DOMAIN blocks : Waits(i) /\ blocks[i].pre_low = p}}
Lower(p) == {blocks[i].pre_low : i \in {i \in DOMAIN blocks : Waits(i) /\ blocks[i].pre_hi = p}}
HasLower(p) == \E i \in DOMAIN blocks : blocks[i].pre_hi = p

\* Mutant: a block leaves only one of its two queues.
Unlink_half(S) ==
    blocks' = [i \in DOMAIN blocks |->
                  IF i \in S THEN [blocks[i] EXCEPT !.pre_low = Nobody] ELSE blocks[i]]

\* QUE_DELETE of blocks, which go to bcb_free with their flags.
Unlink(S) ==
    blocks' = [i \in DOMAIN blocks |->
                  IF i \in S THEN [blocks[i] EXCEPT !.pre_hi = Nobody, !.pre_low = Nobody]
                  ELSE blocks[i]]

\* QUE_INSERT of a block taken from bcb_free, or of a new one.
Insert(high, low) ==
    LET block == [pre_hi |-> high, pre_low |-> low, cleared |-> FALSE]
        free == {i \in DOMAIN blocks : ~ Linked(i)}
    IN  IF free = {} THEN blocks' = Append(blocks, block)
        ELSE \E i \in free : blocks' = [blocks EXCEPT ![i] = block]

\* Pages that must be written before low, directly or not.
Above(low) ==
    LET Closed(S) == Higher(low) \subseteq S /\ \A p \in S : Higher(p) \subseteq S
    IN  {h \in Pages : \A S \in SUBSET Pages : Closed(S) => h \in S}

\* Mutant: pages related the other way round are taken for related.
related_both(low, high) == high \in Above(low) \/ low \in Above(high)

\* related(low, high) = PRE_EXISTS: the walk from low meets high.
related(low, high) == high \in Above(low)

\* related(low, ...) = PRE_UNKNOWN: the walk may see too many blocks first.
TooComplex(low) ==
    Cardinality({i \in DOMAIN blocks : Linked(i) /\ blocks[i].pre_low \in Above(low) \union {low}})
        >= PRE_SEARCH_LIMIT

\* Mutant: no repost of the locks that wait for the page.
clear_precedence_quiet(p) ==
    /\ Unlink({i \in DOMAIN blocks : blocks[i].pre_hi = p})
    /\ UNCHANGED posted

\* clear_precedence: p is on disk, the pages below no longer wait for it, and
\* the locks whose downgrade had been put off for p are reposted.
clear_precedence(p) ==
    /\ Unlink({i \in DOMAIN blocks : blocks[i].pre_hi = p})
    /\ posted' = IF Exclusive THEN posted ELSE posted \union (Lower(p) \intersect blocking)

\* purgePrecedence.
Purge(p) == Unlink({i \in DOMAIN blocks : blocks[i].pre_low = p /\ blocks[i].cleared})

---------------------------------------------------------------------------
(* Disk.                                                                   *)

\* write_page, under the IO lock: a page found invalid is not written, and the
\* write may fail. A page that is not dirty is on disk already.
WriteSucceeds(p) ==
    /\ p \notin not_valid
    /\ disk' = [disk EXCEPT ![p] = buf[p]]
    /\ UNCHANGED failures

WritePage(p) == IF p \in dirty THEN WriteSucceeds(p) ELSE UNCHANGED <<disk, failures>>

WriteFails(p) ==
    /\ \/ p \in not_valid /\ UNCHANGED failures
       \/ p \notin not_valid /\ incarnation + failures < MaxChanges /\ failures' = failures + 1
    /\ UNCHANGED disk

---------------------------------------------------------------------------
(* write_buffer, called by a worker. It calls itself for one page of higher *)
(* precedence after another; a call that was only made for precedence      *)
(* returns after one page, so that only the first call resumes. The IO     *)
(* lock is held from the look at the dirty flag to the write, or until a   *)
(* higher page has been chosen: no step of another thread comes between.   *)

Call(w, p, pc) ==
    [th[w] EXCEPT !.pc = pc, !.write_buffer = p, !.writing = p, !.write_pc = "start"]

Writing(w, pcs) == th[w].write_buffer # Nobody /\ th[w].write_pc \in pcs
Finished(w) == [th EXCEPT ![w].write_pc = "clear"]

\* A page that is not dirty only clears its precedence.
WriteNothing(w) ==
    /\ Writing(w, {"start"})
    /\ LET p == th[w].writing IN
       io[p] = Nobody /\ p \notin dirty
    /\ th' = Finished(w)
    /\ UNCHANGED <<data, blocking, locks, posted, latch, io, blocks, down, counts>>

Writable(w) ==
    LET p == th[w].writing IN
    /\ Writing(w, {"start", "again"})
    /\ io[p] = Nobody
    /\ th[w].write_pc = "start" => p \in dirty

\* A page of higher precedence is written first.
WriteHigher(w, h) ==
    /\ Writable(w) /\ h \in Higher(th[w].writing)
    /\ Purge(th[w].writing)
    /\ th' = [th EXCEPT ![w].writing = h, ![w].write_pc = "start"]
    /\ UNCHANGED <<data, blocking, locks, posted, latch, io, down, counts>>

\* No page of higher precedence is left: write this one. After an error every
\* call returns 0, and the caller of the first calls CCH_unwind.
WriteBuffer(w) ==
    /\ Writable(w) /\ Higher(th[w].writing) = {}
    /\ LET p == th[w].writing IN
       /\ Purge(p)
       /\ \/ /\ WritePage(p)
             /\ dirty' = dirty \ {p}
             /\ th' = Finished(w)
          \/ /\ p \in dirty /\ WriteFails(p)
             /\ UNCHANGED dirty
             /\ th' = [th EXCEPT ![w] = [Idle EXCEPT !.pc = "release", !.window = th[w].window]]
    /\ UNCHANGED <<buf, not_valid, blocking, locks, posted, latch, io, down, incarnation, lost, misled>>

\* The precedence is cleared once the IO lock has been released. After a higher
\* page the first call looks for the next.
WriteClear(w) ==
    /\ Writing(w, {"clear"})
    /\ clear_precedence(th[w].writing)
    /\ th' = [th EXCEPT ![w] =
                 IF th[w].writing = th[w].write_buffer
                 THEN [@ EXCEPT !.write_buffer = Nobody, !.writing = Nobody, !.write_pc = "start"]
                 ELSE [@ EXCEPT !.writing = th[w].write_buffer, !.write_pc = "again"]]
    /\ UNCHANGED <<data, blocking, locks, latch, io, down, counts>>

---------------------------------------------------------------------------
(* Workers.                                                                *)

At(w, pc) == th[w].write_buffer = Nobody /\ th[w].pc = pc
Go(w, pc) == [th EXCEPT ![w].pc = pc]

\* Mutant: a page found in the cache is not read again.
CCH_fetch_stale(w, p) ==
    /\ At(w, "idle") /\ latch[p] = Nobody
    /\ latch' = [latch EXCEPT ![p] = w]
    /\ th' = [th EXCEPT ![w].pc = "window", ![w].window = p]
    /\ held' = held \union {p}
    /\ UNCHANGED <<data, blocking, wanted, requests, posted, io, blocks, down, counts>>

\* CCH_fetch for write: the latch, then the page lock. A page whose lock had
\* been given up is read again.
CCH_fetch(w, p) ==
    /\ At(w, "idle") /\ latch[p] = Nobody
    /\ latch' = [latch EXCEPT ![p] = w]
    /\ th' = [th EXCEPT ![w].pc = "window", ![w].window = p]
    /\ held' = held \union {p}
    /\ IF p \in held
       THEN UNCHANGED <<buf, not_valid>>
       ELSE /\ buf' = [buf EXCEPT ![p] = disk[p]]
            /\ not_valid' = not_valid \ {p}
    /\ UNCHANGED <<disk, dirty, blocking, wanted, requests, posted, io, blocks, down, counts>>

\* check_precedence: the page in the window is about to refer to page h as it
\* is now. Whether h is dirty is read without a lock.
CCH_precedence(w, h) ==
    /\ At(w, "window") /\ h # th[w].window
    /\ th' = [th EXCEPT ![w].high = h, ![w].need = buf[h].ver,
                        ![w].pc = IF h \in dirty THEN "precedence" ELSE "ready"]
    /\ UNCHANGED <<data, blocking, locks, posted, latch, io, blocks, down, counts>>

\* A new block would close a cycle, or the graph is too complex: the page in
\* the window is written and the search made again.
WriteLow(w, low, high) ==
    /\ HasLower(low)
    /\ related(high, low) \/ TooComplex(high)
    /\ th' = [th EXCEPT ![w] = Call(w, low, "cycle")]
    /\ UNCHANGED blocks

\* Mutant: no search for a cycle.
Establish_unchecked(w, low, high) ==
    /\ Insert(high, low)
    /\ th' = Go(w, "ready")

\* The new block.
Establish(w, low, high) ==
    /\ HasLower(low) => ~ related(high, low)
    /\ Insert(high, low)
    /\ th' = Go(w, "ready")

\* The two searches of check_precedence, under bcb_syncPrecedence: the pages are
\* related already, or the graph is too complex and the high page is written
\* instead, or the second search is made. It is made again after WriteLow.
CheckPrecedence(w) ==
    /\ LET low == th[w].window
           high == th[w].high
       IN  \/ /\ At(w, "precedence") /\ related(low, high)
              /\ th' = Go(w, "ready")
              /\ UNCHANGED blocks
           \/ /\ At(w, "precedence") /\ HasLower(high) /\ TooComplex(low)
              /\ th' = [th EXCEPT ![w] = Call(w, high, "ready")]
              /\ UNCHANGED blocks
           \/ /\ At(w, "cycle") \/ (At(w, "precedence") /\ ~ related(low, high))
              /\ WriteLow(w, low, high) \/ Establish(w, low, high)
    /\ UNCHANGED <<data, blocking, locks, posted, latch, io, down, counts>>

\* CCH_mark and the modification, under the IO lock until the release.
CCH_mark(w) ==
    /\ At(w, "window") \/ At(w, "ready")
    /\ LET p == th[w].window
           h == th[w].high
           reference == IF h = Nobody THEN buf[p].needs
                        ELSE [buf[p].needs EXCEPT ![h] = th[w].need]
       IN
       /\ io[p] = Nobody /\ incarnation + failures < MaxChanges
       /\ io' = [io EXCEPT ![p] = w]
       /\ incarnation' = incarnation + 1
       /\ buf' = [buf EXCEPT ![p] = [ver |-> incarnation + 1, needs |-> reference]]
       /\ dirty' = dirty \union {p}
    /\ th' = [th EXCEPT ![w].pc = "marked", ![w].high = Nobody, ![w].need = 0]
    /\ UNCHANGED <<disk, not_valid, blocking, locks, posted, latch, blocks, down, failures, lost, misled>>

\* CCH_release of a modified page: the mark and the IO lock go first, and a page
\* that must be written is written before the latch is released.
CCH_release(w) ==
    /\ At(w, "marked")
    /\ LET p == th[w].window IN
       /\ io' = [io EXCEPT ![p] = Nobody]
       /\ \E next \in {Go(w, "release"), [th EXCEPT ![w] = Call(w, p, "release")]} : th' = next
    /\ UNCHANGED <<data, blocking, locks, posted, latch, blocks, down, counts>>

\* BufferDesc::release unlocks the latch, and only then looks whether a blocking
\* AST found the page latched.
Unlatch(w) ==
    /\ \E pc \in {"window", "ready", "release"} : At(w, pc)
    /\ latch' = [latch EXCEPT ![th[w].window] = Nobody]
    /\ th' = [th EXCEPT ![w] = [Idle EXCEPT !.pc = "repost", !.window = th[w].window]]
    /\ UNCHANGED <<data, blocking, locks, posted, io, blocks, down, counts>>

Repost(w) ==
    /\ At(w, "repost")
    /\ LET p == th[w].window IN
       posted' = IF ~ Exclusive /\ latch[p] = Nobody /\ p \in blocking
                 THEN posted \union {p} ELSE posted
    /\ th' = [th EXCEPT ![w] =
                 [Idle EXCEPT !.pc = IF th[w].todo = {} THEN "idle" ELSE "flush",
                              !.todo = th[w].todo, !.rest = th[w].rest,
                              !.found = th[w].found, !.writeAll = th[w].writeAll]]
    /\ UNCHANGED <<data, blocking, locks, latch, io, blocks, down, counts>>

\* flushDirty: the pages of some transaction.
FlushDirty(w, S) ==
    /\ At(w, "idle") /\ S # {} /\ S \subseteq dirty
    /\ th' = [th EXCEPT ![w] = [Idle EXCEPT !.pc = "flush", !.todo = S, !.rest = S]]
    /\ UNCHANGED <<data, blocking, locks, posted, latch, io, blocks, down, counts>>

\* flushPages: a page with no higher page is written, and every page once a
\* pass has found none of these.
FlushPage(w, p) ==
    /\ At(w, "flush") /\ p \in th[w].rest /\ latch[p] = Nobody
    /\ latch' = [latch EXCEPT ![p] = w]
    /\ IF th[w].writeAll THEN UNCHANGED blocks ELSE Purge(p)
    /\ th' = [th EXCEPT ![w] =
                 IF th[w].writeAll \/ Higher(p) = {}
                 THEN [Call(w, p, "flushing") EXCEPT !.window = p]
                 ELSE [@ EXCEPT !.pc = "skip", !.window = p]]
    /\ UNCHANGED <<data, blocking, locks, posted, io, down, counts>>

\* The page is written: its latch is released, with a repost unless it has
\* been modified again.
FlushWritten(w) ==
    /\ At(w, "flushing")
    /\ LET p == th[w].window IN
       /\ th' = [th EXCEPT ![w].pc = IF p \in dirty THEN "flush" ELSE "repost",
                           ![w].window = IF p \in dirty THEN Nobody ELSE p,
                           ![w].todo = @ \ {p}, ![w].rest = @ \ {p}, ![w].found = TRUE]
       /\ latch' = [latch EXCEPT ![p] = Nobody]
    /\ UNCHANGED <<data, blocking, locks, posted, io, blocks, down, counts>>

\* The page has to wait for the next pass: its latch is released without a repost.
FlushSkip(w) ==
    /\ At(w, "skip")
    /\ LET p == th[w].window IN
       /\ latch' = [latch EXCEPT ![p] = Nobody]
       /\ th' = [th EXCEPT ![w].pc = "flush", ![w].window = Nobody, ![w].rest = @ \ {p}]
    /\ UNCHANGED <<data, blocking, locks, posted, io, blocks, down, counts>>

\* End of a pass, or of the flush.
FlushPass(w) ==
    /\ At(w, "flush") /\ th[w].rest = {}
    /\ th' = [th EXCEPT ![w] =
                 IF th[w].todo = {} THEN Idle
                 ELSE [@ EXCEPT !.rest = th[w].todo, !.found = FALSE,
                                !.writeAll = th[w].writeAll \/ ~ th[w].found]]
    /\ UNCHANGED <<data, blocking, locks, posted, latch, io, blocks, down, counts>>

---------------------------------------------------------------------------
(* Other processes, seen through the lock manager.                         *)

\* Another process asks for a page and a blocking AST is posted.
Request(p) ==
    /\ ~ Exclusive /\ p \in held \ wanted /\ requests < MaxRequests
    /\ requests' = requests + 1
    /\ wanted' = wanted \union {p}
    /\ posted' = posted \union {p}
    /\ UNCHANGED <<data, blocking, held, latch, io, blocks, th, down, counts>>

\* It modifies a page whose lock this process does not hold.
OtherUpdate(p) ==
    /\ ~ Exclusive /\ p \notin held /\ incarnation + failures < MaxChanges
    /\ incarnation' = incarnation + 1
    /\ disk' = [disk EXCEPT ![p].ver = incarnation + 1]
    /\ UNCHANGED <<buf, dirty, not_valid, blocking, locks, posted, latch, io, blocks, th, down,
                   failures, lost, misled>>

\* LCK_downgrade gives up what somebody waits for, PAGE_LOCK_RELEASE everything.
LCK_downgrade(p) ==
    /\ held' = held \ ({p} \intersect wanted)
    /\ wanted' = wanted \ {p}
    /\ UNCHANGED requests

PAGE_LOCK_RELEASE(p) ==
    /\ held' = held \ {p}
    /\ wanted' = wanted \ {p}
    /\ UNCHANGED requests

---------------------------------------------------------------------------
(* down_grade, run for a blocking AST.                                     *)

\* A call sets BDB_blocking and remembers whether it was set.
down_grade(p, high) ==
    [page |-> p, high |-> high, oldBlocking |-> p \in blocking, justWrite |-> FALSE,
     invalid |-> FALSE, precedence |-> 0, blocking_bdb |-> Nobody, pc |-> "latch"]

DownAt(pc) == down # <<>> /\ Head(down).pc = pc
bdb == Head(down).page
justWrite == Head(down).justWrite
DownGo(pc) == down' = <<[Head(down) EXCEPT !.pc = pc]>> \o Tail(down)
DownReturn == down' = Tail(down)

\* The IO lock is recursive: an outer activation may hold it for the same page.
IOFree(p) == io[p] \in {Nobody, Ast}
UnlockIO(p) ==
    LET again == \E i \in DOMAIN down : i > 1 /\ down[i].page = p /\ down[i].justWrite
    IN  io' = IF again THEN io ELSE [io EXCEPT ![p] = Nobody]

\* blocking_ast_bdb.
BlockingAst(p) ==
    /\ down = <<>> /\ p \in posted
    /\ posted' = posted \ {p}
    /\ blocking' = blocking \union {p}
    /\ down' = <<down_grade(p, FALSE)>>
    /\ UNCHANGED <<data, locks, latch, io, blocks, th, counts>>

Examine(just) ==
    down' = <<[Head(down) EXCEPT !.pc = "higher", !.invalid = bdb \in not_valid,
                                 !.justWrite = just]>> \o Tail(down)

\* Mutant: a clean page is given up without a look at its latch.
DownLatch_quiet ==
    /\ DownAt("latch")
    /\ \/ /\ latch[bdb] = Nobody /\ bdb \in dirty
          /\ latch' = [latch EXCEPT ![bdb] = Ast]
          /\ Examine(FALSE)
          /\ UNCHANGED <<blocking, locks>>
       \/ /\ bdb \notin dirty
          /\ blocking' = blocking \ {bdb}
          /\ LCK_downgrade(bdb)
          /\ DownReturn
          /\ UNCHANGED latch
    /\ UNCHANGED <<data, posted, io, blocks, th, counts>>

\* A page in use is left to its user, unless a lower page waits for it. A page
\* that is not, and is clean, is given up quietly.
DownLatch ==
    /\ DownAt("latch")
    /\ \/ /\ latch[bdb] # Nobody
          /\ IF Head(down).high THEN DownGo("io") ELSE DownReturn
          /\ UNCHANGED <<blocking, locks, latch>>
       \/ /\ latch[bdb] = Nobody /\ bdb \in dirty
          /\ latch' = [latch EXCEPT ![bdb] = Ast]
          /\ Examine(FALSE)
          /\ UNCHANGED <<blocking, locks>>
       \/ /\ latch[bdb] = Nobody /\ bdb \notin dirty
          /\ blocking' = blocking \ {bdb}
          /\ LCK_downgrade(bdb)
          /\ DownReturn
          /\ UNCHANGED latch
    /\ UNCHANGED <<data, posted, io, blocks, th, counts>>

\* A page in use that a lower page waits for is written as it is, under the IO
\* lock, and its own lock does not change.
DownIO ==
    /\ DownAt("io") /\ IOFree(bdb)
    /\ IF bdb \in dirty
       THEN /\ io' = [io EXCEPT ![bdb] = Ast]
            /\ blocking' = IF Head(down).oldBlocking THEN blocking ELSE blocking \ {bdb}
            /\ Examine(TRUE)
       ELSE UNCHANGED <<io, blocking>> /\ DownReturn
    /\ UNCHANGED <<data, locks, posted, latch, blocks, th, counts>>

MarkCleared(S) ==
    blocks' = [i \in DOMAIN blocks |-> [blocks[i] EXCEPT !.cleared = @ \/ i \in S]]

\* Higher pages are written first; those of an invalid page do not matter.
DownHigher ==
    /\ DownAt("higher")
    /\ \/ /\ Head(down).invalid
          /\ MarkCleared({i \in DOMAIN blocks : blocks[i].pre_low = bdb})
          /\ DownGo("write")
          /\ UNCHANGED blocking
       \/ /\ ~ Head(down).invalid /\ Higher(bdb) \intersect dirty = {}
          /\ DownGo("write")
          /\ UNCHANGED <<blocking, blocks>>
       \/ \E i \in DOMAIN blocks :
             LET h == blocks[i].pre_hi IN
             /\ ~ Head(down).invalid
             /\ Waits(i) /\ blocks[i].pre_low = bdb /\ h \in dirty
             /\ blocking' = blocking \union {h}
             /\ down' = <<down_grade(h, TRUE),
                          [Head(down) EXCEPT !.pc = "back", !.precedence = i,
                                             !.blocking_bdb = h]>> \o Tail(down)
             /\ UNCHANGED blocks
    /\ UNCHANGED <<data, locks, posted, latch, io, th, counts>>

Leave ==
    /\ IF justWrite THEN UnlockIO(bdb) /\ UNCHANGED latch
                    ELSE latch' = [latch EXCEPT ![bdb] = Nobody] /\ UNCHANGED io
    /\ DownReturn

\* Back from a higher page: when it is still dirty this one has to wait. The
\* flag is read in whatever the precedence block is by now.
DownBack ==
    /\ DownAt("back")
    /\ LET h == Head(down).blocking_bdb
           precedence == blocks[Head(down).precedence]
       IN  IF h \in dirty /\ ~ precedence.cleared /\ h \notin not_valid
           THEN /\ Leave
                /\ misled' = IF precedence.pre_hi = h /\ precedence.pre_low = bdb
                             THEN misled ELSE misled \union {bdb}
           ELSE /\ down' = <<[Head(down) EXCEPT !.pc = "higher", !.precedence = 0,
                                 !.blocking_bdb = Nobody,
                                 !.invalid = @ \/ h \in not_valid]>> \o Tail(down)
                /\ UNCHANGED <<latch, io, misled>>
    /\ UNCHANGED <<data, blocking, locks, posted, blocks, th, incarnation, failures, lost>>

\* The page is on disk: the lock is reduced, unless the page is in use.
Reduce ==
    /\ UNCHANGED <<not_valid, lost>>
    /\ IF justWrite THEN UNCHANGED <<blocking, locks>>
       ELSE blocking' = blocking \ {bdb} /\ LCK_downgrade(bdb)

\* The page could not be written: its changes are given up, the transactions that
\* made them are invalidated (TRA_invalidate) and the lock is released.
GiveUp ==
    /\ not_valid' = not_valid \union {bdb}
    /\ lost' = [lost EXCEPT ![bdb] = IF @ < buf[bdb].ver THEN buf[bdb].ver ELSE @]
    /\ blocking' = blocking \ {bdb}
    /\ PAGE_LOCK_RELEASE(bdb)

DownWrite ==
    /\ DownAt("write") /\ IOFree(bdb)
    /\ \/ WritePage(bdb) /\ ~ Head(down).invalid /\ Reduce
       \/ /\ \/ bdb \in dirty /\ WriteFails(bdb)
             \/ WritePage(bdb) /\ Head(down).invalid
          /\ GiveUp
    /\ dirty' = dirty \ {bdb}
    /\ DownGo("lower")
    /\ UNCHANGED <<buf, posted, latch, io, blocks, th, incarnation, misled>>

\* The blocks below are marked as cleared, one after the other; a lower page
\* that is blocking, or invalid because this one is, is down graded in turn.
DownLower(l) ==
    /\ DownAt("lower") /\ l \in Lower(bdb)
    /\ not_valid' = IF bdb \in not_valid THEN not_valid \union {l} ELSE not_valid
    /\ MarkCleared({i \in DOMAIN blocks : blocks[i].pre_hi = bdb /\ blocks[i].pre_low = l})
    /\ IF l \in not_valid' \union blocking
       THEN blocking' = blocking \union {l} /\ down' = <<down_grade(l, FALSE)>> \o down
       ELSE UNCHANGED <<blocking, down>>
    /\ UNCHANGED <<disk, buf, dirty, locks, posted, latch, io, th, counts>>

DownLeave ==
    /\ DownAt("lower") /\ Lower(bdb) = {}
    /\ not_valid' = not_valid \ {bdb}
    /\ Leave
    /\ UNCHANGED <<disk, buf, dirty, blocking, locks, posted, blocks, th, counts>>

---------------------------------------------------------------------------

WriteStep(w) ==
    \/ WriteNothing(w) \/ WriteBuffer(w) \/ WriteClear(w)
    \/ \E h \in Pages : WriteHigher(w, h)

ClientStep(w) ==
    \/ \E p \in Pages : CCH_fetch(w, p) \/ CCH_precedence(w, p)
    \/ CheckPrecedence(w) \/ CCH_mark(w) \/ CCH_release(w)
    \/ Unlatch(w) \/ Repost(w)

FlushStep(w) ==
    \/ \E S \in SUBSET Pages : FlushDirty(w, S)
    \/ \E p \in Pages : FlushPage(w, p)
    \/ FlushWritten(w) \/ FlushSkip(w) \/ FlushPass(w)

AstStep ==
    \/ \E p \in Pages : BlockingAst(p)
    \/ DownLatch \/ DownIO \/ DownHigher \/ DownBack \/ DownWrite \/ DownLeave
    \/ \E l \in Pages : DownLower(l)

OtherStep == \E p \in Pages : Request(p) \/ OtherUpdate(p)

Next ==
    \/ \E w \in Workers : WriteStep(w) \/ ClientStep(w) \/ FlushStep(w)
    \/ AstStep
    \/ OtherStep

Spec == Init /\ [][Next]_vars

---------------------------------------------------------------------------
(* Properties.                                                             *)

\* Careful write: a page on disk never relies on a version of another page that
\* is not on disk yet. Only changes that were given up after a failed write, with
\* the transactions that made them, may be missing.
CarefulWrite ==
    \A l, h \in Pages :
       \/ disk[l].needs[h] <= disk[h].ver
       \/ disk[l].needs[h] <= lost[h]

\* A page that is not dirty, and whose lock is held, is the page on disk: no
\* write, downgrade or flush loses or anticipates a modification.
CleanOnDisk == \A p \in held \ dirty : buf[p] = disk[p]

\* The changes of a page stay under its lock until they are written, so that
\* no other process works on an older version, except after a failed write.
DirtyLocked == \A p \in dirty \ held : lost[p] # 0

\* The precedence graph has no cycle: every page can be written some time.
Acyclic == \A p \in Pages : p \notin Above(p)

\* A page lock somebody waits for is never forgotten: its blocking AST is posted
\* or at work, or it was put off and there is a thread, or a higher page still to
\* be written, that will post it again.
NeverForgotten ==
    \A p \in wanted \ misled :
       \/ p \in posted
       \/ \E i \in DOMAIN down : down[i].page = p
       \/ /\ p \in blocking
          /\ \/ latch[p] \in Workers
             \/ \E w \in Workers : \/ th[w].pc = "repost" /\ th[w].window = p
                                   \/ p \in th[w].todo
             \/ \E h \in Higher(p) :
                   \/ h \in dirty
                   \/ \E w \in Workers : Writing(w, {"clear"}) /\ th[w].writing = h
                   \/ \E i \in DOMAIN down : down[i].page = h
=============================================================================
