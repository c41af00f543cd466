------------------------ MODULE PhysicalBackupProofs ------------------------
(***************************************************************************)
(* Invariants of PhysicalBackup for any number of processes and pages.     *)
(*                                                                         *)
(* The inductive invariant has three layers: the types and the shape of    *)
(* every thread and manager (Typed), what the state lock promises          *)
(* (LocksOK), and what tables, buffers and files hold (ContentsOK).  Lemma *)
(* XIs says what action X does to one part of the state; XTyped, XLocks    *)
(* and XContents say that it keeps the layer.                              *)
(***************************************************************************)
EXTENDS PhysicalBackup, SequenceTheorems, TLAPS

-----------------------------------------------------------------------------
(* The thread of a process.                                                *)

\* Where the thread is, or will be when it has the state lock.
Stage(t) == IF t.pc = "locking" THEN t.next ELSE t.pc

\* Where lockStateRead returns to.
Returns == {"f_read", "m_mark", "g_read", "e_check", "e_alloc", "e_mark", "a_alloc"}

\* Inside a StateWriteGuard; with the header page; changing or checking the state.
Writing == {"g_read", "g_held", "g_lock", "g_locked"}
Making == Writing \union {"g_flush", "e_check", "e_guard", "e_alloc", "e_merge", "e_page", "e_mark"}

\* With a page; with its contents.
Latched == Writing \union {"f_read", "held", "m_mark", "e_page", "e_mark"}
Loaded == Latched \ {"f_read", "g_read"}

ThreadOK(t) ==
    /\ t.pc = "locking" => t.next \in Returns
    /\ (Stage(t) \in Latched) <=> (t.page # None)
    /\ Stage(t) \in Loaded => t.buf # None
    /\ Stage(t) \in Writing => t.page = HeaderPage

\* The table is there as long as its lock is held.
AllocOK(b) == b.alloc_physical # "none" => b.alloc_table # None

\* A holder told to step down has somebody who will see to it.
SeenTo(p) ==
    rw[p].seen /\ rw[p].lck_physical # "none" =>
        \/ p \in ast
        \/ bm[p].stateBlocking
        \/ rw[p].blocking /\ (rw[p].currentWriter \/ rw[p].want # "none")

Shape == \A p \in Processes : ThreadOK(th[p]) /\ AllocOK(bm[p]) /\ SeenTo(p)

-----------------------------------------------------------------------------
(* The state lock.                                                         *)

\* Nobody waits twice.
NoDuplicates(q) == \A i, j \in DOMAIN q : q[i] = q[j] => i = j

\* What process p asks for follows from where its thread is; it knows the state just
\* as long as it has the lock and asks for nothing.
LockOK(p) ==
    /\ (rw[p].want = "read") <=> At(p, "locking")
    /\ (rw[p].want = "write") <=> At(p, "g_lock")
    /\ rw[p].currentWriter <=> At(p, "g_locked")
    /\ At(p, "g_locked") => rw[p].lck_physical = "write"
    /\ p \in ToSet(queue) => rw[p].want # "none" /\ rw[p].lck_physical = "none"
    /\ rw[p].want # "none" /\ p \notin ToSet(queue) => rw[p].lck_physical = rw[p].want
    /\ rw[p].blocking => th[p].pc \in LocalWrite
    /\ (bm[p].backup_state # "unknown") <=> (rw[p].want = "none" /\ rw[p].lck_physical # "none")
    /\ bm[p].backup_state # "unknown" =>
          bm[p].backup_state = hdr.mode /\ bm[p].current_scn = hdr.scn
    /\ Stage(th[p]) \in Writing => DirtyPages(p) = {}
    /\ Stage(th[p]) \in Making => bm[p].master
    /\ LocalReaders(p) /\ ~ At(p, "locking") => bm[p].backup_state # "unknown"
    /\ At(p, "locking") => DirtyPages(p) = {}

Compatible ==
    \A p, q \in Processes :
        p # q /\ rw[p].lck_physical = "write" => rw[q].lck_physical = "none"

LocksOK ==
    /\ NoDuplicates(queue)
    /\ \A p \in Processes : LockOK(p)
    /\ Compatible

\* At most one process begins or ends a backup.
OneMaster == \A p, q \in Processes : bm[p].master /\ bm[q].master => p = q

-----------------------------------------------------------------------------
(* The contents, when process m makes all backups and only m dies.         *)

OneMaker(m) == Operators \subseteq {m} \X Nat /\ Mortal \subseteq {m}

\* actualizeState would keep the table of b, when header h is found.
Fresh(b, h) == h.mode # "normal" /\ h.scn <= b.current_scn + 1

\* What manager b of process p remembers of the allocation table T under header h.
TableFor(m, p, b, h, T) ==
    /\ b.current_scn <= h.scn
    /\ h.mode = "normal" /\ b.current_scn = h.scn => b.alloc_table = None
    /\ Fresh(b, h) => Known(b) \subseteq T
    /\ Fresh(b, h) /\ b.alloc_physical # "none" => Known(b) = T
    /\ Fresh(b, h) /\ h.mode = "merge" /\ b.allocIsValid => Known(b) = T
    /\ Fresh(b, h) /\ h.mode = "stalled" /\ b.allocIsValid /\ b.alloc_table # None =>
          b.alloc_physical # "none"
    /\ p # m => (b.allocIsValid => b.alloc_physical # "none")
    /\ p = m => b.current_scn = h.scn \/ (b.alloc_table = None /\ ~ b.allocIsValid)

TablesOK(m) == \A p \in Processes : TableFor(m, p, bm[p], hdr, table)

\* Page pg, dirty in process p.
DirtyOK(p, pg) ==
    LET d == dirty[p][pg]
    IN  /\ latest[pg] <= d.v /\ d.v <= version[pg] /\ d.scn = hdr.scn
        /\ hdr.mode = "normal" => ~ d.diff
        /\ hdr.mode # "normal" => (d.diff <=> pg \in table)
        /\ hdr.mode = "stalled" => pg \in table
        /\ \A q \in Processes \ {p} : dirty[q][pg] = None

AllDirtyOK == \A p \in Processes, pg \in Pages : dirty[p][pg] # None => DirtyOK(p, pg)

\* The page of a thread is nobody else's, and it has the last version.
FetchedOK(p) ==
    LET pg == th[p].page
    IN  /\ \A q \in Processes : dirty[q][pg] = None /\ (q # p => th[q].page # pg)
        /\ Stage(th[p]) \in Loaded => th[p].buf.v = latest[pg]

AllFetchedOK == \A p \in Processes : th[p].page # None => FetchedOK(p)

\* The files have the last version of every page, and none from the future.
FilesCurrent ==
    /\ DiskCurrent
    /\ \A pg \in Pages : latest[pg] <= version[pg]
    /\ \A pg \in Pages : delta[pg] # None => delta[pg].scn <= hdr.scn

InMain(pg) == main[pg].v = latest[pg]

\* The thread of the maker between the second change of the state and the third.
Merging(t) ==
    \/ Stage(t) \in {"e_guard", "e_alloc", "e_merge", "e_page", "e_mark"}
    \/ Stage(t) \in Writing \union {"g_flush"} /\ t.op = "end3"

\* What the merge of thread t, in process m, has come to.
MergedBy(m, t) ==
    /\ hdr.mode = "merge"
    /\ \A pg \in Pages : delta[pg] # None /\ delta[pg].scn = hdr.scn => InMain(pg)
    /\ Stage(t) \in {"e_merge", "e_page", "e_mark"} =>
          \A pg \in Pages \ t.todo : InMain(pg) \/ dirty[m][pg] # None
    /\ Stage(t) = "e_page" /\ t.buf.scn = hdr.scn => InMain(t.page)
    /\ t.op = "end3" => \A pg \in Pages : InMain(pg)

MergeOK(m) == Merging(th[m]) => MergedBy(m, th[m])

\* Only m makes backups, dies and attaches: only its thread is found there.
Makers == Making \union {"out", "a_alloc", "a_recover"}

MakersOK(m) ==
    /\ \A p \in Processes \ {m} : ~ bm[p].master /\ Stage(th[p]) \notin Makers
    /\ Stage(th[m]) = "e_check" => th[m].op # "end3"

ContentsOK(m) ==
    MakersOK(m) /\ TablesOK(m) /\ AllDirtyOK /\ AllFetchedOK /\ FilesCurrent /\ MergeOK(m)

-----------------------------------------------------------------------------
(* The queue of the state lock.                                            *)

\* A new request is the last.
LEMMA AppendQueue ==
  ASSUME NEW S, NEW q \in Seq(S), NEW x \in S, x \notin ToSet(q), NoDuplicates(q)
  PROVE  /\ Append(q, x) \in Seq(S) /\ NoDuplicates(Append(q, x))
         /\ ToSet(Append(q, x)) = ToSet(q) \union {x}
<1> DEFINE a == Append(q, x)
           n == Len(q)
<1>1. n \in Nat /\ DOMAIN q = 1 .. n
  OBVIOUS
<1>2. a \in Seq(S) /\ DOMAIN a = 1 .. (n + 1) /\ a[n + 1] = x /\ \A i \in 1 .. n : a[i] = q[i]
  OBVIOUS
<1> HIDE DEF a, n
<1>3. \A i \in 1 .. n : q[i] # x
  BY <1>1 DEF ToSet
<1>4. ASSUME NEW i \in DOMAIN a, NEW j \in DOMAIN a, a[i] = a[j]
      PROVE  i = j
  <2>1. CASE i \in 1 .. n /\ j \in 1 .. n
    BY <2>1, <1>1, <1>2, <1>4 DEF NoDuplicates
  <2>2. CASE i = n + 1 \/ j = n + 1
    BY <2>2, <1>1, <1>2, <1>3, <1>4
  <2> QED BY <2>1, <2>2, <1>1, <1>2
<1>5. ToSet(a) = ToSet(q) \union {x}
  <2>1. ASSUME NEW y \in ToSet(q) PROVE y \in ToSet(a)
    BY <1>1, <1>2 DEF ToSet
  <2>2. x \in ToSet(a)
    BY <1>1, <1>2 DEF ToSet
  <2>3. ASSUME NEW y \in ToSet(a) PROVE y \in ToSet(q) \union {x}
    <3>1. PICK i \in 1 .. (n + 1) : y = a[i]
      BY <1>2 DEF ToSet
    <3> QED BY <3>1, <1>1, <1>2 DEF ToSet
  <2> QED BY <2>1, <2>2, <2>3
<1> QED BY <1>2, <1>4, <1>5 DEF a, NoDuplicates

\* The request granted leaves the queue.
LEMMA TailQueue ==
  ASSUME NEW S, NEW q \in Seq(S), q # <<>>
  PROVE  /\ Tail(q) \in Seq(S) /\ Head(q) \in ToSet(q)
         /\ ToSet(Tail(q)) \subseteq ToSet(q) /\ ToSet(q) \subseteq ToSet(Tail(q)) \union {Head(q)}
         /\ NoDuplicates(q) => NoDuplicates(Tail(q)) /\ Head(q) \notin ToSet(Tail(q))
<1> DEFINE a == Tail(q)
           n == Len(q)
<1>1. n \in Nat \ {0} /\ DOMAIN q = 1 .. n /\ Head(q) = q[1]
  OBVIOUS
<1>2. a \in Seq(S) /\ DOMAIN a = 1 .. (n - 1) /\ \A i \in 1 .. (n - 1) : a[i] = q[i + 1]
  OBVIOUS
<1> HIDE DEF a, n
<1>3. Head(q) \in ToSet(q)
  BY <1>1 DEF ToSet
<1>4. ToSet(a) \subseteq ToSet(q)
  BY <1>1, <1>2 DEF ToSet
<1>5. ASSUME NoDuplicates(q), NEW i \in DOMAIN a, NEW j \in DOMAIN a, a[i] = a[j]
      PROVE  i = j
  <2>1. i + 1 \in DOMAIN q /\ j + 1 \in DOMAIN q /\ q[i + 1] = q[j + 1] /\ i \in Nat /\ j \in Nat
    BY <1>1, <1>2, <1>5
  <2>2. i + 1 = j + 1
    BY <2>1, <1>5 DEF NoDuplicates
  <2> QED BY <2>1, <2>2
<1>6. ASSUME NoDuplicates(q), Head(q) \in ToSet(a)
      PROVE  FALSE
  <2>1. PICK i \in 1 .. (n - 1) : a[i] = q[1]
    BY <1>1, <1>2, <1>6 DEF ToSet
  <2>2. i + 1 \in DOMAIN q /\ 1 \in DOMAIN q /\ q[i + 1] = q[1] /\ i \in Nat \ {0}
    BY <2>1, <1>1, <1>2
  <2>3. i + 1 = 1
    BY <2>2, <1>6 DEF NoDuplicates
  <2> QED BY <2>2, <2>3
<1>7. ASSUME NEW x \in ToSet(q), x # Head(q)
      PROVE  x \in ToSet(a)
  <2>1. PICK i \in 1 .. n : q[i] = x
    BY <1>1 DEF ToSet
  <2>2. i - 1 \in 1 .. (n - 1) /\ a[i - 1] = q[(i - 1) + 1] /\ (i - 1) + 1 = i
    BY <2>1, <1>1, <1>2, <1>7
  <2> QED BY <2>1, <2>2, <1>2 DEF ToSet
<1> QED BY <1>2, <1>3, <1>4, <1>5, <1>6, <1>7 DEF a, NoDuplicates

\* The request of a process that dies leaves a queue without duplicates.
LEMMA WithoutQueue ==
  ASSUME queue \in Seq(Processes), NEW p \in Processes
  PROVE  /\ Without(p) \in Seq(Processes)
         /\ ToSet(Without(p)) \subseteq ToSet(queue)
         /\ ToSet(queue) \subseteq ToSet(Without(p)) \union {p}
         /\ NoDuplicates(queue) => NoDuplicates(Without(p)) /\ p \notin ToSet(Without(p))
<1>1. CASE p \notin ToSet(queue)
  BY <1>1 DEF Without
<1>2. CASE p \in ToSet(queue)
  <2> DEFINE q == queue
             k == CHOOSE i \in DOMAIN q : q[i] = p
             n == Len(q)
             b == SubSeq(q, 1, k - 1)
             c == SubSeq(q, k + 1, n)
             a == [i \in 1 .. (n - 1) |-> IF i < k THEN q[i] ELSE q[i + 1]]
  <2>1. n \in Nat \ {0} /\ DOMAIN q = 1 .. n /\ q \in Seq(Processes)
    BY <1>2 DEF ToSet
  <2>2. k \in 1 .. n /\ q[k] = p
    BY <1>2, <2>1 DEF ToSet
  <2> HIDE DEF k
  <2>3. b \in Seq(Processes) /\ Len(b) = k - 1 /\ \A i \in 1 .. (k - 1) : b[i] = q[i]
    BY <2>1, <2>2
  <2>4. c \in Seq(Processes) /\ Len(c) = n - k /\ \A i \in 1 .. (n - k) : c[i] = q[k + i]
    <3>1. k + 1 \in 1 .. n + 1 /\ n \in (k + 1) - 1 .. n /\ n = Len(q)
      BY <2>1, <2>2
    <3> HIDE DEF n
    <3>2. c \in Seq(Processes) /\ Len(c) = n - (k + 1) + 1
          /\ \A i \in 1 .. n - (k + 1) + 1 : c[i] = q[(k + 1) + i - 1]
      BY <3>1, <2>1, SubSeqProperties
    <3>3. n - (k + 1) + 1 = n - k /\ \A i \in 1 .. n - k : (k + 1) + i - 1 = k + i
      BY <2>1, <2>2
    <3> QED BY <3>2, <3>3
  <2>5. Without(p) = b \o c
    BY <1>2 DEF Without, RemoveAt, k
  <2> HIDE DEF b, c, n, q
  <2>6. /\ b \o c \in Seq(Processes) /\ Len(b \o c) = n - 1
        /\ \A i \in 1 .. Len(b) + Len(c) :
              (b \o c)[i] = IF i <= Len(b) THEN b[i] ELSE c[i - Len(b)]
    <3>1. /\ b \o c \in Seq(Processes) /\ Len(b \o c) = Len(b) + Len(c)
          /\ \A i \in 1 .. Len(b) + Len(c) :
                (b \o c)[i] = IF i <= Len(b) THEN b[i] ELSE c[i - Len(b)]
      BY <2>3, <2>4, ConcatProperties
    <3>2. Len(b) + Len(c) = n - 1
      BY <2>1, <2>2, <2>3, <2>4
    <3> QED BY <3>1, <3>2
  <2>7. ASSUME NEW i \in 1 .. (n - 1) PROVE (b \o c)[i] = IF i < k THEN q[i] ELSE q[i + 1]
    <3> i \in Nat /\ i \in 1 .. Len(b) + Len(c)
      BY <2>1, <2>2, <2>3, <2>4
    <3>1. CASE i < k
      <4>1. i <= Len(b) /\ i \in 1 .. (k - 1)
        BY <3>1, <2>1, <2>2, <2>3
      <4>2. (b \o c)[i] = b[i] /\ b[i] = q[i]
        BY <4>1, <2>3, <2>6
      <4> QED BY <3>1, <4>2
    <3>2. CASE ~ (i < k)
      <4>3. ~ (i <= Len(b)) /\ i - Len(b) = i - (k - 1) /\ i - (k - 1) \in 1 .. (n - k)
        BY <3>2, <2>1, <2>2, <2>3
      <4>1. (b \o c)[i] = c[i - (k - 1)] /\ i - (k - 1) \in 1 .. (n - k)
        BY <4>3, <2>6
      <4>2. k + (i - (k - 1)) = i + 1
        BY <2>1, <2>2
      <4> QED BY <4>1, <4>2, <3>2, <2>4
    <3> QED BY <3>1, <3>2
  <2> DEFINE w == Without(p)
  <2>8. w \in Seq(Processes) /\ DOMAIN w = 1 .. (n - 1)
        /\ \A i \in 1 .. (n - 1) : w[i] = IF i < k THEN q[i] ELSE q[i + 1]
    BY <2>1, <2>5, <2>6, <2>7
  <2> HIDE DEF w, a
  <2>9. ToSet(w) \subseteq ToSet(q)
    <3> SUFFICES ASSUME NEW i \in 1 .. (n - 1) PROVE w[i] \in ToSet(q)
      BY <2>8 DEF ToSet
    <3>1. (IF i < k THEN i ELSE i + 1) \in 1 .. n /\ w[i] = q[IF i < k THEN i ELSE i + 1]
      BY <2>1, <2>2, <2>8
    <3> QED BY <3>1, <2>1 DEF ToSet
  <2>10. ASSUME NoDuplicates(q), NEW i \in DOMAIN w, NEW j \in DOMAIN w, w[i] = w[j]
         PROVE  i = j
    <3>1. i \in 1 .. (n - 1) /\ j \in 1 .. (n - 1)
      BY <2>8
    <3>2. /\ (IF i < k THEN i ELSE i + 1) \in DOMAIN q /\ (IF j < k THEN j ELSE j + 1) \in DOMAIN q
          /\ q[IF i < k THEN i ELSE i + 1] = q[IF j < k THEN j ELSE j + 1]
      BY <3>1, <2>1, <2>2, <2>8, <2>10
    <3>3. (IF i < k THEN i ELSE i + 1) = (IF j < k THEN j ELSE j + 1)
      BY <3>2, <2>10 DEF NoDuplicates
    <3> QED BY <3>1, <3>3, <2>1, <2>2
  <2>11. ASSUME NoDuplicates(q), p \in ToSet(w)
         PROVE  FALSE
    <3>1. PICK i \in 1 .. (n - 1) : w[i] = p
      BY <2>8, <2>11 DEF ToSet
    <3>2. /\ (IF i < k THEN i ELSE i + 1) \in DOMAIN q /\ k \in DOMAIN q
          /\ q[IF i < k THEN i ELSE i + 1] = q[k]
      BY <3>1, <2>1, <2>2, <2>8
    <3>3. (IF i < k THEN i ELSE i + 1) = k
      BY <3>2, <2>11 DEF NoDuplicates
    <3> QED BY <3>1, <3>3, <2>1, <2>2
  <2>12. ASSUME NEW x \in ToSet(q), x # p
         PROVE  x \in ToSet(w)
    <3>1. PICK i \in 1 .. n : q[i] = x
      BY <2>1, <2>12 DEF ToSet
    <3>2. PICK j \in Int : j = IF i < k THEN i ELSE i - 1
      BY <3>1, <2>1
    <3>3. i # k
      BY <3>1, <2>2, <2>12
    <3>4. j \in 1 .. (n - 1) /\ w[j] = q[i]
      <4>1. CASE i < k
        <5>1. j = i /\ i \in 1 .. (n - 1)
          BY <4>1, <3>1, <3>2, <2>1, <2>2
        <5> QED BY <4>1, <5>1, <2>8
      <4>2. CASE k < i
        <5>1. j = i - 1 /\ j \in 1 .. (n - 1) /\ ~ (j < k) /\ j + 1 = i
          BY <4>2, <3>1, <3>2, <2>1, <2>2
        <5> QED BY <5>1, <2>8
      <4> QED BY <4>1, <4>2, <3>1, <3>3, <2>1, <2>2
    <3> QED BY <3>1, <3>4, <2>8 DEF ToSet
  <2> QED BY <2>8, <2>9, <2>10, <2>11, <2>12 DEF w, q, NoDuplicates
<1> QED BY <1>1, <1>2

\* Who waits is a process.
LEMMA ElementOfQueue ==
  ASSUME NEW S, NEW q \in Seq(S), NEW x \in ToSet(q)
  PROVE  x \in S
<1>1. PICK i \in DOMAIN q : x = q[i]
  BY DEF ToSet
<1> QED BY <1>1
-----------------------------------------------------------------------------
(* What is done to the managers of a process.                              *)

\* Only the allocation table is concerned.
SameState(b, c) ==
    /\ c.backup_state = b.backup_state /\ c.current_scn = b.current_scn
    /\ c.master = b.master /\ c.stateBlocking = b.stateBlocking

Managers == [Processes -> Manager]

\* Manager b becomes c when the lock on the table is asked for at this level.
SteppedDown(b, c, level) ==
    /\ SameState(b, c) /\ c.alloc_table = b.alloc_table
    /\ c.alloc_physical # "none" => b.alloc_physical # "none"
    /\ c.allocIsValid => b.allocIsValid
    /\ level = "write" => c.alloc_physical = "none"
    /\ level = "write" /\ c.allocIsValid => b.alloc_physical = "none"
    /\ level = "read" /\ b.alloc_physical # "none" => c.alloc_physical # "none"

\* The lock on the table is taken away from the other processes, or reduced.
LEMMA StepDownIs ==
  ASSUME NEW B \in Managers, NEW p \in Processes, NEW level \in {"read", "write"}
  PROVE  /\ StepDown(B, p, level) \in Managers
         /\ StepDown(B, p, level)[p] = B[p]
         /\ \A q \in Processes \ {p} : SteppedDown(B[q], StepDown(B, p, level)[q], level)
<1> DEFINE new(q) ==
             IF level = "write"
             THEN [B[q] EXCEPT !.alloc_physical = "none",
                               !.allocIsValid = @ /\ B[q].alloc_physical = "none"]
             ELSE [B[q] EXCEPT !.alloc_physical = IF @ = "write" THEN "read" ELSE @]
<1>1. StepDown(B, p, level) = [q \in Processes |-> IF q = p THEN B[q] ELSE new(q)]
  BY DEF StepDown
<1>2. ASSUME NEW q \in Processes
      PROVE  new(q) \in Manager /\ SteppedDown(B[q], new(q), level)
  <2>1. PICK b \in Manager : b = B[q]
    BY DEF Managers
  <2>2. CASE level = "write"
    <3>1. PICK c : c = [b EXCEPT !.alloc_physical = "none",
                                 !.allocIsValid = b.allocIsValid /\ b.alloc_physical = "none"]
      OBVIOUS
    <3>2. new(q) = c
      BY <2>1, <2>2, <3>1
    <3>3. c \in Manager
      BY <3>1 DEF Manager, Levels
    <3>4. SameState(b, c) /\ c.alloc_table = b.alloc_table /\ c.alloc_physical = "none"
          /\ (c.allocIsValid <=> b.allocIsValid /\ b.alloc_physical = "none")
      BY <3>1 DEF Manager, SameState
    <3> QED BY <2>1, <2>2, <3>2, <3>3, <3>4 DEF SteppedDown
  <2>3. CASE level = "read"
    <3>1. PICK c : c = [b EXCEPT !.alloc_physical = IF b.alloc_physical = "write" THEN "read"
                                                    ELSE b.alloc_physical]
      OBVIOUS
    <3>2. new(q) = c
      BY <2>1, <2>3, <3>1
    <3>3. c \in Manager
      BY <3>1 DEF Manager, Levels
    <3>4. /\ SameState(b, c) /\ c.alloc_table = b.alloc_table /\ c.allocIsValid = b.allocIsValid
          /\ c.alloc_physical = IF b.alloc_physical = "write" THEN "read" ELSE b.alloc_physical
      BY <3>1 DEF Manager, SameState
    <3> QED BY <2>1, <2>3, <3>2, <3>3, <3>4 DEF SteppedDown
  <2> QED BY <2>2, <2>3
<1> HIDE DEF new
<1>3. StepDown(B, p, level) \in Managers
  BY <1>1, <1>2 DEF Managers
<1>4. \A q \in Processes \ {p} : StepDown(B, p, level)[q] = new(q)
  BY <1>1
<1> QED BY <1>1, <1>2, <1>3, <1>4

\* Known is a set of pages.
LEMMA KnownIs ==
  ASSUME NEW b \in Manager
  PROVE  /\ Known(b) \subseteq Pages
         /\ b.alloc_table # None => Known(b) = b.alloc_table
         /\ b.alloc_table = None => Known(b) = {}
BY DEF Known, Manager

\* The table is read from disk, or an empty one created.
LEMMA ActualizeAllocIs ==
  ASSUME NEW b \in Manager, NEW h \in BOOLEAN, table \in SUBSET Pages
  PROVE  LET c == actualizeAlloc(b, h)
         IN  /\ c \in Manager /\ SameState(b, c) /\ c.alloc_physical = b.alloc_physical
             /\ c.allocIsValid = h
             /\ c.alloc_table = (IF h THEN Known(b) \union table ELSE Known(b))
<1> DEFINE c == [b EXCEPT !.alloc_table = IF h THEN Known(b) \union table ELSE Known(b),
                          !.allocIsValid = h]
<1>1. actualizeAlloc(b, h) = c
  BY DEF actualizeAlloc
<1>2. Known(b) \subseteq Pages
  BY KnownIs
<1>3. c \in Manager
  BY <1>2 DEF Manager
<1>4. /\ c.alloc_physical = b.alloc_physical /\ c.allocIsValid = h /\ SameState(b, c)
      /\ c.alloc_table = (IF h THEN Known(b) \union table ELSE Known(b))
  BY DEF Manager, SameState
<1> HIDE DEF c
<1> QED BY <1>1, <1>3, <1>4

\* The table and its lock are dropped.
LEMMA DropAllocIs ==
  ASSUME NEW b \in Manager
  PROVE  LET c == DropAlloc(b)
         IN  /\ c \in Manager /\ SameState(b, c)
             /\ c.alloc_table = None /\ c.alloc_physical = "none"
             /\ (c.allocIsValid <=> b.allocIsValid /\ b.alloc_physical = "none")
<1> DEFINE c == [b EXCEPT !.alloc_table = None,
                          !.allocIsValid = b.allocIsValid /\ b.alloc_physical = "none",
                          !.alloc_physical = "none"]
<1>1. DropAlloc(b) = c
  BY DEF DropAlloc
<1>2. c \in Manager
  BY DEF Manager, Levels
<1>3. /\ c.alloc_table = None /\ c.alloc_physical = "none" /\ SameState(b, c)
      /\ (c.allocIsValid <=> b.allocIsValid /\ b.alloc_physical = "none")
  BY DEF Manager, SameState
<1> HIDE DEF c
<1> QED BY <1>1, <1>2, <1>3

\* What a lookup of a page, and what the allocation of one, leaves of the managers.
LookedUp(B, C, p) ==
    /\ C \in Managers
    /\ SameState(B[p], C[p]) /\ C[p].allocIsValid /\ C[p].alloc_physical = "read"
    /\ C[p].alloc_table = Known(B[p]) \union table
    /\ \A q \in Processes \ {p} : C[q] = StepDown(B, p, "read")[q]

LEMMA GetPageIndexIs ==
  ASSUME NEW B \in Managers, NEW p \in Processes, NEW pg \in Pages, table \in SUBSET Pages
  PROVE  \/ /\ getPageIndex(B, p, pg) = B
            /\ \/ pg \in Known(B[p]) \/ B[p].alloc_physical # "none"
               \/ B[p].backup_state = "merge" /\ B[p].allocIsValid
         \/ /\ LookedUp(B, getPageIndex(B, p, pg), p)
            /\ pg \notin Known(B[p]) /\ B[p].alloc_physical = "none"
<1>1. PICK b \in Manager : b = B[p]
  BY DEF Managers
<1>2. CASE pg \in Known(b) \/ (b.backup_state = "merge" /\ b.allocIsValid)
           \/ b.alloc_physical # "none"
  BY <1>1, <1>2 DEF getPageIndex
<1>3. CASE ~ (pg \in Known(b) \/ (b.backup_state = "merge" /\ b.allocIsValid)
              \/ b.alloc_physical # "none")
  <2>1. PICK S \in Managers : S = StepDown(B, p, "read")
    BY StepDownIs
  <2>2. PICK a \in Manager : /\ a = actualizeAlloc(b, TRUE) /\ SameState(b, a) /\ a.allocIsValid
                             /\ a.alloc_table = Known(b) \union table
    BY ActualizeAllocIs
  <2>3. PICK c : c = [a EXCEPT !.alloc_physical = "read"]
    OBVIOUS
  <2>4. c \in Manager
    BY <2>3 DEF Manager, Levels
  <2>5. SameState(b, c) /\ c.allocIsValid /\ c.alloc_physical = "read"
        /\ c.alloc_table = Known(b) \union table
    BY <2>2, <2>3 DEF Manager, SameState
  <2>6. getPageIndex(B, p, pg) = [S EXCEPT ![p] = c]
    BY <1>1, <1>3, <2>1, <2>2, <2>3 DEF getPageIndex
  <2>7. [S EXCEPT ![p] = c] \in Managers /\ [S EXCEPT ![p] = c][p] = c
        /\ \A q \in Processes \ {p} : [S EXCEPT ![p] = c][q] = S[q]
    BY <2>4 DEF Managers
  <2>8. LookedUp(B, [S EXCEPT ![p] = c], p)
    BY <1>1, <2>1, <2>5, <2>7 DEF LookedUp
  <2> QED BY <1>1, <1>3, <2>6, <2>8
<1> QED BY <1>2, <1>3

AllocatedPage(B, C, p, pg) ==
    /\ C \in Managers
    /\ SameState(B[p], C[p]) /\ C[p].alloc_physical = "write"
    /\ \/ B[p].alloc_physical = "write" /\ C[p].alloc_table = B[p].alloc_table \union {pg}
          /\ C[p].allocIsValid = B[p].allocIsValid
       \/ C[p].alloc_table = Known(B[p]) \union table \union {pg} /\ C[p].allocIsValid
    /\ \A q \in Processes \ {p} : C[q] = StepDown(B, p, "write")[q]

LEMMA AllocateIs ==
  ASSUME NEW B \in Managers, NEW p \in Processes, NEW pg \in Pages, table \in SUBSET Pages,
         AllocOK(B[p])
  PROVE  \/ allocateDifferencePage(B, p, pg) = B /\ pg \in Known(B[p])
         \/ AllocatedPage(B, allocateDifferencePage(B, p, pg), p, pg) /\ pg \notin Known(B[p])
<1>1. PICK b \in Manager : b = B[p]
  BY DEF Managers
<1> DEFINE d == IF B[p].alloc_physical = "write" THEN B[p]
                ELSE [actualizeAlloc(B[p], TRUE) EXCEPT !.alloc_physical = "write"]
<1>2. CASE pg \in Known(b)
  BY <1>1, <1>2 DEF allocateDifferencePage
<1>3. CASE pg \notin Known(b)
  <2>1. PICK S \in Managers : S = StepDown(B, p, "write")
    BY StepDownIs
  <2>2. PICK a \in Manager : /\ a = actualizeAlloc(b, TRUE) /\ SameState(b, a) /\ a.allocIsValid
                             /\ a.alloc_table = Known(b) \union table
    BY ActualizeAllocIs
  <2>3. PICK w : w = [a EXCEPT !.alloc_physical = "write"]
    OBVIOUS
  <2>4. /\ w \in Manager /\ SameState(b, w) /\ w.allocIsValid /\ w.alloc_physical = "write"
        /\ w.alloc_table = Known(b) \union table
    BY <2>2, <2>3 DEF Manager, SameState, Levels
  <2>5. PICK e \in Manager : e = d
    BY <1>1, <2>2, <2>3, <2>4
  <2>6. /\ SameState(b, e) /\ e.alloc_physical = "write" /\ e.alloc_table \in SUBSET Pages
        /\ \/ b.alloc_physical = "write" /\ e.alloc_table = b.alloc_table
              /\ e.allocIsValid = b.allocIsValid
           \/ e.alloc_table = Known(b) \union table /\ e.allocIsValid
    <3>1. CASE b.alloc_physical = "write"
      <4>1. e = b /\ b.alloc_table # None
        BY <1>1, <2>5, <3>1 DEF AllocOK
      <4> QED BY <4>1, <3>1 DEF Manager, SameState
    <3>2. CASE b.alloc_physical # "write"
      <4>1. e = w
        BY <1>1, <2>2, <2>3, <2>5, <3>2
      <4> QED BY <4>1, <2>4, KnownIs
    <3> QED BY <3>1, <3>2
  <2>7. PICK c : c = [e EXCEPT !.alloc_table = e.alloc_table \union {pg}]
    OBVIOUS
  <2>8. c \in Manager
    BY <2>6, <2>7 DEF Manager
  <2>9. SameState(e, c) /\ c.alloc_physical = e.alloc_physical /\ c.allocIsValid = e.allocIsValid
        /\ c.alloc_table = e.alloc_table \union {pg}
    BY <2>7 DEF Manager, SameState
  <2>10. allocateDifferencePage(B, p, pg) = [S EXCEPT ![p] = c]
    BY <1>1, <1>3, <2>1, <2>5, <2>7 DEF allocateDifferencePage
  <2>11. [S EXCEPT ![p] = c] \in Managers /\ [S EXCEPT ![p] = c][p] = c
         /\ \A q \in Processes \ {p} : [S EXCEPT ![p] = c][q] = S[q]
    BY <2>8 DEF Managers
  <2>12. SameState(b, c)
    BY <2>6, <2>9 DEF SameState
  <2>13. /\ c.alloc_physical = "write"
         /\ \/ b.alloc_physical = "write" /\ c.alloc_table = b.alloc_table \union {pg}
               /\ c.allocIsValid = b.allocIsValid
            \/ c.alloc_table = Known(b) \union table \union {pg} /\ c.allocIsValid
    BY <2>6, <2>9
  <2>14. AllocatedPage(B, [S EXCEPT ![p] = c], p, pg)
    BY <1>1, <2>1, <2>11, <2>12, <2>13 DEF AllocatedPage
  <2> QED BY <1>1, <1>3, <2>10, <2>14
<1> QED BY <1>2, <1>3

\* The state is read from the header page.
LEMMA ActualizeStateIs ==
  ASSUME NEW b \in Manager, hdr \in [mode : Modes, scn : Nat], AllocOK(b)
  PROVE  LET c == actualizeState(b)
         IN  /\ c \in Manager /\ AllocOK(c)
             /\ c.backup_state = hdr.mode /\ c.current_scn = hdr.scn
             /\ c.master = b.master /\ c.stateBlocking = b.stateBlocking
             /\ \/ /\ c.alloc_table = b.alloc_table /\ c.alloc_physical = b.alloc_physical
                   /\ c.allocIsValid = b.allocIsValid
                   /\ \/ b.alloc_table = None
                      \/ hdr.mode # "normal" /\ hdr.scn <= b.current_scn + 1
                \/ /\ c.alloc_table = None /\ c.alloc_physical = "none"
                   /\ (c.allocIsValid <=> b.allocIsValid /\ b.alloc_physical = "none")
                   /\ b.alloc_table # None
                   /\ hdr.mode = "normal" \/ hdr.scn > b.current_scn + 1
<1> DEFINE dropped == (hdr.mode = "normal" \/ hdr.scn - b.current_scn > 1) /\ b.alloc_table # None
<1>1. PICK d \in Manager : /\ d = DropAlloc(b) /\ SameState(b, d)
                           /\ d.alloc_table = None /\ d.alloc_physical = "none"
                           /\ (d.allocIsValid <=> b.allocIsValid /\ b.alloc_physical = "none")
  BY DropAllocIs
<1>2. PICK e \in Manager : e = IF dropped THEN d ELSE b
  OBVIOUS
<1>3. PICK f : f = [e EXCEPT !.backup_state = hdr.mode, !.current_scn = hdr.scn]
  OBVIOUS
<1>4. actualizeState(b) = f
  BY <1>1, <1>2, <1>3 DEF actualizeState
<1>5. f \in Manager
  BY <1>3 DEF Manager
<1>6. /\ f.backup_state = hdr.mode /\ f.current_scn = hdr.scn
      /\ f.master = e.master /\ f.stateBlocking = e.stateBlocking
      /\ f.alloc_table = e.alloc_table /\ f.alloc_physical = e.alloc_physical
      /\ f.allocIsValid = e.allocIsValid
  BY <1>3 DEF Manager
<1>7. CASE dropped
  <2>1. b.alloc_table # None /\ (hdr.mode = "normal" \/ hdr.scn > b.current_scn + 1)
    BY <1>7 DEF Manager
  <2>2. e = d
    BY <1>2, <1>7
  <2> QED BY <1>1, <1>4, <1>5, <1>6, <2>1, <2>2 DEF SameState, AllocOK
<1>8. CASE ~ dropped
  <2>1. e = b
    BY <1>2, <1>8
  <2>2. b.alloc_table = None \/ (hdr.mode # "normal" /\ hdr.scn <= b.current_scn + 1)
    BY <1>8 DEF Manager
  <2> QED BY <1>4, <1>5, <1>6, <2>1, <2>2 DEF AllocOK
<1> QED BY <1>7, <1>8

-----------------------------------------------------------------------------
(* Types, and what every thread, manager and lock promises by itself.      *)

FilesOK ==
    /\ hdr \in [mode : Modes, scn : Nat] /\ main \in [Pages -> Copy]
    /\ delta \in [Pages -> Copy \union {None}] /\ table \in SUBSET Pages
    /\ version \in [Pages -> Nat] /\ latest \in [Pages -> Nat] /\ deaths \in 0 .. MaxDeaths
WaitsOK ==
    /\ rw \in [Processes -> RWLock] /\ queue \in Seq(Processes)
    /\ ast \in SUBSET Processes /\ unlocking \in SUBSET Processes
    /\ endLock \in Processes \union {None}
ManagersOK == bm \in Managers /\ \A q \in Processes : AllocOK(bm[q])
DirtyTyped == dirty \in [Processes -> [Pages -> Buffer \union {None}]]
ThreadsOK == th \in [Processes -> Thread] /\ \A q \in Processes : ThreadOK(th[q])
AllSeenTo == \A q \in Processes : SeenTo(q)

Typed == FilesOK /\ WaitsOK /\ ManagersOK /\ DirtyTyped /\ ThreadsOK /\ AllSeenTo

\* This is the type of the state with the shape of its parts.
LEMMA TypedIs == Typed <=> TypeOK /\ Shape
BY DEF Typed, TypeOK, Shape, FilesOK, WaitsOK, ManagersOK, DirtyTyped, ThreadsOK, AllSeenTo, Managers

\* Parts that do not change.
LEMMA SameFiles ==
  ASSUME FilesOK, UNCHANGED <<disk, version, latest, deaths>>
  PROVE  FilesOK'
BY DEF FilesOK, disk

LEMMA SameWaits ==
  ASSUME WaitsOK, UNCHANGED <<rw, queue, ast, endLock>>,
         unlocking' = unlocking \/ \E p \in Processes : endRead(p)
  PROVE  WaitsOK'
BY DEF WaitsOK, endRead

LEMMA SameDirty ==
  ASSUME DirtyTyped, UNCHANGED dirty
  PROVE  DirtyTyped'
BY DEF DirtyTyped

LEMMA SameManagers ==
  ASSUME ManagersOK, UNCHANGED bm
  PROVE  ManagersOK'
BY DEF ManagersOK

\* One thread goes on.
LEMMA NewThreadRecord ==
  ASSUME ThreadsOK, NEW p \in Processes, NEW t \in Thread, ThreadOK(t),
         th' = [th EXCEPT ![p] = t]
  PROVE  ThreadsOK' /\ th'[p] = t /\ \A q \in Processes \ {p} : th'[q] = th[q]
<1>1. th' \in [Processes -> Thread] /\ th'[p] = t /\ \A q \in Processes \ {p} : th'[q] = th[q]
  BY DEF ThreadsOK
<1>2. ASSUME NEW q \in Processes PROVE ThreadOK(th'[q])
  <2>1. CASE q = p
    BY <1>1, <2>1
  <2>2. CASE q # p
    BY <1>1, <2>2 DEF ThreadsOK
  <2> QED BY <2>1, <2>2
<1> QED BY <1>1, <1>2 DEF ThreadsOK

\* Nothing that concerns requests to step down has changed, or only for the better.
LEMMA SameSeen ==
  ASSUME AllSeenTo,
         \A q \in Processes :
            /\ rw'[q].seen => rw[q].seen
            /\ rw'[q].lck_physical = rw[q].lck_physical
            /\ q \in ast => q \in ast'
            /\ bm[q].stateBlocking => bm'[q].stateBlocking
            /\ rw[q].blocking => rw'[q].blocking
            /\ rw[q].currentWriter => rw'[q].currentWriter
            /\ rw[q].want # "none" => rw'[q].want # "none"
  PROVE  AllSeenTo'
BY DEF AllSeenTo, SeenTo

\* The fields of a thread that are kept when it goes on at s.
LEMMA GoesOn ==
  ASSUME NEW t \in Thread, NEW s \in PCs
  PROVE  LET u == [t EXCEPT !.pc = s]
         IN  /\ u \in Thread /\ u.pc = s /\ u.next = t.next /\ u.op = t.op /\ u.page = t.page
             /\ u.buf = t.buf /\ u.todo = t.todo
BY DEF Thread

\* The thread has, or waits for, the state lock.
LEMMA LockStateReadIs ==
  ASSUME ThreadsOK, WaitsOK, NEW p \in Processes, NEW t \in Thread, NEW s \in Returns,
         lockStateRead(p, t, s)
  PROVE  \E u \in Thread :
           /\ th' = [th EXCEPT ![p] = u]
           /\ u.op = t.op /\ u.page = t.page /\ u.buf = t.buf /\ u.todo = t.todo
           /\ Stage(u) = s
           /\ \/ /\ u.pc = s /\ UNCHANGED <<rw, queue>>
                 /\ bm[p].backup_state # "unknown" \/ rw[p].lck_physical # "none"
              \/ /\ u.pc = "locking" /\ u.next = s
                 /\ bm[p].backup_state = "unknown" /\ rw[p].lck_physical = "none"
                 /\ rw' = [rw EXCEPT ![p].want = "read"]
                 /\ queue' = Append(queue, p)
<1>0. s \in PCs /\ s # "locking" /\ "locking" \in PCs
  BY DEF Returns, PCs, LocalRead, LocalWrite
<1>1. CASE bm[p].backup_state # "unknown" \/ rw[p].lck_physical # "none"
  <2>1. PICK u : u = [t EXCEPT !.pc = s]
    OBVIOUS
  <2>2. u \in Thread /\ u.pc = s /\ u.op = t.op /\ u.page = t.page /\ u.buf = t.buf /\ u.todo = t.todo
    BY <1>0, <2>1, GoesOn
  <2>3. th' = [th EXCEPT ![p] = u] /\ UNCHANGED <<rw, queue>>
    BY <1>1, <2>1 DEF lockStateRead
  <2>4. Stage(u) = s
    BY <1>0, <2>2 DEF Stage
  <2> QED BY <1>1, <2>2, <2>3, <2>4
<1>2. CASE ~ (bm[p].backup_state # "unknown" \/ rw[p].lck_physical # "none")
  <2>1. PICK u : u = [t EXCEPT !.pc = "locking", !.next = s]
    OBVIOUS
  <2>2. /\ u \in Thread /\ u.pc = "locking" /\ u.next = s
        /\ u.op = t.op /\ u.page = t.page /\ u.buf = t.buf /\ u.todo = t.todo
    BY <1>0, <2>1 DEF Thread
  <2>3. /\ th' = [th EXCEPT ![p] = u]
        /\ rw' = [rw EXCEPT ![p].want = "read"] /\ queue' = Append(queue, p)
    BY <1>2, <2>1 DEF lockStateRead
  <2>4. Stage(u) = s
    BY <2>2 DEF Stage
  <2> QED BY <1>2, <2>2, <2>3, <2>4
<1> QED BY <1>1, <1>2

\* Its record stays in shape, and so do the locks.
LEMMA LockStateReadTyped ==
  ASSUME Typed, NEW p \in Processes, NEW t \in Thread, NEW s \in Returns,
         lockStateRead(p, t, s),
         (s \in Latched) <=> (t.page # None),
         s \in Loaded => t.buf # None,
         s \in Writing => t.page = HeaderPage
  PROVE  /\ ThreadsOK'
         /\ UNCHANGED <<ast, endLock>> /\ (unlocking' = unlocking) => WaitsOK'
         /\ \A q \in Processes :
              /\ rw'[q].seen = rw[q].seen /\ rw'[q].lck_physical = rw[q].lck_physical
              /\ rw'[q].blocking = rw[q].blocking
              /\ rw'[q].currentWriter = rw[q].currentWriter
              /\ rw[q].want # "none" => rw'[q].want # "none"
<1>1. ThreadsOK /\ WaitsOK
  BY DEF Typed
<1>2. PICK u \in Thread :
           /\ th' = [th EXCEPT ![p] = u]
           /\ u.op = t.op /\ u.page = t.page /\ u.buf = t.buf /\ u.todo = t.todo
           /\ Stage(u) = s
           /\ \/ u.pc = s /\ UNCHANGED <<rw, queue>>
              \/ /\ u.pc = "locking" /\ u.next = s
                 /\ rw' = [rw EXCEPT ![p].want = "read"]
                 /\ queue' = Append(queue, p)
  BY <1>1, LockStateReadIs
<1>3. s # "locking"
  BY DEF Returns
<1>4. ThreadOK(u)
  BY <1>2, <1>3 DEF ThreadOK
<1>5. ThreadsOK'
  BY <1>1, <1>2, <1>4, NewThreadRecord
<1>6. CASE UNCHANGED <<rw, queue>>
  BY <1>1, <1>5, <1>6 DEF WaitsOK
<1>7. CASE rw' = [rw EXCEPT ![p].want = "read"] /\ queue' = Append(queue, p)
  <2>1. PICK g : g = [rw[p] EXCEPT !.want = "read"]
    OBVIOUS
  <2>2. g \in RWLock /\ g.seen = rw[p].seen /\ g.lck_physical = rw[p].lck_physical /\ g.blocking = rw[p].blocking
        /\ g.currentWriter = rw[p].currentWriter /\ g.want = "read"
    BY <1>1, <2>1 DEF WaitsOK, RWLock, Levels
  <2>3. rw' = [rw EXCEPT ![p] = g]
    BY <1>7, <2>1
  <2>4. rw' \in [Processes -> RWLock] /\ rw'[p] = g /\ \A q \in Processes \ {p} : rw'[q] = rw[q]
    BY <1>1, <2>2, <2>3 DEF WaitsOK
  <2>5. queue' \in Seq(Processes)
    BY <1>1, <1>7 DEF WaitsOK
  <2>6. \A q \in Processes :
              /\ rw'[q].seen = rw[q].seen /\ rw'[q].lck_physical = rw[q].lck_physical
              /\ rw'[q].blocking = rw[q].blocking
              /\ rw'[q].currentWriter = rw[q].currentWriter
              /\ rw[q].want # "none" => rw'[q].want # "none"
    BY <2>2, <2>4
  <2> QED BY <1>1, <1>5, <2>4, <2>5, <2>6 DEF WaitsOK
<1> QED BY <1>2, <1>6, <1>7

\* Facts that every action starts from.
LEMMA TypedParts ==
  ASSUME Typed, NEW p \in Processes
  PROVE  /\ th[p] \in Thread /\ ThreadOK(th[p]) /\ bm[p] \in Manager /\ AllocOK(bm[p])
         /\ rw[p] \in RWLock /\ SeenTo(p)
BY DEF Typed, ThreadsOK, ManagersOK, Managers, WaitsOK, AllSeenTo

\* A thread that goes for the state lock and changes nothing else.
LEMMA ForStateLock ==
  ASSUME Typed, NEW p \in Processes, NEW t \in Thread, NEW s \in Returns,
         lockStateRead(p, t, s),
         (s \in Latched) <=> (t.page # None),
         s \in Loaded => t.buf # None,
         s \in Writing => t.page = HeaderPage,
         UNCHANGED <<disk, bm, dirty, ast, unlocking, endLock, version, latest, deaths>>
  PROVE  Typed'
<1>1. /\ ThreadsOK' /\ WaitsOK'
      /\ \A q \in Processes :
              /\ rw'[q].seen = rw[q].seen /\ rw'[q].lck_physical = rw[q].lck_physical
              /\ rw'[q].blocking = rw[q].blocking
              /\ rw'[q].currentWriter = rw[q].currentWriter
              /\ rw[q].want # "none" => rw'[q].want # "none"
  BY LockStateReadTyped
<1>2. AllSeenTo'
  BY <1>1, SameSeen DEF Typed
<1>3. FilesOK' /\ ManagersOK' /\ DirtyTyped'
  BY SameFiles, SameDirty, SameManagers DEF Typed
<1> QED BY <1>1, <1>2, <1>3 DEF Typed

LEMMA FetchPageTyped ==
  ASSUME Typed, NEW p \in Processes, NEW pg \in Pages, NEW s \in {"f_read", "g_read"},
         FetchPage(p, th[p], pg, s), s = "g_read" => pg = HeaderPage,
         UNCHANGED <<disk, bm, dirty, ast, unlocking, endLock, version, latest, deaths>>
  PROVE  Typed'
<1>1. PICK t : t = [th[p] EXCEPT !.page = pg]
  OBVIOUS
<1>2. t \in Thread /\ t.page = pg
  BY <1>1, TypedParts DEF Thread
<1>3. lockStateRead(p, t, s)
  BY <1>1 DEF FetchPage
<1>4. s \in Returns /\ s \in Latched /\ s \notin Loaded /\ pg # None
      /\ (s \in Writing => pg = HeaderPage)
  BY BackupAssumption DEF Returns, Latched, Loaded, Writing
<1> QED BY <1>2, <1>3, <1>4, ForStateLock

LEMMA CCH_fetchTyped ==
  ASSUME Typed, NEW p \in Processes, CCH_fetch(p)
  PROVE  Typed'
BY FetchPageTyped DEF CCH_fetch

LEMMA GuardFetchTyped ==
  ASSUME Typed, NEW p \in Processes, GuardFetch(p)
  PROVE  Typed'
BY FetchPageTyped, BackupAssumption DEF GuardFetch

LEMMA CCH_markTyped ==
  ASSUME Typed, NEW p \in Processes, CCH_mark(p)
  PROVE  Typed'
<1>1. th[p] \in Thread /\ ThreadOK(th[p]) /\ th[p].pc = "held"
  BY TypedParts DEF CCH_mark, At
<1>2. th[p].page # None /\ th[p].buf # None
  BY <1>1 DEF ThreadOK, Stage, Latched, Loaded, Writing
<1>3. "m_mark" \in Returns /\ "m_mark" \in Latched /\ "m_mark" \notin Writing
  BY DEF Returns, Latched, Writing
<1> QED BY <1>1, <1>2, <1>3, ForStateLock DEF CCH_mark

LEMMA MergeGuardTyped ==
  ASSUME Typed, NEW p \in Processes, MergeGuard(p)
  PROVE  Typed'
<1>1. th[p] \in Thread /\ ThreadOK(th[p]) /\ th[p].pc = "e_guard"
  BY TypedParts DEF MergeGuard, At
<1>2. th[p].page = None
  BY <1>1 DEF ThreadOK, Stage, Latched, Loaded, Writing
<1>3. "e_alloc" \in Returns /\ "e_alloc" \notin Latched /\ "e_alloc" \notin Writing
      /\ "e_alloc" \notin Loaded
  BY DEF Returns, Latched, Loaded, Writing
<1> QED BY <1>1, <1>2, <1>3, ForStateLock DEF MergeGuard

LEMMA MergeMarkTyped ==
  ASSUME Typed, NEW p \in Processes, MergeMark(p)
  PROVE  Typed'
<1>1. th[p] \in Thread /\ ThreadOK(th[p]) /\ th[p].pc = "e_page"
  BY TypedParts DEF MergeMark, At
<1>2. th[p].page # None /\ th[p].buf # None
  BY <1>1 DEF ThreadOK, Stage, Latched, Loaded, Writing
<1>3. "e_mark" \in Returns /\ "e_mark" \in Latched /\ "e_mark" \notin Writing
  BY DEF Returns, Latched, Writing
<1> QED BY <1>1, <1>2, <1>3, ForStateLock DEF MergeMark

\* A thread without a page.
LEMMA NewThreadIs ==
  /\ NewThread \in Thread /\ NewThread.pc = "idle" /\ NewThread.page = None
  /\ NewThread.op = "none" /\ ThreadOK(NewThread) /\ Stage(NewThread) = "idle"
<1>1. NewThread \in Thread
  BY DEF NewThread, Thread, PCs, LocalRead, LocalWrite
<1>2. NewThread.pc = "idle" /\ NewThread.page = None /\ NewThread.op = "none"
  BY DEF NewThread
<1>3. Stage(NewThread) = "idle"
  BY <1>2 DEF Stage
<1>4. ThreadOK(NewThread)
  BY <1>2, <1>3 DEF ThreadOK, Latched, Loaded, Writing
<1> QED BY <1>1, <1>2, <1>3, <1>4

LEMMA AttachTyped ==
  ASSUME Typed, NEW p \in Processes, Attach(p)
  PROVE  Typed'
<1>1. NewThread \in Thread /\ NewThread.page = None
  BY NewThreadIs
<1>2. "a_alloc" \in Returns /\ "a_alloc" \notin Latched /\ "a_alloc" \notin Writing
      /\ "a_alloc" \notin Loaded
  BY DEF Returns, Latched, Loaded, Writing
<1> QED BY <1>1, <1>2, ForStateLock DEF Attach

\* A manager is changed, not what it says of the request to step down.
LEMMA OneManager ==
  ASSUME ManagersOK, NEW p \in Processes, NEW b \in Manager, AllocOK(b),
         bm' = [bm EXCEPT ![p] = b]
  PROVE  ManagersOK' /\ bm'[p] = b /\ \A q \in Processes \ {p} : bm'[q] = bm[q]
<1>1. bm' \in Managers /\ bm'[p] = b /\ \A q \in Processes \ {p} : bm'[q] = bm[q]
  BY DEF ManagersOK, Managers
<1>2. ASSUME NEW q \in Processes PROVE AllocOK(bm'[q])
  <2>1. CASE q = p
    BY <1>1, <2>1
  <2>2. CASE q # p
    BY <1>1, <2>2 DEF ManagersOK
  <2> QED BY <2>1, <2>2
<1> QED BY <1>1, <1>2 DEF ManagersOK

\* master is set or cleared.
LEMMA MasterIs ==
  ASSUME NEW b \in Manager, NEW x \in BOOLEAN
  PROVE  LET c == [b EXCEPT !.master = x]
         IN  /\ c \in Manager /\ c.master = x /\ c.alloc_table = b.alloc_table
             /\ c.alloc_physical = b.alloc_physical /\ c.allocIsValid = b.allocIsValid
             /\ c.backup_state = b.backup_state /\ c.current_scn = b.current_scn
             /\ c.stateBlocking = b.stateBlocking /\ (AllocOK(b) => AllocOK(c))
<1> DEFINE c == [b EXCEPT !.master = x]
<1>1. /\ c \in Manager /\ c.master = x /\ c.alloc_table = b.alloc_table
      /\ c.alloc_physical = b.alloc_physical /\ c.allocIsValid = b.allocIsValid
      /\ c.backup_state = b.backup_state /\ c.current_scn = b.current_scn
      /\ c.stateBlocking = b.stateBlocking
  BY DEF Manager
<1> HIDE DEF c
<1>2. AllocOK(b) => AllocOK(c)
  BY <1>1 DEF AllocOK
<1> QED BY <1>1, <1>2 DEF c

\* A thread starts to change the state.
LEMMA GuardIs ==
  ASSUME ThreadsOK, NEW p \in Processes, NEW o \in {"begin", "end", "recover", "end3"}
  PROVE  LET t == Guard(p, o)
         IN  /\ t \in Thread /\ ThreadOK(t) /\ t.pc = "g_flush" /\ Stage(t) = "g_flush"
             /\ t.op = o /\ t.page = None /\ t.buf = None
<1>1. PICK t : t = [th[p] EXCEPT !.pc = "g_flush", !.op = o, !.page = None, !.buf = None]
  OBVIOUS
<1>2. Guard(p, o) = t
  BY <1>1 DEF Guard
<1>3. th[p] \in Thread /\ "g_flush" \in PCs
  BY DEF ThreadsOK, PCs
<1>4. t \in Thread /\ t.pc = "g_flush" /\ t.op = o /\ t.page = None /\ t.buf = None
  BY <1>1, <1>3 DEF Thread
<1>5. Stage(t) = "g_flush"
  BY <1>4 DEF Stage
<1>6. ThreadOK(t)
  BY <1>4, <1>5 DEF ThreadOK, Latched, Loaded, Writing
<1> QED BY <1>2, <1>4, <1>5, <1>6

LEMMA StartBeginTyped ==
  ASSUME Typed, NEW p \in Processes, StartBegin(p)
  PROVE  Typed'
<1>1. PICK b \in Manager : /\ b = [bm[p] EXCEPT !.master = TRUE] /\ AllocOK(b)
                           /\ b.stateBlocking = bm[p].stateBlocking
  BY TypedParts, MasterIs
<1>2. bm' = [bm EXCEPT ![p] = b]
  BY <1>1 DEF StartBegin
<1>3. ManagersOK' /\ bm'[p] = b /\ \A q \in Processes \ {p} : bm'[q] = bm[q]
  BY <1>1, <1>2, OneManager DEF Typed
<1>4. ThreadsOK'
  BY GuardIs, NewThreadRecord DEF Typed, StartBegin
<1>5. FilesOK' /\ DirtyTyped' /\ WaitsOK'
  BY SameFiles, SameDirty, SameWaits DEF Typed, StartBegin
<1>6. AllSeenTo'
  BY <1>1, <1>3, SameSeen DEF Typed, StartBegin
<1> QED BY <1>3, <1>4, <1>5, <1>6 DEF Typed

LEMMA StartEndTyped ==
  ASSUME Typed, NEW p \in Processes,
         StartEnd(p, "idle", "end") \/ StartEnd(p, "a_recover", "recover")
  PROVE  Typed'
<1>0. th[p] \in Thread /\ ThreadOK(th[p]) /\ bm[p] \in Manager /\ AllocOK(bm[p])
  BY TypedParts
<1>1. PICK from \in {"idle", "a_recover"}, o \in {"end", "recover"} : StartEnd(p, from, o)
  OBVIOUS
<1>2. th[p].page = None
  BY <1>0, <1>1 DEF StartEnd, At, ThreadOK, Stage, Latched, Writing
<1>3. FilesOK' /\ DirtyTyped'
  BY <1>1, SameFiles, SameDirty DEF Typed, StartEnd
<1>4. CASE endLock = None
  <2>1. PICK b \in Manager : /\ b = [bm[p] EXCEPT !.master = TRUE] /\ AllocOK(b)
                             /\ b.stateBlocking = bm[p].stateBlocking
    BY <1>0, MasterIs
  <2>2. bm' = [bm EXCEPT ![p] = b]
    BY <1>1, <1>4, <2>1 DEF StartEnd
  <2>3. ManagersOK' /\ bm'[p] = b /\ \A q \in Processes \ {p} : bm'[q] = bm[q]
    BY <2>1, <2>2, OneManager DEF Typed
  <2>4. PICK t : t = [th[p] EXCEPT !.op = o]
    OBVIOUS
  <2>5. t \in Thread /\ t.page = None
    BY <1>0, <1>2, <2>4 DEF Thread
  <2>6. lockStateRead(p, t, "e_check") /\ UNCHANGED <<ast, unlocking>> /\ endLock' = p
    BY <1>1, <1>4, <2>4 DEF StartEnd
  <2>7. "e_check" \in Returns /\ "e_check" \notin Latched /\ "e_check" \notin Writing
        /\ "e_check" \notin Loaded
    BY DEF Returns, Latched, Loaded, Writing
  <2>8. PICK u \in Thread :
           /\ th' = [th EXCEPT ![p] = u] /\ u.page = t.page /\ Stage(u) = "e_check"
           /\ \/ u.pc = "e_check" /\ UNCHANGED <<rw, queue>>
              \/ /\ u.pc = "locking" /\ u.next = "e_check"
                 /\ rw' = [rw EXCEPT ![p].want = "read"]
                 /\ queue' = Append(queue, p)
    BY <2>5, <2>6, <2>7, LockStateReadIs DEF Typed
  <2>9. ThreadOK(u)
    BY <2>5, <2>7, <2>8 DEF ThreadOK
  <2>10. ThreadsOK'
    BY <2>8, <2>9, NewThreadRecord DEF Typed
  <2>11. /\ rw' \in [Processes -> RWLock] /\ queue' \in Seq(Processes)
         /\ \A q \in Processes :
              /\ rw'[q].seen = rw[q].seen /\ rw'[q].lck_physical = rw[q].lck_physical
              /\ rw'[q].blocking = rw[q].blocking
              /\ rw'[q].currentWriter = rw[q].currentWriter
              /\ rw[q].want # "none" => rw'[q].want # "none"
    <3>1. rw \in [Processes -> RWLock] /\ queue \in Seq(Processes)
      BY DEF Typed, WaitsOK
    <3>2. CASE UNCHANGED <<rw, queue>>
      BY <3>1, <3>2
    <3>3. CASE rw' = [rw EXCEPT ![p].want = "read"] /\ queue' = Append(queue, p)
      BY <3>1, <3>3 DEF RWLock, Levels
    <3> QED BY <2>8, <3>2, <3>3
  <2>12. WaitsOK'
    BY <2>6, <2>11 DEF Typed, WaitsOK
  <2>13. AllSeenTo'
    BY <2>1, <2>3, <2>6, <2>11, SameSeen DEF Typed
  <2> QED BY <1>3, <2>3, <2>10, <2>12, <2>13 DEF Typed
<1>5. CASE endLock # None
  <2>1. th' = [th EXCEPT ![p] = NewThread] /\ UNCHANGED <<endLock, bm, rw, queue, ast, unlocking>>
    BY <1>1, <1>5 DEF StartEnd
  <2>2. ThreadsOK'
    BY <2>1, NewThreadIs, NewThreadRecord DEF Typed
  <2>3. WaitsOK' /\ ManagersOK' /\ AllSeenTo'
    BY <2>1, SameWaits, SameManagers, SameSeen DEF Typed
  <2> QED BY <1>3, <2>2, <2>3 DEF Typed
<1> QED BY <1>4, <1>5

\* The thread gives its page back.
LEMMA CCH_releaseTyped ==
  ASSUME Typed, NEW p \in Processes, CCH_release(p)
  PROVE  Typed'
<1>1. ThreadsOK'
  BY NewThreadIs, NewThreadRecord DEF Typed, CCH_release
<1>2. FilesOK' /\ WaitsOK' /\ ManagersOK' /\ DirtyTyped' /\ AllSeenTo'
  BY SameFiles, SameWaits, SameManagers, SameDirty, SameSeen DEF Typed, CCH_release
<1> QED BY <1>1, <1>2 DEF Typed

\* What a lookup or an allocation does not change.
Quiet(B, C) == C \in Managers /\ \A q \in Processes : SameState(B[q], C[q]) /\ AllocOK(C[q])

LEMMA QuietSame ==
  ASSUME NEW B \in Managers, \A q \in Processes : AllocOK(B[q])
  PROVE  Quiet(B, B)
BY DEF Quiet, SameState

LEMMA QuietTrans ==
  ASSUME NEW B, NEW C, NEW D, Quiet(B, C), Quiet(C, D)
  PROVE  Quiet(B, D)
BY DEF Quiet, SameState

LEMMA StepDownAlloc ==
  ASSUME NEW B \in Managers, NEW p \in Processes, NEW level \in {"read", "write"},
         NEW q \in Processes \ {p}, AllocOK(B[q])
  PROVE  SameState(B[q], StepDown(B, p, level)[q]) /\ AllocOK(StepDown(B, p, level)[q])
<1>1. SteppedDown(B[q], StepDown(B, p, level)[q], level)
  BY StepDownIs
<1> QED BY <1>1 DEF SteppedDown, AllocOK

LEMMA GetPageIndexQuiet ==
  ASSUME NEW B \in Managers, \A q \in Processes : AllocOK(B[q]),
         NEW p \in Processes, NEW pg \in Pages, table \in SUBSET Pages
  PROVE  Quiet(B, getPageIndex(B, p, pg))
<1>1. PICK C : C = getPageIndex(B, p, pg)
  OBVIOUS
<1>2. CASE C = B
  BY <1>1, <1>2, QuietSame
<1>3. CASE LookedUp(B, C, p)
  <2>1. C \in Managers /\ SameState(B[p], C[p])
    BY <1>3 DEF LookedUp
  <2>2. AllocOK(C[p])
    <3>1. C[p].alloc_table = Known(B[p]) \union table /\ Known(B[p]) \subseteq Pages
      BY <1>3, KnownIs DEF LookedUp, Managers
    <3>2. Known(B[p]) \union table \in SUBSET Pages
      BY <3>1
    <3> QED BY <3>1, <3>2, BackupAssumption DEF AllocOK
  <2>3. ASSUME NEW q \in Processes \ {p}
        PROVE  SameState(B[q], C[q]) /\ AllocOK(C[q])
    <3>1. C[q] = StepDown(B, p, "read")[q]
      BY <1>3 DEF LookedUp
    <3> QED BY <3>1, StepDownAlloc
  <2> QED BY <1>1, <2>1, <2>2, <2>3 DEF Quiet
<1> QED BY <1>1, <1>2, <1>3, GetPageIndexIs

LEMMA AllocateQuiet ==
  ASSUME NEW B \in Managers, \A q \in Processes : AllocOK(B[q]),
         NEW p \in Processes, NEW pg \in Pages, table \in SUBSET Pages
  PROVE  Quiet(B, allocateDifferencePage(B, p, pg))
<1>1. PICK C : C = allocateDifferencePage(B, p, pg)
  OBVIOUS
<1>2. CASE C = B
  BY <1>1, <1>2, QuietSame
<1>3. CASE AllocatedPage(B, C, p, pg)
  <2>1. C \in Managers /\ SameState(B[p], C[p])
    BY <1>3 DEF AllocatedPage
  <2>2. AllocOK(C[p])
    <3>1. Known(B[p]) \subseteq Pages /\ B[p] \in Manager
      BY KnownIs DEF Managers
    <3>2. CASE B[p].alloc_physical = "write" /\ C[p].alloc_table = B[p].alloc_table \union {pg}
      <4>1. B[p].alloc_table # None
        BY <3>2 DEF AllocOK
      <4>2. B[p].alloc_table \union {pg} \in SUBSET Pages
        BY <3>1, <4>1 DEF Manager
      <4> QED BY <3>2, <4>2, BackupAssumption DEF AllocOK
    <3>3. CASE C[p].alloc_table = Known(B[p]) \union table \union {pg}
      <4>1. Known(B[p]) \union table \union {pg} \in SUBSET Pages
        BY <3>1
      <4> QED BY <3>3, <4>1, BackupAssumption DEF AllocOK
    <3> QED BY <1>3, <3>2, <3>3 DEF AllocatedPage
  <2>3. ASSUME NEW q \in Processes \ {p}
        PROVE  SameState(B[q], C[q]) /\ AllocOK(C[q])
    <3>1. C[q] = StepDown(B, p, "write")[q]
      BY <1>3 DEF AllocatedPage
    <3> QED BY <3>1, StepDownAlloc
  <2> QED BY <1>1, <2>1, <2>2, <2>3 DEF Quiet
<1> QED BY <1>1, <1>2, <1>3, AllocateIs

LEMMA PlacedQuiet ==
  ASSUME ManagersOK, FilesOK, NEW p \in Processes, NEW pg \in Pages
  PROVE  /\ Quiet(bm, Placed(p, pg)) /\ Quiet(bm, getPageIndex(bm, p, pg))
         /\ Quiet(bm, Indexed(p, pg))
<1>1. bm \in Managers /\ (\A q \in Processes : AllocOK(bm[q])) /\ table \in SUBSET Pages
  BY DEF ManagersOK, FilesOK
<1>2. PICK B : B = getPageIndex(bm, p, pg)
  OBVIOUS
<1>3. Quiet(bm, B)
  BY <1>1, <1>2, GetPageIndexQuiet
<1>4. Quiet(bm, allocateDifferencePage(B, p, pg))
  <2>1. B \in Managers /\ \A q \in Processes : AllocOK(B[q])
    BY <1>3 DEF Quiet
  <2> QED BY <1>1, <1>3, <2>1, AllocateQuiet, QuietTrans
<1>5. Quiet(bm, bm)
  BY <1>1, QuietSame
<1>6. Quiet(bm, Placed(p, pg))
  BY <1>2, <1>3, <1>4, <1>5 DEF Placed
<1>7. Quiet(bm, Indexed(p, pg))
  BY <1>2, <1>3, <1>5 DEF Indexed
<1> QED BY <1>2, <1>3, <1>6, <1>7

\* The managers after such a step.
LEMMA QuietManagers ==
  ASSUME ManagersOK, Quiet(bm, bm')
  PROVE  ManagersOK' /\ \A q \in Processes : SameState(bm[q], bm'[q])
BY DEF Quiet, ManagersOK

LEMMA QuietSeen ==
  ASSUME AllSeenTo, \A q \in Processes : SameState(bm[q], bm'[q]), UNCHANGED <<rw, ast>>
  PROVE  AllSeenTo'
BY SameSeen DEF SameState

\* A page read is a copy of it.
LEMMA PageReadIs ==
  ASSUME FilesOK, NEW B, NEW p \in Processes, NEW pg \in Pages
  PROVE  PageRead(B, p, pg) \in Copy
BY DEF FilesOK, PageRead

LEMMA CCH_fetch_pageTyped ==
  ASSUME Typed, NEW p \in Processes,
         CCH_fetch_page(p, "f_read", "held") \/ CCH_fetch_page(p, "g_read", "g_held")
  PROVE  Typed'
<1>1. PICK from \in {"f_read", "g_read"}, to \in {"held", "g_held"} :
         CCH_fetch_page(p, from, to) /\ (from = "g_read" <=> to = "g_held")
  OBVIOUS
<1>2. /\ th[p] \in Thread /\ ThreadOK(th[p]) /\ th[p].pc = from
  BY <1>1, TypedParts DEF CCH_fetch_page, At
<1>3. PICK pg : pg = th[p].page
  OBVIOUS
<1>4. pg \in Pages /\ (to = "g_held" => pg = HeaderPage)
  BY <1>1, <1>2, <1>3 DEF ThreadOK, Stage, Latched, Writing, Thread
<1>5. PICK t : t = [th[p] EXCEPT !.pc = to, !.buf = PageRead(bm', p, pg)]
  OBVIOUS
<1>6. PageRead(bm', p, pg) \in Copy
  BY <1>4, PageReadIs DEF Typed
<1>7. t \in Thread /\ t.pc = to /\ t.page = pg /\ t.buf \in Copy
  BY <1>2, <1>3, <1>5, <1>6 DEF Thread, PCs
<1>8. ThreadOK(t)
  <2>1. Stage(t) = to /\ pg # None /\ t.buf # None
    BY <1>4, <1>7, BackupAssumption DEF Stage, Copy
  <2> QED BY <1>4, <1>7, <2>1 DEF ThreadOK, Latched, Writing, Loaded
<1>9. th' = [th EXCEPT ![p] = t] /\ bm' = Indexed(p, pg) /\ endRead(p)
      /\ UNCHANGED <<disk, rw, queue, dirty, ast, endLock, version, latest, deaths>>
  BY <1>1, <1>3, <1>5 DEF CCH_fetch_page
<1>10. ThreadsOK'
  BY <1>7, <1>8, <1>9, NewThreadRecord DEF Typed
<1>11. ManagersOK' /\ \A q \in Processes : SameState(bm[q], bm'[q])
  BY <1>4, <1>9, PlacedQuiet, QuietManagers DEF Typed
<1>12. AllSeenTo'
  BY <1>9, <1>11, QuietSeen DEF Typed
<1>13. FilesOK' /\ WaitsOK' /\ DirtyTyped'
  BY <1>9, SameFiles, SameWaits, SameDirty DEF Typed
<1> QED BY <1>10, <1>11, <1>12, <1>13 DEF Typed

LEMMA MergeFetchTyped ==
  ASSUME Typed, NEW p \in Processes, MergeFetch(p)
  PROVE  Typed'
<1>1. th[p] \in Thread /\ ThreadOK(th[p]) /\ th[p].pc = "e_merge"
  BY TypedParts DEF MergeFetch, At
<1>2. PICK pg \in th[p].todo :
         /\ bm' = Indexed(p, pg)
         /\ th' = [th EXCEPT ![p].pc = "e_page", ![p].page = pg,
                             ![p].buf = PageRead(Indexed(p, pg), p, pg)]
         /\ UNCHANGED <<disk, rw, queue, dirty, ast, unlocking, endLock, version, latest, deaths>>
  BY DEF MergeFetch
<1>3. pg \in Pages
  BY <1>1, <1>2 DEF Thread
<1>4. PICK c \in Copy : c = PageRead(Indexed(p, pg), p, pg)
  BY <1>3, PageReadIs DEF Typed
<1>5. PICK t : t = [th[p] EXCEPT !.pc = "e_page", !.page = pg, !.buf = c]
  OBVIOUS
<1>6. t \in Thread /\ t.pc = "e_page" /\ t.page = pg /\ t.buf = c
  BY <1>1, <1>3, <1>4, <1>5 DEF Thread, PCs, LocalRead
<1>7. ThreadOK(t)
  <2>1. Stage(t) = "e_page" /\ pg # None /\ t.buf # None
    BY <1>3, <1>4, <1>6, BackupAssumption DEF Stage, Copy
  <2> QED BY <1>6, <2>1 DEF ThreadOK, Latched, Writing, Loaded
<1>8. th' = [th EXCEPT ![p] = t]
  BY <1>2, <1>4, <1>5 DEF Typed, ThreadsOK
<1>9. ThreadsOK'
  BY <1>6, <1>7, <1>8, NewThreadRecord DEF Typed
<1>10. ManagersOK' /\ \A q \in Processes : SameState(bm[q], bm'[q])
  BY <1>2, <1>3, PlacedQuiet, QuietManagers DEF Typed
<1>11. AllSeenTo'
  BY <1>2, <1>10, QuietSeen DEF Typed
<1>12. FilesOK' /\ WaitsOK' /\ DirtyTyped'
  BY <1>2, SameFiles, SameWaits, SameDirty DEF Typed
<1> QED BY <1>9, <1>10, <1>11, <1>12 DEF Typed

\* A page is marked dirty.
LEMMA SetDiffPageTyped ==
  ASSUME Typed, NEW p \in Processes, th[p].page \in Pages, NEW v \in Nat,
         set_diff_page(p, v), UNCHANGED <<rw, queue, ast, unlocking, endLock, latest, deaths>>,
         version' \in [Pages -> Nat]
  PROVE  FilesOK' /\ ManagersOK' /\ DirtyTyped' /\ WaitsOK' /\ AllSeenTo'
<1>1. PICK pg \in Pages : pg = th[p].page
  OBVIOUS
<1>2. PICK B : B = Placed(p, pg)
  OBVIOUS
<1>3. bm' = B /\ Quiet(bm, B)
  BY <1>1, <1>2, PlacedQuiet DEF Typed, set_diff_page
<1>4. ManagersOK' /\ \A q \in Processes : SameState(bm[q], bm'[q])
  BY <1>3, QuietManagers DEF Typed
<1>5. AllSeenTo' /\ WaitsOK'
  BY <1>4, QuietSeen, SameWaits DEF Typed
<1>6. PICK new \in BOOLEAN :
         /\ table' = IF new THEN table \union {pg} ELSE table
         /\ delta' = IF new THEN [delta EXCEPT ![pg] = None] ELSE delta
  <2>1. PICK n : n = (/\ bm[p].backup_state = "stalled"
                      /\ pg \notin Known(getPageIndex(bm, p, pg)[p]) \union table)
    OBVIOUS
  <2>2. n \in BOOLEAN
    BY <2>1
  <2> QED BY <1>1, <2>1, <2>2 DEF set_diff_page
<1>7. FilesOK'
  BY <1>1, <1>6 DEF Typed, FilesOK, set_diff_page
<1>8. PICK d : d = [v |-> v, scn |-> B[p].current_scn,
                    diff |-> B[p].backup_state \in {"stalled", "merge"} /\ Mapped(B, p, pg)]
  OBVIOUS
<1>9. d \in Buffer
  <2>1. B[p].current_scn \in Nat
    BY <1>3 DEF Quiet, Managers, Manager
  <2> QED BY <1>8, <2>1 DEF Buffer
<1>10. dirty' = [dirty EXCEPT ![p][pg] = d]
  BY <1>1, <1>2, <1>8 DEF set_diff_page
<1>11. DirtyTyped'
  BY <1>1, <1>9, <1>10 DEF Typed, DirtyTyped
<1> QED BY <1>4, <1>5, <1>7, <1>11

LEMMA ModifyTyped ==
  ASSUME Typed, NEW p \in Processes, Modify(p)
  PROVE  Typed'
<1>1. th[p] \in Thread /\ ThreadOK(th[p]) /\ th[p].pc = "m_mark"
  BY TypedParts DEF Modify, At
<1>2. th[p].page \in Pages
  BY <1>1 DEF ThreadOK, Stage, Latched, Thread
<1>3. version[th[p].page] + 1 \in Nat /\ version' \in [Pages -> Nat]
  BY <1>2 DEF Typed, FilesOK, Modify
<1>4. FilesOK' /\ ManagersOK' /\ DirtyTyped' /\ WaitsOK' /\ AllSeenTo'
  BY <1>2, <1>3, SetDiffPageTyped DEF Modify
<1>5. ThreadsOK'
  BY NewThreadIs, NewThreadRecord DEF Typed, Modify
<1> QED BY <1>4, <1>5 DEF Typed

\* A page of the merge is done with.
LEMMA MergedIs ==
  ASSUME ThreadsOK, NEW p \in Processes, th' = Merged(p)
  PROVE  /\ ThreadsOK' /\ th'[p].pc = "e_merge" /\ th'[p].page = None
         /\ th'[p].op = th[p].op /\ th'[p].todo = th[p].todo \ {th[p].page}
         /\ Stage(th'[p]) = "e_merge"
         /\ \A q \in Processes \ {p} : th'[q] = th[q]
<1>1. th[p] \in Thread
  BY DEF ThreadsOK
<1>2. PICK t : t = [th[p] EXCEPT !.pc = "e_merge", !.page = None, !.buf = None,
                                 !.todo = th[p].todo \ {th[p].page}]
  OBVIOUS
<1>3. t \in Thread /\ t.pc = "e_merge" /\ t.page = None /\ t.op = th[p].op
      /\ t.todo = th[p].todo \ {th[p].page}
  BY <1>1, <1>2 DEF Thread, PCs, LocalRead
<1>4. ThreadOK(t) /\ Stage(t) = "e_merge"
  BY <1>3 DEF ThreadOK, Stage, Latched, Writing, Loaded
<1>5. th' = [th EXCEPT ![p] = t]
  BY <1>2 DEF Merged, ThreadsOK
<1>6. ThreadsOK' /\ th'[p] = t /\ \A q \in Processes \ {p} : th'[q] = th[q]
  BY <1>3, <1>4, <1>5, NewThreadRecord
<1> QED BY <1>3, <1>4, <1>6

LEMMA MergePageTyped ==
  ASSUME Typed, NEW p \in Processes, MergePage(p)
  PROVE  Typed'
<1>1. th[p] \in Thread /\ ThreadOK(th[p]) /\ th[p].pc = "e_mark"
  BY TypedParts DEF MergePage, At
<1>2. th[p].page \in Pages /\ th[p].buf \in Copy
  BY <1>1 DEF ThreadOK, Stage, Latched, Loaded, Thread, Writing
<1>3. th[p].buf.v \in Nat /\ version' \in [Pages -> Nat]
  BY <1>2 DEF Typed, FilesOK, MergePage, Copy
<1>4. FilesOK' /\ ManagersOK' /\ DirtyTyped' /\ WaitsOK' /\ AllSeenTo'
  BY <1>2, <1>3, SetDiffPageTyped DEF MergePage
<1>5. ThreadsOK'
  BY MergedIs DEF Typed, MergePage
<1> QED BY <1>4, <1>5 DEF Typed

LEMMA MergeSkipTyped ==
  ASSUME Typed, NEW p \in Processes, MergeSkip(p)
  PROVE  Typed'
<1>1. ThreadsOK'
  BY MergedIs DEF Typed, MergeSkip
<1>2. FilesOK' /\ WaitsOK' /\ ManagersOK' /\ DirtyTyped' /\ AllSeenTo'
  BY SameFiles, SameWaits, SameManagers, SameDirty, SameSeen DEF Typed, MergeSkip
<1> QED BY <1>1, <1>2 DEF Typed

LEMMA MergeOverTyped ==
  ASSUME Typed, NEW p \in Processes, MergeOver(p)
  PROVE  Typed'
<1>1. ThreadsOK'
  BY GuardIs, NewThreadRecord DEF Typed, MergeOver
<1>2. FilesOK' /\ WaitsOK' /\ ManagersOK' /\ DirtyTyped' /\ AllSeenTo'
  BY SameFiles, SameWaits, SameManagers, SameDirty, SameSeen DEF Typed, MergeOver
<1> QED BY <1>1, <1>2 DEF Typed

LEMMA MergeAllocTyped ==
  ASSUME Typed, NEW p \in Processes, MergeAlloc(p)
  PROVE  Typed'
<1>1. th[p] \in Thread /\ ThreadOK(th[p]) /\ th[p].pc = "e_alloc" /\ bm[p] \in Manager
  BY TypedParts DEF MergeAlloc, At
<1>2. PICK b \in Manager : /\ b = actualizeAlloc(bm[p], TRUE) /\ SameState(bm[p], b)
                           /\ b.alloc_table = Known(bm[p]) \union table
  BY <1>1, ActualizeAllocIs DEF Typed, FilesOK
<1>3. b.alloc_table \in SUBSET Pages /\ AllocOK(b)
  <2>1. Known(bm[p]) \union table \in SUBSET Pages
    BY <1>1, KnownIs DEF Typed, FilesOK
  <2> QED BY <1>2, <2>1, BackupAssumption DEF AllocOK
<1>4. bm' = [bm EXCEPT ![p] = b]
      /\ th' = [th EXCEPT ![p].pc = "e_merge", ![p].todo = b.alloc_table]
      /\ UNCHANGED <<disk, rw, queue, dirty, ast, unlocking, endLock, version, latest, deaths>>
  BY <1>2 DEF MergeAlloc
<1>5. ManagersOK' /\ bm'[p] = b /\ \A q \in Processes \ {p} : bm'[q] = bm[q]
  BY <1>2, <1>3, <1>4, OneManager DEF Typed
<1>6. AllSeenTo'
  BY <1>2, <1>4, <1>5, SameSeen DEF Typed, SameState
<1>7. PICK t : t = [th[p] EXCEPT !.pc = "e_merge", !.todo = b.alloc_table]
  OBVIOUS
<1>8. t \in Thread /\ t.pc = "e_merge" /\ t.page = th[p].page
  BY <1>1, <1>3, <1>7 DEF Thread, PCs, LocalRead
<1>9. ThreadOK(t)
  BY <1>1, <1>8 DEF ThreadOK, Stage, Latched, Writing, Loaded
<1>10. th' = [th EXCEPT ![p] = t]
  BY <1>4, <1>7 DEF Typed, ThreadsOK
<1>11. ThreadsOK'
  BY <1>8, <1>9, <1>10, NewThreadRecord DEF Typed
<1>12. FilesOK' /\ WaitsOK' /\ DirtyTyped'
  BY <1>4, SameFiles, SameWaits, SameDirty DEF Typed
<1> QED BY <1>5, <1>6, <1>11, <1>12 DEF Typed


\* One request for the state lock is changed.
LEMMA OneLock ==
  ASSUME WaitsOK, NEW p \in Processes, NEW g \in RWLock, rw' = [rw EXCEPT ![p] = g]
  PROVE  /\ rw' \in [Processes -> RWLock] /\ rw'[p] = g
         /\ \A q \in Processes \ {p} : rw'[q] = rw[q]
BY DEF WaitsOK

\* Only the locks, or only the managers, of p are changed.
OnlyLock(p) ==
    rw' \in [Processes -> RWLock] /\ \A q \in Processes \ {p} : rw'[q] = rw[q]
OnlyManager(p) == \A q \in Processes \ {p} : bm'[q] = bm[q]

\* All but the state and the request to step down.
SameTable(b, c) ==
    /\ c.alloc_table = b.alloc_table /\ c.alloc_physical = b.alloc_physical
    /\ c.allocIsValid = b.allocIsValid /\ c.current_scn = b.current_scn
    /\ c.master = b.master

LEMMA SameTableTrans ==
  ASSUME NEW b, NEW c, NEW d, SameTable(b, c), SameTable(c, d)
  PROVE  SameTable(b, d)
BY DEF SameTable

LEMMA SameTableAlloc ==
  ASSUME NEW b, NEW c, SameTable(b, c), AllocOK(b)
  PROVE  AllocOK(c)
BY DEF SameTable, AllocOK

\* The state is forgotten.
LEMMA UnknownIs ==
  ASSUME NEW b \in Manager
  PROVE  LET c == Unknown(b)
         IN  /\ c \in Manager /\ SameTable(b, c)
             /\ c.backup_state = "unknown" /\ c.stateBlocking = b.stateBlocking
BY DEF Unknown, Manager, SameTable

\* The request to step down is kept or forgotten.
LEMMA StateBlockingIs ==
  ASSUME NEW b \in Manager, NEW x \in BOOLEAN
  PROVE  LET c == [b EXCEPT !.stateBlocking = x]
         IN  /\ c \in Manager /\ SameTable(b, c)
             /\ c.backup_state = b.backup_state /\ c.stateBlocking = x
BY DEF Manager, SameTable

\* The lock is released.
LEMMA ReleasedIs ==
  ASSUME NEW g \in RWLock
  PROVE  LET h == Released(g)
         IN  /\ h \in RWLock /\ h.lck_physical = "none" /\ ~ h.blocking /\ ~ h.seen
             /\ h.want = g.want /\ h.currentWriter = g.currentWriter
BY DEF Released, RWLock, Levels

\* Only p is concerned by what has been told to it.
LEMMA OthersSeen ==
  ASSUME AllSeenTo, NEW p \in Processes, SeenTo(p)', OnlyLock(p),
         \A q \in Processes \ {p} :
            /\ bm[q].stateBlocking => bm'[q].stateBlocking
            /\ q \in ast => q \in ast'
  PROVE  AllSeenTo'
<1>1. ASSUME NEW q \in Processes PROVE SeenTo(q)'
  <2>1. CASE q = p
    BY <2>1
  <2>2. CASE q # p
    BY <2>2 DEF AllSeenTo, SeenTo, OnlyLock
  <2> QED BY <2>1, <2>2
<1> QED BY <1>1 DEF AllSeenTo

\* A page is written.
LEMMA write_pageTyped ==
  ASSUME Typed, NEW p \in Processes, write_page(p)
  PROVE  Typed'
<1>1. PICK pg \in DirtyPages(p) :
        LET b == dirty[p][pg]
        IN  /\ delta' = IF ToDelta(p, b) THEN [delta EXCEPT ![pg] = CopyOf(b)] ELSE delta
            /\ main' = IF ToMain(p) THEN [main EXCEPT ![pg] = CopyOf(b)] ELSE main
            /\ latest' = Latest(pg, b.v)
            /\ dirty' = [dirty EXCEPT ![p][pg] = None]
            /\ endRead(p)
            /\ UNCHANGED <<hdr, table, rw, queue, bm, th, ast, endLock, version, deaths>>
  BY DEF write_page
<1>2. pg \in Pages /\ dirty[p][pg] \in Buffer
  BY DEF DirtyPages, Typed, DirtyTyped
<1>3. PICK b \in Buffer : b = dirty[p][pg]
  BY <1>2
<1>4. CopyOf(b) \in Copy /\ b.v \in Nat
  BY <1>3 DEF CopyOf, Copy, Buffer
<1>5. delta' \in [Pages -> Copy \union {None}] /\ main' \in [Pages -> Copy]
  BY <1>1, <1>2, <1>3, <1>4 DEF Typed, FilesOK
<1>6. latest' \in [Pages -> Nat]
  BY <1>1, <1>2, <1>3, <1>4 DEF Typed, FilesOK, Latest
<1>7. FilesOK'
  BY <1>1, <1>5, <1>6 DEF Typed, FilesOK
<1>8. DirtyTyped'
  BY <1>1, <1>2 DEF Typed, DirtyTyped
<1>9. ThreadsOK'
  BY <1>1 DEF Typed, ThreadsOK
<1>10. WaitsOK' /\ ManagersOK' /\ AllSeenTo'
  BY <1>1, SameWaits, SameManagers, SameSeen DEF Typed
<1> QED BY <1>7, <1>8, <1>9, <1>10 DEF Typed

\* The lock manager grants a request.
LEMMA GrantIs ==
  ASSUME Typed, NEW p \in Processes, Grant(p)
  PROVE  /\ OnlyLock(p) /\ rw'[p].lck_physical = rw[p].want /\ ~ rw'[p].seen
         /\ rw'[p].want = rw[p].want /\ rw'[p].currentWriter = rw[p].currentWriter
         /\ rw'[p].blocking = rw[p].blocking
<1>1. PICK g : g = [rw[p] EXCEPT !.lck_physical = rw[p].want, !.seen = FALSE]
  OBVIOUS
<1>2. WaitsOK /\ rw[p] \in RWLock
  BY TypedParts DEF Typed
<1>3. g \in RWLock /\ g.lck_physical = rw[p].want /\ ~ g.seen /\ g.want = rw[p].want
      /\ g.currentWriter = rw[p].currentWriter /\ g.blocking = rw[p].blocking
  BY <1>1, <1>2 DEF RWLock
<1>4. rw' = [rw EXCEPT ![p] = g]
  BY <1>1, <1>2 DEF Grant, WaitsOK
<1> QED BY <1>2, <1>3, <1>4, OneLock DEF OnlyLock

LEMMA GrantTyped ==
  ASSUME Typed, NEW p \in Processes, Grant(p)
  PROVE  Typed'
<1>1. queue' \in Seq(Processes) /\ UNCHANGED <<bm, ast>>
  BY TailQueue DEF Grant, Typed, WaitsOK
<1>2. OnlyLock(p) /\ ~ rw'[p].seen
  BY GrantIs
<1>3. WaitsOK'
  BY <1>1, <1>2 DEF Typed, WaitsOK, OnlyLock, Grant
<1>4. AllSeenTo'
  BY <1>1, <1>2, OthersSeen DEF Typed, SeenTo
<1>5. ThreadsOK'
  BY DEF Typed, ThreadsOK, Grant
<1>6. FilesOK' /\ ManagersOK' /\ DirtyTyped'
  BY SameFiles, SameManagers, SameDirty DEF Typed, Grant
<1> QED BY <1>3, <1>4, <1>5, <1>6 DEF Typed

\* The state is read under the lock that has been granted.
LEMMA LockReadIs ==
  ASSUME Typed, NEW p \in Processes, lockRead(p)
  PROVE  /\ OnlyLock(p) /\ rw'[p].want = "none"
         /\ rw'[p].currentWriter = rw[p].currentWriter
         /\ ~ rw'[p].blocking
         /\ rw'[p].lck_physical = IF rw[p].blocking THEN "none" ELSE rw[p].lck_physical
         /\ rw'[p].seen => rw[p].seen /\ ~ rw[p].blocking
         /\ OnlyManager(p) /\ ManagersOK'
         /\ bm'[p].stateBlocking = bm[p].stateBlocking
         /\ SameTable(actualizeState(bm[p]), bm'[p])
         /\ bm'[p].backup_state = IF rw[p].blocking THEN "unknown" ELSE hdr.mode
<1>1. WaitsOK /\ rw[p] \in RWLock /\ bm[p] \in Manager /\ AllocOK(bm[p]) /\ ManagersOK
      /\ hdr \in [mode : Modes, scn : Nat]
  BY TypedParts DEF Typed, FilesOK
<1>2. PICK h \in RWLock : /\ h = IF rw[p].blocking THEN Released(rw[p]) ELSE rw[p]
                          /\ h.currentWriter = rw[p].currentWriter /\ ~ h.blocking
                          /\ h.lck_physical = IF rw[p].blocking THEN "none" ELSE rw[p].lck_physical
                          /\ h.seen => rw[p].seen /\ ~ rw[p].blocking
  <2>1. CASE rw[p].blocking
    BY <1>1, <2>1, ReleasedIs
  <2>2. CASE ~ rw[p].blocking
    BY <1>1, <2>2
  <2> QED BY <2>1, <2>2
<1>3. PICK g : g = [h EXCEPT !.want = "none"]
  OBVIOUS
<1>4. g \in RWLock /\ g.want = "none" /\ g.currentWriter = h.currentWriter
      /\ g.blocking = h.blocking /\ g.lck_physical = h.lck_physical /\ g.seen = h.seen
  BY <1>3 DEF RWLock, Levels
<1>5. rw' = [rw EXCEPT ![p] = g]
  BY <1>1, <1>2, <1>3 DEF lockRead, WaitsOK
<1>6. PICK a \in Manager : /\ a = actualizeState(bm[p]) /\ AllocOK(a)
                           /\ a.backup_state = hdr.mode /\ a.stateBlocking = bm[p].stateBlocking
  BY <1>1, ActualizeStateIs
<1>7. PICK b \in Manager : /\ b = IF rw[p].blocking THEN Unknown(a) ELSE a
                           /\ SameTable(a, b) /\ b.stateBlocking = a.stateBlocking
                           /\ b.backup_state = IF rw[p].blocking THEN "unknown" ELSE hdr.mode
  <2>1. CASE rw[p].blocking
    BY <1>6, <2>1, UnknownIs
  <2>2. CASE ~ rw[p].blocking
    BY <1>6, <2>2 DEF SameTable
  <2> QED BY <2>1, <2>2
<1>8. AllocOK(b)
  BY <1>6, <1>7, SameTableAlloc
<1>9. bm' = [bm EXCEPT ![p] = b]
  BY <1>1, <1>6, <1>7 DEF lockRead, ManagersOK, Managers
<1>10. ManagersOK' /\ bm'[p] = b /\ OnlyManager(p)
  BY <1>1, <1>8, <1>9, OneManager DEF OnlyManager
<1>11. rw'[p] = g /\ OnlyLock(p)
  BY <1>1, <1>4, <1>5, OneLock DEF OnlyLock
<1> QED BY <1>2, <1>4, <1>6, <1>7, <1>10, <1>11

\* The thread goes on where it was to have the lock.
LEMMA LockReadThread ==
  ASSUME ThreadsOK, NEW p \in Processes, lockRead(p)
  PROVE  /\ ThreadsOK' /\ th'[p].pc = th[p].next /\ Stage(th'[p]) = Stage(th[p])
         /\ Stage(th[p]) = th[p].next /\ th[p].next \in Returns
         /\ th'[p].op = th[p].op /\ th'[p].page = th[p].page /\ th'[p].buf = th[p].buf
         /\ th'[p].todo = th[p].todo
         /\ \A q \in Processes \ {p} : th'[q] = th[q]
<1>1. th[p] \in Thread /\ ThreadOK(th[p]) /\ th[p].pc = "locking"
  BY DEF ThreadsOK, lockRead, At
<1>2. th[p].next \in Returns /\ Stage(th[p]) = th[p].next /\ th[p].next # "locking"
  BY <1>1 DEF ThreadOK, Stage, Returns
<1>3. PICK t : t = [th[p] EXCEPT !.pc = th[p].next, !.next = "idle"]
  OBVIOUS
<1>4. t \in Thread /\ t.pc = th[p].next /\ t.op = th[p].op /\ t.page = th[p].page
      /\ t.buf = th[p].buf /\ t.todo = th[p].todo
  BY <1>1, <1>3 DEF Thread, PCs
<1>5. Stage(t) = Stage(th[p])
  BY <1>2, <1>4 DEF Stage
<1>6. ThreadOK(t)
  BY <1>1, <1>2, <1>4, <1>5 DEF ThreadOK
<1>7. th' = [th EXCEPT ![p] = t]
  BY <1>3 DEF lockRead, ThreadsOK
<1>8. ThreadsOK' /\ th'[p] = t /\ \A q \in Processes \ {p} : th'[q] = th[q]
  BY <1>4, <1>6, <1>7, NewThreadRecord
<1> QED BY <1>2, <1>4, <1>5, <1>8

LEMMA lockReadTyped ==
  ASSUME Typed, NEW p \in Processes, lockRead(p)
  PROVE  Typed'
<1>1. /\ OnlyLock(p) /\ OnlyManager(p) /\ ManagersOK'
      /\ bm'[p].stateBlocking = bm[p].stateBlocking
      /\ rw'[p].lck_physical = IF rw[p].blocking THEN "none" ELSE rw[p].lck_physical
      /\ rw'[p].seen => rw[p].seen /\ ~ rw[p].blocking
  BY LockReadIs
<1>2. ThreadsOK'
  BY LockReadThread DEF Typed
<1>3. UNCHANGED <<disk, queue, dirty, ast, unlocking, endLock, version, latest, deaths>>
  BY DEF lockRead
<1>4. WaitsOK'
  BY <1>1, <1>3 DEF Typed, WaitsOK, OnlyLock
<1>5. SeenTo(p)'
  BY <1>1, <1>3, TypedParts DEF SeenTo
<1>6. AllSeenTo'
  BY <1>1, <1>3, <1>5, OthersSeen DEF Typed, OnlyManager
<1>7. FilesOK' /\ DirtyTyped'
  BY <1>3, SameFiles, SameDirty DEF Typed
<1> QED BY <1>1, <1>2, <1>4, <1>6, <1>7 DEF Typed

\* The last reader looks whether an AST has been waiting.
LEMMA UnlockStateReadIs ==
  ASSUME Typed, NEW p \in Processes, unlockStateRead(p)
  PROVE  /\ OnlyLock(p) /\ OnlyManager(p) /\ ManagersOK'
         /\ SameTable(bm[p], bm'[p])
         /\ \/ UNCHANGED <<rw, bm>>
            \/ /\ ~ LocalReaders(p) /\ ~ LocalWriter(p)
               /\ \/ /\ rw'[p].lck_physical = "none" /\ ~ rw'[p].seen
                     /\ bm'[p].backup_state = "unknown"
                  \/ /\ rw'[p] = rw[p] /\ rw[p].lck_physical = "none"
                     /\ bm'[p].backup_state = bm[p].backup_state
               /\ rw'[p].want = rw[p].want /\ rw'[p].currentWriter = rw[p].currentWriter
               /\ rw'[p].blocking => rw[p].blocking
<1>1. WaitsOK /\ rw[p] \in RWLock /\ bm[p] \in Manager /\ AllocOK(bm[p]) /\ ManagersOK
  BY TypedParts DEF Typed
<1>2. CASE ~ (bm[p].stateBlocking /\ ~LocalReaders(p) /\ ~LocalWriter(p))
  <2>1. UNCHANGED <<rw, bm>>
    BY <1>2 DEF unlockStateRead
  <2> QED BY <1>1, <2>1, SameManagers DEF OnlyLock, OnlyManager, WaitsOK, SameTable
<1>3. CASE bm[p].stateBlocking /\ ~LocalReaders(p) /\ ~LocalWriter(p)
  <2>1. /\ rw' = [rw EXCEPT ![p] = IF rw[p].lck_physical # "none" THEN Released(rw[p]) ELSE rw[p]]
        /\ bm' = [bm EXCEPT ![p] =
                    [IF rw[p].lck_physical # "none" THEN Unknown(bm[p]) ELSE bm[p]
                       EXCEPT !.stateBlocking = FALSE]]
    BY <1>1, <1>3 DEF unlockStateRead, WaitsOK, ManagersOK, Managers
  <2>2. PICK g \in RWLock :
           /\ g = IF rw[p].lck_physical # "none" THEN Released(rw[p]) ELSE rw[p]
           /\ g.want = rw[p].want /\ g.currentWriter = rw[p].currentWriter
           /\ g.lck_physical = "none" /\ (g.blocking => rw[p].blocking)
           /\ rw[p].lck_physical # "none" => ~ g.seen
    BY <1>1, ReleasedIs
  <2>3. PICK a \in Manager :
           /\ a = IF rw[p].lck_physical # "none" THEN Unknown(bm[p]) ELSE bm[p]
           /\ SameTable(bm[p], a)
           /\ a.backup_state = IF rw[p].lck_physical # "none" THEN "unknown" ELSE bm[p].backup_state
    <3>1. SameTable(bm[p], bm[p])
      BY DEF SameTable
    <3> QED BY <1>1, <3>1, UnknownIs
  <2>4. PICK b \in Manager : /\ b = [a EXCEPT !.stateBlocking = FALSE] /\ SameTable(a, b)
                             /\ b.backup_state = a.backup_state
    BY StateBlockingIs
  <2>5. SameTable(bm[p], b) /\ AllocOK(b)
    BY <1>1, <2>3, <2>4, SameTableTrans, SameTableAlloc
  <2>6. rw' = [rw EXCEPT ![p] = g] /\ bm' = [bm EXCEPT ![p] = b]
    BY <2>1, <2>2, <2>3, <2>4
  <2>7. rw'[p] = g /\ OnlyLock(p)
    BY <1>1, <2>6, OneLock DEF OnlyLock
  <2>8. ManagersOK' /\ bm'[p] = b /\ OnlyManager(p)
    BY <1>1, <2>5, <2>6, OneManager DEF OnlyManager
  <2> QED BY <1>3, <2>2, <2>3, <2>4, <2>5, <2>7, <2>8
<1> QED BY <1>2, <1>3

LEMMA unlockStateReadTyped ==
  ASSUME Typed, NEW p \in Processes, unlockStateRead(p)
  PROVE  Typed'
<1>1. /\ OnlyLock(p) /\ OnlyManager(p) /\ ManagersOK'
      /\ UNCHANGED <<rw, bm>> \/ rw'[p].lck_physical = "none"
  BY UnlockStateReadIs
<1>2. UNCHANGED <<disk, queue, dirty, th, ast, endLock, version, latest, deaths>>
      /\ unlocking' = unlocking \ {p}
  BY DEF unlockStateRead
<1>3. WaitsOK'
  BY <1>1, <1>2 DEF Typed, WaitsOK, OnlyLock
<1>4. SeenTo(p)'
  BY <1>1, <1>2, TypedParts DEF SeenTo
<1>5. AllSeenTo'
  BY <1>1, <1>2, <1>4, OthersSeen DEF Typed, OnlyManager
<1>6. ThreadsOK'
  BY <1>2 DEF Typed, ThreadsOK
<1>7. FilesOK' /\ DirtyTyped'
  BY <1>2, SameFiles, SameDirty DEF Typed
<1> QED BY <1>1, <1>3, <1>5, <1>6, <1>7 DEF Typed

\* What a lock is reduced to.
LEMMA DowngradedIs ==
  ASSUME WaitsOK, NEW p \in Processes
  PROVE  /\ Downgraded(p) \in Levels
         /\ Downgraded(p) = "write" => rw[p].lck_physical = "write"
         /\ Downgraded(p) # "none" => rw[p].lck_physical # "none"
BY DEF Downgraded, WaitsOK, RWLock, Levels

\* The handler of the lock itself.
LEMMA BlockingAstIs ==
  ASSUME Typed, NEW p \in Processes, BlockingAst(p)
  PROVE  /\ OnlyLock(p) /\ OnlyManager(p) /\ ManagersOK'
         /\ SameTable(bm[p], bm'[p])
         /\ rw'[p].want = rw[p].want /\ rw'[p].currentWriter = rw[p].currentWriter
         /\ \/ /\ rw[p].want = "none" /\ ~ rw[p].currentWriter
               /\ rw'[p].lck_physical = Downgraded(p) /\ ~ rw'[p].seen
               /\ rw'[p].blocking => rw[p].blocking
               /\ bm'[p].backup_state = IF Downgraded(p) = "none" THEN "unknown"
                                        ELSE bm[p].backup_state
            \/ /\ rw[p].want # "none" \/ rw[p].currentWriter
               /\ rw'[p].lck_physical = rw[p].lck_physical
               /\ rw'[p].blocking /\ rw'[p].seen
               /\ bm'[p].backup_state = bm[p].backup_state
<1>1. WaitsOK /\ rw[p] \in RWLock /\ bm[p] \in Manager /\ AllocOK(bm[p]) /\ ManagersOK
  BY TypedParts DEF Typed
<1>2. PICK level \in Levels : level = Downgraded(p)
  BY <1>1, DowngradedIs
<1>3. SameTable(bm[p], bm[p])
  BY DEF SameTable
<1>4. PICK x \in BOOLEAN : x = (bm[p].stateBlocking /\ bm[p].master)
  BY <1>1
<1>5. CASE rw[p].want = "none" /\ ~rw[p].currentWriter
  <2>1. /\ rw' = [rw EXCEPT ![p] = IF level = "none" THEN Released(rw[p])
                                   ELSE [rw[p] EXCEPT !.lck_physical = level, !.seen = FALSE]]
        /\ bm' = [bm EXCEPT ![p] =
                    [IF level = "none" THEN Unknown(bm[p]) ELSE bm[p] EXCEPT !.stateBlocking = x]]
    BY <1>1, <1>2, <1>4, <1>5 DEF BlockingAst, WaitsOK, ManagersOK, Managers
  <2>2. PICK g \in RWLock :
           /\ g = IF level = "none" THEN Released(rw[p])
                  ELSE [rw[p] EXCEPT !.lck_physical = level, !.seen = FALSE]
           /\ g.want = rw[p].want /\ g.currentWriter = rw[p].currentWriter
           /\ g.lck_physical = level /\ ~ g.seen /\ (g.blocking => rw[p].blocking)
    <3>1. CASE level = "none"
      BY <1>1, <3>1, ReleasedIs
    <3>2. CASE level # "none"
      <4>1. PICK g : g = [rw[p] EXCEPT !.lck_physical = level, !.seen = FALSE]
        OBVIOUS
      <4>2. /\ g \in RWLock /\ g.want = rw[p].want /\ g.currentWriter = rw[p].currentWriter
            /\ g.lck_physical = level /\ ~ g.seen /\ g.blocking = rw[p].blocking
        BY <1>1, <4>1 DEF RWLock
      <4> QED BY <3>2, <4>1, <4>2
    <3> QED BY <3>1, <3>2
  <2>3. PICK a \in Manager :
           /\ a = IF level = "none" THEN Unknown(bm[p]) ELSE bm[p]
           /\ SameTable(bm[p], a)
           /\ a.backup_state = IF level = "none" THEN "unknown" ELSE bm[p].backup_state
    BY <1>1, <1>3, UnknownIs
  <2>4. PICK b \in Manager : /\ b = [a EXCEPT !.stateBlocking = x] /\ SameTable(a, b)
                             /\ b.backup_state = a.backup_state
    BY StateBlockingIs
  <2>5. SameTable(bm[p], b) /\ AllocOK(b)
    BY <1>1, <2>3, <2>4, SameTableTrans, SameTableAlloc
  <2>6. rw' = [rw EXCEPT ![p] = g] /\ bm' = [bm EXCEPT ![p] = b]
    BY <2>1, <2>2, <2>3, <2>4
  <2>7. rw'[p] = g /\ OnlyLock(p)
    BY <1>1, <2>6, OneLock DEF OnlyLock
  <2>8. ManagersOK' /\ bm'[p] = b /\ OnlyManager(p)
    BY <1>1, <2>5, <2>6, OneManager DEF OnlyManager
  <2> QED BY <1>2, <1>5, <2>2, <2>3, <2>4, <2>5, <2>7, <2>8
<1>6. CASE ~ (rw[p].want = "none" /\ ~rw[p].currentWriter)
  <2>1. PICK g : g = [rw[p] EXCEPT !.blocking = TRUE, !.seen = TRUE]
    OBVIOUS
  <2>2. /\ g \in RWLock /\ g.want = rw[p].want /\ g.currentWriter = rw[p].currentWriter
        /\ g.lck_physical = rw[p].lck_physical /\ g.blocking /\ g.seen
    BY <1>1, <2>1 DEF RWLock
  <2>3. PICK b \in Manager : /\ b = [bm[p] EXCEPT !.stateBlocking = x] /\ SameTable(bm[p], b)
                             /\ b.backup_state = bm[p].backup_state
    BY <1>1, StateBlockingIs
  <2>4. rw' = [rw EXCEPT ![p] = g] /\ bm' = [bm EXCEPT ![p] = b]
    BY <1>1, <1>4, <1>6, <2>1, <2>3 DEF BlockingAst, WaitsOK, ManagersOK, Managers
  <2>5. AllocOK(b)
    BY <1>1, <2>3, SameTableAlloc
  <2>6. rw'[p] = g /\ OnlyLock(p)
    BY <1>1, <2>2, <2>4, OneLock DEF OnlyLock
  <2>7. ManagersOK' /\ bm'[p] = b /\ OnlyManager(p)
    BY <1>1, <2>4, <2>5, OneManager DEF OnlyManager
  <2> QED BY <1>1, <1>6, <2>2, <2>3, <2>6, <2>7
<1> QED BY <1>5, <1>6

\* It leaves nothing undone.
LEMMA BlockingAstSeen ==
  ASSUME Typed, NEW p \in Processes, BlockingAst(p), ast' \in {ast, ast \ {p}}
  PROVE  ManagersOK' /\ AllSeenTo' /\ OnlyLock(p)
<1>1. /\ OnlyLock(p) /\ OnlyManager(p) /\ ManagersOK'
      /\ rw'[p].want = rw[p].want /\ rw'[p].currentWriter = rw[p].currentWriter
      /\ \/ ~ rw'[p].seen
         \/ (rw[p].want # "none" \/ rw[p].currentWriter) /\ rw'[p].blocking
  BY BlockingAstIs
<1>2. SeenTo(p)'
  BY <1>1 DEF SeenTo
<1>3. AllSeenTo'
  BY <1>1, <1>2, OthersSeen DEF Typed, OnlyManager
<1> QED BY <1>1, <1>3

\* The first part of the handler for the backup state.
LEMMA HandlerIs ==
  ASSUME Typed, NEW p \in Processes, blockingAstHandler(p), ~ bm[p].master
  PROVE  /\ OnlyLock(p) /\ OnlyManager(p) /\ ManagersOK' /\ ast' = ast \union {p}
         /\ SameTable(bm[p], bm'[p]) /\ bm'[p].backup_state = bm[p].backup_state
         /\ rw'[p].want = rw[p].want /\ rw'[p].currentWriter = rw[p].currentWriter
         /\ rw'[p].lck_physical = rw[p].lck_physical /\ rw'[p].blocking = rw[p].blocking
<1>1. WaitsOK /\ rw[p] \in RWLock /\ bm[p] \in Manager /\ AllocOK(bm[p]) /\ ManagersOK
  BY TypedParts DEF Typed
<1>2. PICK g : g = [rw[p] EXCEPT !.seen = TRUE]
  OBVIOUS
<1>3. /\ g \in RWLock /\ g.want = rw[p].want /\ g.currentWriter = rw[p].currentWriter
      /\ g.lck_physical = rw[p].lck_physical /\ g.blocking = rw[p].blocking
  BY <1>1, <1>2 DEF RWLock
<1>4. PICK b \in Manager : /\ b = [bm[p] EXCEPT !.stateBlocking = TRUE] /\ SameTable(bm[p], b)
                           /\ b.backup_state = bm[p].backup_state
  BY <1>1, StateBlockingIs
<1>5. rw' = [rw EXCEPT ![p] = g] /\ bm' = [bm EXCEPT ![p] = b] /\ ast' = ast \union {p}
  BY <1>1, <1>2, <1>4 DEF blockingAstHandler, WaitsOK, ManagersOK, Managers
<1>6. AllocOK(b)
  BY <1>1, <1>4, SameTableAlloc
<1>7. rw'[p] = g /\ OnlyLock(p)
  BY <1>1, <1>3, <1>5, OneLock DEF OnlyLock
<1>8. ManagersOK' /\ bm'[p] = b /\ OnlyManager(p)
  BY <1>1, <1>4, <1>5, <1>6, OneManager DEF OnlyManager
<1> QED BY <1>3, <1>4, <1>5, <1>7, <1>8

LEMMA blockingAstHandlerTyped ==
  ASSUME Typed, NEW p \in Processes, blockingAstHandler(p)
  PROVE  Typed'
<1>1. UNCHANGED <<disk, queue, dirty, th, unlocking, endLock, version, latest, deaths>>
  BY DEF blockingAstHandler
<1>2. ManagersOK' /\ AllSeenTo' /\ OnlyLock(p) /\ ast' \in SUBSET Processes
  <2>1. CASE bm[p].master
    BY <2>1, BlockingAstSeen DEF blockingAstHandler, Typed, WaitsOK
  <2>2. CASE ~ bm[p].master
    <3>1. OnlyLock(p) /\ OnlyManager(p) /\ ManagersOK' /\ ast' = ast \union {p}
      BY <2>2, HandlerIs
    <3>2. SeenTo(p)'
      BY <3>1 DEF SeenTo
    <3>3. AllSeenTo'
      BY <3>1, <3>2, OthersSeen DEF Typed, OnlyManager
    <3> QED BY <3>1, <3>3 DEF Typed, WaitsOK
  <2> QED BY <2>1, <2>2
<1>3. WaitsOK'
  BY <1>1, <1>2 DEF Typed, WaitsOK, OnlyLock
<1>4. ThreadsOK'
  BY <1>1 DEF Typed, ThreadsOK
<1>5. FilesOK' /\ DirtyTyped'
  BY <1>1, SameFiles, SameDirty DEF Typed
<1> QED BY <1>2, <1>3, <1>4, <1>5 DEF Typed

\* The second part, when there are local holders.
LEMMA TryFailsIs ==
  ASSUME Typed, NEW p \in Processes, tryBeginWrite(p), LocalReaders(p) \/ LocalWriter(p)
  PROVE  /\ UNCHANGED rw /\ OnlyManager(p) /\ ManagersOK' /\ bm'[p].stateBlocking
         /\ SameTable(bm[p], bm'[p]) /\ bm'[p].backup_state = bm[p].backup_state
<1>1. bm[p] \in Manager /\ AllocOK(bm[p]) /\ ManagersOK
  BY TypedParts DEF Typed
<1>2. PICK b \in Manager : /\ b = [bm[p] EXCEPT !.stateBlocking = TRUE] /\ SameTable(bm[p], b)
                           /\ b.backup_state = bm[p].backup_state /\ b.stateBlocking
  BY <1>1, StateBlockingIs
<1>3. UNCHANGED rw /\ bm' = [bm EXCEPT ![p] = b]
  BY <1>1, <1>2 DEF tryBeginWrite, ManagersOK, Managers
<1>4. AllocOK(b)
  BY <1>1, <1>2, SameTableAlloc
<1>5. ManagersOK' /\ bm'[p] = b /\ OnlyManager(p)
  BY <1>1, <1>2, <1>3, <1>4, OneManager DEF OnlyManager
<1> QED BY <1>2, <1>3, <1>5

LEMMA tryBeginWriteTyped ==
  ASSUME Typed, NEW p \in Processes, tryBeginWrite(p)
  PROVE  Typed'
<1>1. UNCHANGED <<disk, queue, dirty, th, unlocking, endLock, version, latest, deaths>>
      /\ ast' = ast \ {p}
  BY DEF tryBeginWrite
<1>2. ManagersOK' /\ AllSeenTo' /\ OnlyLock(p)
  <2>1. CASE ~ (LocalReaders(p) \/ LocalWriter(p))
    BY <1>1, <2>1, BlockingAstSeen DEF tryBeginWrite
  <2>2. CASE LocalReaders(p) \/ LocalWriter(p)
    <3>1. UNCHANGED rw /\ OnlyManager(p) /\ ManagersOK' /\ bm'[p].stateBlocking
      BY <2>2, TryFailsIs
    <3>2. OnlyLock(p) /\ SeenTo(p)'
      BY <3>1 DEF SeenTo, OnlyLock, Typed, WaitsOK
    <3>3. AllSeenTo'
      BY <1>1, <3>1, <3>2, OthersSeen DEF Typed, OnlyManager
    <3> QED BY <3>1, <3>2, <3>3
  <2> QED BY <2>1, <2>2
<1>3. WaitsOK'
  BY <1>1, <1>2 DEF Typed, WaitsOK, OnlyLock
<1>4. ThreadsOK'
  BY <1>1 DEF Typed, ThreadsOK
<1>5. FilesOK' /\ DirtyTyped'
  BY <1>1, SameFiles, SameDirty DEF Typed
<1> QED BY <1>2, <1>3, <1>4, <1>5 DEF Typed

\* A thread with the header page goes on to the lock for writing.
LEMMA GuardGoesOn ==
  ASSUME ThreadsOK, NEW p \in Processes, NEW s \in {"g_lock", "g_locked"},
         th[p].pc \in {"g_held", "g_lock"}, th' = [th EXCEPT ![p].pc = s]
  PROVE  /\ ThreadsOK' /\ th'[p].pc = s /\ Stage(th'[p]) = s
         /\ th'[p].op = th[p].op /\ th'[p].page = th[p].page /\ th'[p].buf = th[p].buf
         /\ th'[p].todo = th[p].todo
         /\ \A q \in Processes \ {p} : th'[q] = th[q]
<1>1. th[p] \in Thread /\ ThreadOK(th[p])
  BY DEF ThreadsOK
<1>2. PICK t : t = [th[p] EXCEPT !.pc = s]
  OBVIOUS
<1>3. t \in Thread /\ t.pc = s /\ t.op = th[p].op /\ t.page = th[p].page
      /\ t.buf = th[p].buf /\ t.todo = th[p].todo
  BY <1>1, <1>2 DEF Thread, PCs, LocalWrite
<1>4. Stage(t) = s /\ Stage(th[p]) = th[p].pc
  BY <1>3 DEF Stage
<1>5. ThreadOK(t)
  BY <1>1, <1>3, <1>4 DEF ThreadOK, Latched, Loaded, Writing
<1>6. th' = [th EXCEPT ![p] = t]
  BY <1>2 DEF ThreadsOK
<1>7. ThreadsOK' /\ th'[p] = t /\ \A q \in Processes \ {p} : th'[q] = th[q]
  BY <1>3, <1>5, <1>6, NewThreadRecord
<1> QED BY <1>3, <1>4, <1>7

\* The thread has, or asks for, the lock for writing.
LEMMA LockWriteIs ==
  ASSUME Typed, NEW p \in Processes, lockWrite(p)
  PROVE  /\ OnlyLock(p) /\ OnlyManager(p) /\ ManagersOK' /\ SameTable(bm[p], bm'[p])
         /\ bm'[p].stateBlocking = bm[p].stateBlocking
         /\ \/ /\ rw[p].lck_physical = "write" /\ rw'[p].lck_physical = "write"
               /\ rw'[p].want = rw[p].want /\ rw'[p].currentWriter
               /\ rw'[p].seen = rw[p].seen /\ rw'[p].blocking = rw[p].blocking
               /\ bm'[p].backup_state = bm[p].backup_state
               /\ UNCHANGED queue /\ th' = [th EXCEPT ![p].pc = "g_locked"]
            \/ /\ rw[p].lck_physical # "write" /\ rw'[p].lck_physical = "none"
               /\ rw'[p].want = "write" /\ rw'[p].currentWriter = rw[p].currentWriter
               /\ bm'[p].backup_state = IF rw[p].lck_physical # "none" THEN "unknown"
                                        ELSE bm[p].backup_state
               /\ queue' = Append(queue, p) /\ th' = [th EXCEPT ![p].pc = "g_lock"]
<1>1. WaitsOK /\ rw[p] \in RWLock /\ bm[p] \in Manager /\ AllocOK(bm[p]) /\ ManagersOK
  BY TypedParts DEF Typed
<1>2. SameTable(bm[p], bm[p])
  BY DEF SameTable
<1>3. CASE rw[p].lck_physical = "write"
  <2>1. PICK g : g = [rw[p] EXCEPT !.currentWriter = TRUE]
    OBVIOUS
  <2>2. /\ g \in RWLock /\ g.want = rw[p].want /\ g.currentWriter /\ g.seen = rw[p].seen
        /\ g.lck_physical = rw[p].lck_physical /\ g.blocking = rw[p].blocking
    BY <1>1, <2>1 DEF RWLock
  <2>3. rw' = [rw EXCEPT ![p] = g] /\ UNCHANGED <<queue, bm>>
        /\ th' = [th EXCEPT ![p].pc = "g_locked"]
    BY <1>1, <1>3, <2>1 DEF lockWrite, WaitsOK
  <2>4. rw'[p] = g /\ OnlyLock(p)
    BY <1>1, <2>2, <2>3, OneLock DEF OnlyLock
  <2>5. ManagersOK' /\ OnlyManager(p)
    BY <1>1, <2>3, SameManagers DEF OnlyManager
  <2> QED BY <1>2, <1>3, <2>2, <2>3, <2>4, <2>5
<1>4. CASE rw[p].lck_physical # "write"
  <2>1. /\ rw' = [rw EXCEPT ![p] =
                   [IF rw[p].lck_physical # "none" THEN Released(rw[p]) ELSE rw[p]
                      EXCEPT !.want = "write"]]
        /\ bm' = [bm EXCEPT ![p] = IF rw[p].lck_physical # "none" THEN Unknown(bm[p]) ELSE bm[p]]
        /\ queue' = Append(queue, p) /\ th' = [th EXCEPT ![p].pc = "g_lock"]
    BY <1>1, <1>4 DEF lockWrite, WaitsOK, ManagersOK, Managers
  <2>2. PICK h \in RWLock :
           /\ h = IF rw[p].lck_physical # "none" THEN Released(rw[p]) ELSE rw[p]
           /\ h.lck_physical = "none" /\ h.currentWriter = rw[p].currentWriter
    BY <1>1, ReleasedIs
  <2>3. PICK g : g = [h EXCEPT !.want = "write"]
    OBVIOUS
  <2>4. /\ g \in RWLock /\ g.want = "write" /\ g.currentWriter = rw[p].currentWriter
        /\ g.lck_physical = "none"
    BY <2>2, <2>3 DEF RWLock, Levels
  <2>5. PICK b \in Manager :
           /\ b = IF rw[p].lck_physical # "none" THEN Unknown(bm[p]) ELSE bm[p]
           /\ SameTable(bm[p], b) /\ b.stateBlocking = bm[p].stateBlocking
           /\ b.backup_state = IF rw[p].lck_physical # "none" THEN "unknown" ELSE bm[p].backup_state
    BY <1>1, <1>2, UnknownIs
  <2>6. rw' = [rw EXCEPT ![p] = g] /\ bm' = [bm EXCEPT ![p] = b] /\ AllocOK(b)
    BY <1>1, <2>1, <2>2, <2>3, <2>5, SameTableAlloc
  <2>7. rw'[p] = g /\ OnlyLock(p)
    BY <1>1, <2>4, <2>6, OneLock DEF OnlyLock
  <2>8. ManagersOK' /\ bm'[p] = b /\ OnlyManager(p)
    BY <1>1, <2>6, OneManager DEF OnlyManager
  <2> QED BY <1>4, <2>1, <2>4, <2>5, <2>7, <2>8
<1> QED BY <1>3, <1>4

LEMMA lockWriteTyped ==
  ASSUME Typed, NEW p \in Processes, lockWrite(p)
  PROVE  Typed'
<1>1. UNCHANGED <<disk, dirty, ast, unlocking, endLock, version, latest, deaths>>
      /\ th[p].pc = "g_held"
  BY DEF lockWrite, At
<1>2. /\ OnlyLock(p) /\ OnlyManager(p) /\ ManagersOK'
      /\ bm'[p].stateBlocking = bm[p].stateBlocking
      /\ queue' = queue \/ queue' = Append(queue, p)
      /\ th' = [th EXCEPT ![p].pc = "g_locked"] \/ th' = [th EXCEPT ![p].pc = "g_lock"]
      /\ \/ /\ rw'[p].lck_physical = rw[p].lck_physical
            /\ rw'[p].want = rw[p].want /\ rw'[p].currentWriter
            /\ rw'[p].seen = rw[p].seen /\ rw'[p].blocking = rw[p].blocking
         \/ rw'[p].lck_physical = "none"
  BY LockWriteIs
<1>3. queue' \in Seq(Processes)
  BY <1>2 DEF Typed, WaitsOK
<1>4. WaitsOK'
  BY <1>1, <1>2, <1>3 DEF Typed, WaitsOK, OnlyLock
<1>5. SeenTo(p)'
  BY <1>1, <1>2, TypedParts DEF SeenTo
<1>6. AllSeenTo'
  BY <1>1, <1>2, <1>5, OthersSeen DEF Typed, OnlyManager
<1>7. ThreadsOK'
  BY <1>1, <1>2, GuardGoesOn DEF Typed
<1>8. FilesOK' /\ DirtyTyped'
  BY <1>1, SameFiles, SameDirty DEF Typed
<1> QED BY <1>2, <1>4, <1>6, <1>7, <1>8 DEF Typed

\* The lock for writing is granted, and the state is read.
LEMMA WriteGrantedIs ==
  ASSUME Typed, NEW p \in Processes, WriteGranted(p)
  PROVE  /\ OnlyLock(p) /\ OnlyManager(p) /\ ManagersOK'
         /\ bm'[p] = actualizeState(bm[p]) /\ bm'[p].stateBlocking = bm[p].stateBlocking
         /\ rw'[p].want = "none" /\ rw'[p].currentWriter
         /\ rw'[p].lck_physical = rw[p].lck_physical
         /\ rw'[p].seen = rw[p].seen /\ rw'[p].blocking = rw[p].blocking
<1>1. WaitsOK /\ rw[p] \in RWLock /\ bm[p] \in Manager /\ AllocOK(bm[p]) /\ ManagersOK
      /\ hdr \in [mode : Modes, scn : Nat]
  BY TypedParts DEF Typed, FilesOK
<1>2. PICK g : g = [rw[p] EXCEPT !.want = "none", !.currentWriter = TRUE]
  OBVIOUS
<1>3. /\ g \in RWLock /\ g.want = "none" /\ g.currentWriter /\ g.seen = rw[p].seen
      /\ g.lck_physical = rw[p].lck_physical /\ g.blocking = rw[p].blocking
  BY <1>1, <1>2 DEF RWLock, Levels
<1>4. PICK b \in Manager : /\ b = actualizeState(bm[p]) /\ AllocOK(b)
                           /\ b.stateBlocking = bm[p].stateBlocking
  BY <1>1, ActualizeStateIs
<1>5. rw' = [rw EXCEPT ![p] = g] /\ bm' = [bm EXCEPT ![p] = b]
  BY <1>1, <1>2, <1>4 DEF WriteGranted, WaitsOK, ManagersOK, Managers
<1>6. rw'[p] = g /\ OnlyLock(p)
  BY <1>1, <1>3, <1>5, OneLock DEF OnlyLock
<1>7. ManagersOK' /\ bm'[p] = b /\ OnlyManager(p)
  BY <1>1, <1>4, <1>5, OneManager DEF OnlyManager
<1> QED BY <1>3, <1>4, <1>6, <1>7

LEMMA WriteGrantedTyped ==
  ASSUME Typed, NEW p \in Processes, WriteGranted(p)
  PROVE  Typed'
<1>1. UNCHANGED <<disk, queue, dirty, ast, unlocking, endLock, version, latest, deaths>>
      /\ th[p].pc = "g_lock" /\ th' = [th EXCEPT ![p].pc = "g_locked"]
  BY DEF WriteGranted, At
<1>2. /\ OnlyLock(p) /\ OnlyManager(p) /\ ManagersOK'
      /\ bm'[p].stateBlocking = bm[p].stateBlocking
      /\ rw'[p].lck_physical = rw[p].lck_physical /\ rw'[p].currentWriter
      /\ rw'[p].seen = rw[p].seen /\ rw'[p].blocking = rw[p].blocking
  BY WriteGrantedIs
<1>3. WaitsOK'
  BY <1>1, <1>2 DEF Typed, WaitsOK, OnlyLock
<1>4. SeenTo(p)'
  BY <1>1, <1>2, TypedParts DEF SeenTo
<1>5. AllSeenTo'
  BY <1>1, <1>2, <1>4, OthersSeen DEF Typed, OnlyManager
<1>6. ThreadsOK'
  BY <1>1, GuardGoesOn DEF Typed
<1>7. FilesOK' /\ DirtyTyped'
  BY <1>1, SameFiles, SameDirty DEF Typed
<1> QED BY <1>2, <1>3, <1>5, <1>6, <1>7 DEF Typed

\* What the change of the state has made of the managers.
Changed(B) ==
    /\ B \in Managers
    /\ \A q \in Processes : AllocOK(B[q]) /\ B[q].stateBlocking = bm[q].stateBlocking

\* The lock for writing is given back or kept.
LEMMA UnlockStateWriteIs ==
  ASSUME Typed, NEW p \in Processes, NEW B, Changed(B), unlockStateWrite(p, B)
  PROVE  /\ OnlyLock(p) /\ ManagersOK'
         /\ \A q \in Processes \ {p} : bm'[q] = B[q]
         /\ \A q \in Processes : bm'[q].stateBlocking = bm[q].stateBlocking
         /\ SameTable(B[p], bm'[p])
         /\ bm'[p].backup_state = IF rw'[p].lck_physical = "none" THEN "unknown"
                                  ELSE B[p].backup_state
         /\ rw'[p].want = rw[p].want /\ ~ rw'[p].currentWriter /\ ~ rw'[p].blocking
         /\ rw'[p].lck_physical # "none" => B[p].backup_state # "unknown"
         /\ rw'[p].lck_physical \in {"none", rw[p].lck_physical, Downgraded(p)}
         /\ rw'[p].seen => rw[p].seen /\ rw'[p].lck_physical = rw[p].lck_physical /\ ~ rw[p].blocking
<1>1. WaitsOK /\ rw[p] \in RWLock /\ ManagersOK /\ B \in Managers /\ B[p] \in Manager
      /\ AllocOK(B[p]) /\ B[p].stateBlocking = bm[p].stateBlocking
  BY TypedParts DEF Typed, Changed, Managers
<1>2. PICK level \in Levels : /\ level = IF B[p].backup_state = "unknown" THEN "none"
                                         ELSE IF rw[p].blocking THEN Downgraded(p)
                                         ELSE rw[p].lck_physical
                              /\ level \in {"none", rw[p].lck_physical, Downgraded(p)}
  BY <1>1, DowngradedIs DEF RWLock, Levels
<1>3. PICK s \in BOOLEAN : s = (rw[p].seen /\ level = rw[p].lck_physical /\ ~ rw[p].blocking)
  OBVIOUS
<1>4. PICK g : g = [rw[p] EXCEPT !.currentWriter = FALSE, !.blocking = FALSE,
                                 !.lck_physical = level, !.seen = s]
  OBVIOUS
<1>5. /\ g \in RWLock /\ g.want = rw[p].want /\ ~ g.currentWriter /\ ~ g.blocking /\ g.seen = s
      /\ g.lck_physical = level
  BY <1>1, <1>4 DEF RWLock
<1>6. PICK b \in Manager :
         /\ b = IF level = "none" THEN Unknown(B[p]) ELSE B[p]
         /\ SameTable(B[p], b) /\ b.stateBlocking = B[p].stateBlocking
         /\ b.backup_state = IF level = "none" THEN "unknown" ELSE B[p].backup_state
  <2>1. SameTable(B[p], B[p])
    BY DEF SameTable
  <2> QED BY <1>1, <2>1, UnknownIs
<1>7. rw' = [rw EXCEPT ![p] = g]
  BY <1>1, <1>2, <1>3, <1>4 DEF unlockStateWrite, WaitsOK
<1>8. bm' = [B EXCEPT ![p] = b]
  BY <1>1, <1>2, <1>6 DEF unlockStateWrite, Managers
<1>9. AllocOK(b)
  BY <1>1, <1>6, SameTableAlloc
<1>10. rw'[p] = g /\ OnlyLock(p)
  BY <1>1, <1>5, <1>7, OneLock DEF OnlyLock
<1>11. bm' \in Managers /\ bm'[p] = b /\ \A q \in Processes \ {p} : bm'[q] = B[q]
  BY <1>1, <1>8 DEF Managers
<1>12. ASSUME NEW q \in Processes
       PROVE  AllocOK(bm'[q]) /\ bm'[q].stateBlocking = bm[q].stateBlocking
  <2>1. CASE q = p
    BY <1>1, <1>6, <1>9, <1>11, <2>1
  <2>2. CASE q # p
    BY <1>11, <2>2 DEF Changed
  <2> QED BY <2>1, <2>2
<1>13. ManagersOK'
  BY <1>11, <1>12 DEF ManagersOK
<1> QED BY <1>2, <1>3, <1>5, <1>6, <1>10, <1>11, <1>12, <1>13

\* The state has been changed: types.
LEMMA UnlockStateWriteTyped ==
  ASSUME Typed, NEW p \in Processes, NEW B, Changed(B), unlockStateWrite(p, B),
         UNCHANGED <<queue, dirty, ast, unlocking>>, endLock' \in Processes \union {None},
         ThreadsOK', FilesOK'
  PROVE  Typed'
<1>1. /\ OnlyLock(p) /\ ManagersOK'
      /\ \A q \in Processes : bm'[q].stateBlocking = bm[q].stateBlocking
      /\ rw'[p].seen => rw[p].seen /\ rw'[p].lck_physical = rw[p].lck_physical /\ ~ rw[p].blocking
  BY UnlockStateWriteIs
<1>2. WaitsOK'
  BY <1>1 DEF Typed, WaitsOK, OnlyLock
<1>3. SeenTo(p)'
  BY <1>1, TypedParts DEF SeenTo
<1>4. AllSeenTo'
  BY <1>1, <1>3, OthersSeen DEF Typed
<1>5. DirtyTyped'
  BY SameDirty DEF Typed
<1> QED BY <1>1, <1>2, <1>4, <1>5 DEF Typed

\* One manager is replaced.
LEMMA ChangedBy ==
  ASSUME ManagersOK, NEW p \in Processes, NEW B \in Managers, AllocOK(B[p]),
         B[p].stateBlocking = bm[p].stateBlocking,
         \A q \in Processes \ {p} : B[q] = bm[q]
  PROVE  Changed(B)
<1>1. ASSUME NEW q \in Processes
      PROVE  AllocOK(B[q]) /\ B[q].stateBlocking = bm[q].stateBlocking
  <2>1. CASE q = p
    BY <2>1
  <2>2. CASE q # p
    BY <2>2 DEF ManagersOK
  <2> QED BY <2>1, <2>2
<1> QED BY <1>1 DEF Changed

LEMMA ChangedTo ==
  ASSUME ManagersOK, NEW p \in Processes, NEW b \in Manager, AllocOK(b),
         b.stateBlocking = bm[p].stateBlocking, NEW B, B = [bm EXCEPT ![p] = b]
  PROVE  Changed(B) /\ B[p] = b /\ \A q \in Processes \ {p} : B[q] = bm[q]
<1>1. B \in Managers /\ B[p] = b /\ \A q \in Processes \ {p} : B[q] = bm[q]
  BY DEF ManagersOK, Managers
<1> QED BY <1>1, ChangedBy

LEMMA ChangedOne ==
  ASSUME ManagersOK, NEW p \in Processes, NEW b \in Manager, AllocOK(b),
         b.stateBlocking = bm[p].stateBlocking
  PROVE  /\ Changed([bm EXCEPT ![p] = b]) /\ [bm EXCEPT ![p] = b][p] = b
         /\ \A q \in Processes \ {p} : [bm EXCEPT ![p] = b][q] = bm[q]
<1>1. PICK B : B = [bm EXCEPT ![p] = b]
  OBVIOUS
<1>2. B \in Managers /\ B[p] = b /\ \A q \in Processes \ {p} : B[q] = bm[q]
  BY <1>1 DEF ManagersOK, Managers
<1>3. Changed(B)
  BY <1>2, ChangedBy
<1> QED BY <1>1, <1>2, <1>3

\* The process is no longer at a backup.
LEMMA FinishIs ==
  ASSUME ManagersOK, NEW p \in Processes
  PROVE  \E b \in Manager :
           /\ b = [bm[p] EXCEPT !.master = FALSE] /\ AllocOK(b) /\ ~ b.master
           /\ b.alloc_table = bm[p].alloc_table
           /\ b.alloc_physical = bm[p].alloc_physical /\ b.allocIsValid = bm[p].allocIsValid
           /\ b.backup_state = bm[p].backup_state /\ b.current_scn = bm[p].current_scn
           /\ b.stateBlocking = bm[p].stateBlocking
           /\ Finish(bm, p) = [bm EXCEPT ![p] = b]
<1>1. bm[p] \in Manager /\ AllocOK(bm[p])
  BY DEF ManagersOK, Managers
<1>2. Finish(bm, p) = [bm EXCEPT ![p] = [bm[p] EXCEPT !.master = FALSE]]
  BY DEF Finish, ManagersOK, Managers
<1> QED BY <1>1, <1>2, MasterIs

LEMMA FinishChanged ==
  ASSUME ManagersOK, NEW p \in Processes
  PROVE  Changed(Finish(bm, p))
<1>1. PICK b \in Manager : /\ Finish(bm, p) = [bm EXCEPT ![p] = b] /\ AllocOK(b)
                           /\ b.stateBlocking = bm[p].stateBlocking
  BY FinishIs
<1> QED BY <1>1, ChangedTo

\* What such a change leaves of manager a.
Finished(a, b) ==
    /\ b \in Manager /\ AllocOK(b) /\ ~ b.master /\ b.stateBlocking = a.stateBlocking
    /\ \/ /\ b.alloc_table = a.alloc_table /\ b.alloc_physical = a.alloc_physical
          /\ b.allocIsValid = a.allocIsValid
       \/ /\ b.alloc_table = None /\ b.alloc_physical = "none"
          /\ (b.allocIsValid <=> a.allocIsValid /\ a.alloc_physical = "none")

Begun(p, n) ==
    [Finish(bm, p) EXCEPT ![p].backup_state = "stalled", ![p].current_scn = n]
Ended(p, n) ==
    [Finish(bm, p) EXCEPT ![p] =
       [DropAlloc(@) EXCEPT !.backup_state = "normal", !.current_scn = n]]

\* A backup has begun.
LEMMA BegunIs ==
  ASSUME ManagersOK, NEW p \in Processes, NEW n \in Nat
  PROVE  \E b \in Manager :
              /\ Begun(p, n) = [bm EXCEPT ![p] = b]
              /\ Finished(bm[p], b) /\ b.alloc_table = bm[p].alloc_table
              /\ b.alloc_physical = bm[p].alloc_physical /\ b.allocIsValid = bm[p].allocIsValid
              /\ b.backup_state = "stalled" /\ b.current_scn = n
<1>1. PICK a \in Manager :
           /\ AllocOK(a) /\ ~ a.master
           /\ a.alloc_table = bm[p].alloc_table
           /\ a.alloc_physical = bm[p].alloc_physical /\ a.allocIsValid = bm[p].allocIsValid
           /\ a.stateBlocking = bm[p].stateBlocking
           /\ Finish(bm, p) = [bm EXCEPT ![p] = a]
  BY FinishIs
<1>2. PICK F : F = [bm EXCEPT ![p] = a] /\ F = Finish(bm, p)
  BY <1>1
<1>3. F \in [Processes -> Manager] /\ F[p] = a /\ \A c : [F EXCEPT ![p] = c] = [bm EXCEPT ![p] = c]
  BY <1>2 DEF ManagersOK, Managers
<1>4. PICK b : b = [a EXCEPT !.backup_state = "stalled", !.current_scn = n]
  OBVIOUS
<1>5. /\ b \in Manager /\ b.backup_state = "stalled" /\ b.current_scn = n
      /\ b.master = a.master /\ b.stateBlocking = a.stateBlocking
      /\ b.alloc_table = a.alloc_table /\ b.alloc_physical = a.alloc_physical
      /\ b.allocIsValid = a.allocIsValid
  BY <1>4 DEF Manager, Modes
<1>6. AllocOK(b)
  BY <1>1, <1>5 DEF AllocOK
<1>7. Begun(p, n) = [bm EXCEPT ![p] = b]
  BY <1>2, <1>3, <1>4 DEF Begun
<1>8. Finished(bm[p], b)
  BY <1>1, <1>5, <1>6 DEF Finished
<1> QED BY <1>1, <1>5, <1>7, <1>8

\* The difference file could not be made.
LEMMA FailedIs ==
  ASSUME ManagersOK, NEW p \in Processes
  PROVE  \E b \in Manager :
              /\ [Finish(bm, p) EXCEPT ![p].backup_state = "unknown"] = [bm EXCEPT ![p] = b]
              /\ Finished(bm[p], b) /\ b.alloc_table = bm[p].alloc_table
              /\ b.alloc_physical = bm[p].alloc_physical /\ b.allocIsValid = bm[p].allocIsValid
              /\ b.backup_state = "unknown" /\ b.current_scn = bm[p].current_scn
<1>1. PICK a \in Manager :
           /\ AllocOK(a) /\ ~ a.master
           /\ a.alloc_table = bm[p].alloc_table
           /\ a.alloc_physical = bm[p].alloc_physical /\ a.allocIsValid = bm[p].allocIsValid
           /\ a.stateBlocking = bm[p].stateBlocking /\ a.current_scn = bm[p].current_scn
           /\ Finish(bm, p) = [bm EXCEPT ![p] = a]
  BY FinishIs
<1>2. PICK F : F = [bm EXCEPT ![p] = a] /\ F = Finish(bm, p)
  BY <1>1
<1>3. F \in [Processes -> Manager] /\ F[p] = a /\ \A c : [F EXCEPT ![p] = c] = [bm EXCEPT ![p] = c]
  BY <1>2 DEF ManagersOK, Managers
<1>4. PICK b : b = [a EXCEPT !.backup_state = "unknown"]
  OBVIOUS
<1>5. /\ b \in Manager /\ b.backup_state = "unknown" /\ b.current_scn = a.current_scn
      /\ b.master = a.master /\ b.stateBlocking = a.stateBlocking
      /\ b.alloc_table = a.alloc_table /\ b.alloc_physical = a.alloc_physical
      /\ b.allocIsValid = a.allocIsValid
  BY <1>4 DEF Manager
<1>6. AllocOK(b)
  BY <1>1, <1>5 DEF AllocOK
<1>7. [Finish(bm, p) EXCEPT ![p].backup_state = "unknown"] = [bm EXCEPT ![p] = b]
  BY <1>2, <1>3, <1>4
<1>8. Finished(bm[p], b)
  BY <1>1, <1>5, <1>6 DEF Finished
<1> QED BY <1>1, <1>5, <1>7, <1>8

\* A backup is over.
LEMMA EndedIs ==
  ASSUME ManagersOK, NEW p \in Processes, NEW n \in Nat
  PROVE  \E b \in Manager :
              /\ Ended(p, n) = [bm EXCEPT ![p] = b]
              /\ Finished(bm[p], b) /\ b.alloc_table = None /\ b.alloc_physical = "none"
              /\ (b.allocIsValid <=> bm[p].allocIsValid /\ bm[p].alloc_physical = "none")
              /\ b.backup_state = "normal" /\ b.current_scn = n
<1>1. PICK a \in Manager :
           /\ AllocOK(a) /\ ~ a.master
           /\ a.alloc_physical = bm[p].alloc_physical /\ a.allocIsValid = bm[p].allocIsValid
           /\ a.stateBlocking = bm[p].stateBlocking
           /\ Finish(bm, p) = [bm EXCEPT ![p] = a]
  BY FinishIs
<1>2. PICK F : F = [bm EXCEPT ![p] = a] /\ F = Finish(bm, p)
  BY <1>1
<1>3. F \in [Processes -> Manager] /\ F[p] = a /\ \A c : [F EXCEPT ![p] = c] = [bm EXCEPT ![p] = c]
  BY <1>2 DEF ManagersOK, Managers
<1>4. PICK d \in Manager :
          /\ d = DropAlloc(a) /\ SameState(a, d)
          /\ d.alloc_table = None /\ d.alloc_physical = "none"
          /\ (d.allocIsValid <=> a.allocIsValid /\ a.alloc_physical = "none")
  BY DropAllocIs
<1>5. PICK e : e = [d EXCEPT !.backup_state = "normal", !.current_scn = n]
  OBVIOUS
<1>6. /\ e \in Manager /\ e.backup_state = "normal" /\ e.current_scn = n
      /\ e.master = d.master /\ e.stateBlocking = d.stateBlocking
      /\ e.alloc_table = d.alloc_table /\ e.alloc_physical = d.alloc_physical
      /\ e.allocIsValid = d.allocIsValid
  BY <1>5 DEF Manager, Modes
<1>7. AllocOK(e) /\ ~ e.master /\ e.stateBlocking = bm[p].stateBlocking
  BY <1>1, <1>4, <1>6 DEF AllocOK, SameState
<1>8. Ended(p, n) = [bm EXCEPT ![p] = e]
  BY <1>2, <1>3, <1>4, <1>5 DEF Ended
<1>9. e.allocIsValid <=> bm[p].allocIsValid /\ bm[p].alloc_physical = "none"
  BY <1>1, <1>4, <1>6
<1>10. Finished(bm[p], e)
  BY <1>4, <1>6, <1>7, <1>9 DEF Finished
<1> QED BY <1>4, <1>6, <1>8, <1>9, <1>10

\* Thread p is done.
LEMMA ThreadDone ==
  ASSUME ThreadsOK, NEW p \in Processes, th' = [th EXCEPT ![p] = NewThread]
  PROVE  /\ ThreadsOK' /\ th'[p] = NewThread /\ \A q \in Processes \ {p} : th'[q] = th[q]
BY NewThreadIs, NewThreadRecord

\* The header page that a thread at g_locked has.
LEMMA LockedThread ==
  ASSUME ThreadsOK, NEW p \in Processes, At(p, "g_locked")
  PROVE  th[p].page = HeaderPage /\ th[p].buf \in Copy /\ Stage(th[p]) = "g_locked"
<1>1. th[p] \in Thread /\ ThreadOK(th[p]) /\ Stage(th[p]) = "g_locked"
  BY DEF ThreadsOK, At, Stage
<1> QED BY <1>1 DEF ThreadOK, Latched, Loaded, Writing, Thread

LEMMA WriteHeaderTyped ==
  ASSUME Typed, NEW p \in Processes, At(p, "g_locked"), NEW s \in Modes, NEW n \in Nat,
         WriteHeader(p, s, n)
  PROVE  hdr' \in [mode : Modes, scn : Nat] /\ main' \in [Pages -> Copy]
<1>1. th[p].buf \in Copy
  BY LockedThread DEF Typed
<1>2. [v |-> th[p].buf.v, scn |-> n] \in Copy
  BY <1>1 DEF Copy
<1> QED BY <1>2, BackupAssumption DEF WriteHeader, Typed, FilesOK

LEMMA CleanIs ==
  Clean \in [Pages -> Copy \union {None}] /\ Clean \in [Pages -> Buffer \union {None}]
  /\ \A pg \in Pages : Clean[pg] = None
BY DEF Clean

LEMMA BeginRefusedTyped ==
  ASSUME Typed, NEW p \in Processes, BeginRefused(p)
  PROVE  Typed'
<1>2. Changed(Finish(bm, p))
  BY FinishChanged DEF Typed
<1>3. unlockStateWrite(p, Finish(bm, p)) /\ th' = [th EXCEPT ![p] = NewThread]
      /\ UNCHANGED <<disk, queue, dirty, ast, unlocking, endLock, version, latest, deaths>>
  BY DEF BeginRefused
<1>4. ThreadsOK' /\ FilesOK'
  BY <1>3, ThreadDone, SameFiles DEF Typed
<1> QED BY <1>2, <1>3, <1>4, UnlockStateWriteTyped DEF Typed, WaitsOK

LEMMA beginBackupTyped ==
  ASSUME Typed, NEW p \in Processes, beginBackup(p)
  PROVE  Typed'
<1>1. PICK n \in Nat : n = hdr.scn + 1
  BY DEF Typed, FilesOK
<1>2. PICK B : B = [Finish(bm, p) EXCEPT ![p].backup_state = "stalled", ![p].current_scn = n]
  OBVIOUS
<1>3. /\ At(p, "g_locked") /\ table' = {} /\ delta' = Clean /\ WriteHeader(p, "stalled", n)
      /\ unlockStateWrite(p, B) /\ th' = [th EXCEPT ![p] = NewThread]
      /\ UNCHANGED <<queue, dirty, ast, unlocking, endLock, version, latest, deaths>>
  BY <1>1, <1>2 DEF beginBackup
<1>4. "stalled" \in Modes
  BY DEF Modes
<1>9. ManagersOK
  BY DEF Typed
<1>5. PICK b \in Manager : Begun(p, n) = [bm EXCEPT ![p] = b] /\ Finished(bm[p], b)
  BY <1>9, BegunIs
<1>10. AllocOK(b) /\ b.stateBlocking = bm[p].stateBlocking
  BY <1>5 DEF Finished
<1>6. Changed(B)
  <2>1. Changed([bm EXCEPT ![p] = b])
    BY <1>9, <1>10, ChangedOne
  <2> QED BY <1>2, <1>5, <2>1 DEF Begun
<1>7. hdr' \in [mode : Modes, scn : Nat] /\ main' \in [Pages -> Copy]
  BY <1>3, <1>4, WriteHeaderTyped
<1>8. ThreadsOK' /\ FilesOK'
  BY <1>3, <1>7, ThreadDone, CleanIs DEF Typed, FilesOK
<1> QED BY <1>3, <1>6, <1>8, UnlockStateWriteTyped DEF Typed, WaitsOK

LEMMA BeginFailsTyped ==
  ASSUME Typed, NEW p \in Processes, BeginFails(p)
  PROVE  Typed'
<1>1. PICK B : B = [Finish(bm, p) EXCEPT ![p].backup_state = "unknown"]
  OBVIOUS
<1>2. /\ table' = {} /\ delta' = Clean
      /\ unlockStateWrite(p, B) /\ th' = [th EXCEPT ![p] = NewThread]
      /\ UNCHANGED <<hdr, main, queue, dirty, ast, unlocking, endLock, version, latest, deaths>>
  BY <1>1 DEF BeginFails
<1>3. PICK b \in Manager : /\ B = [bm EXCEPT ![p] = b] /\ AllocOK(b)
                           /\ b.stateBlocking = bm[p].stateBlocking
  BY <1>1, FailedIs DEF Typed, Finished
<1>4. Changed(B)
  BY <1>3, ChangedOne DEF Typed
<1>5. ThreadsOK' /\ FilesOK'
  BY <1>2, ThreadDone, CleanIs DEF Typed, FilesOK
<1> QED BY <1>2, <1>4, <1>5, UnlockStateWriteTyped DEF Typed, WaitsOK

LEMMA SetNormalTyped ==
  ASSUME Typed, NEW p \in Processes, SetNormal(p)
  PROVE  Typed'
<1>1. PICK n \in Nat : n = bm[p].current_scn + 1
  BY TypedParts DEF Manager
<1>2. PICK B : B = [Finish(bm, p) EXCEPT ![p] =
                      [DropAlloc(@) EXCEPT !.backup_state = "normal", !.current_scn = n]]
  OBVIOUS
<1>3. /\ At(p, "g_locked") /\ table' = {} /\ delta' = Clean /\ WriteHeader(p, "normal", n)
      /\ unlockStateWrite(p, B) /\ th' = [th EXCEPT ![p] = NewThread] /\ endLock' = None
      /\ UNCHANGED <<queue, dirty, ast, unlocking, version, latest, deaths>>
  BY <1>1, <1>2 DEF SetNormal
<1>4. "normal" \in Modes
  BY DEF Modes
<1>9. ManagersOK
  BY DEF Typed
<1>5. PICK b \in Manager : Ended(p, n) = [bm EXCEPT ![p] = b] /\ Finished(bm[p], b)
  BY <1>9, EndedIs
<1>10. AllocOK(b) /\ b.stateBlocking = bm[p].stateBlocking
  BY <1>5 DEF Finished
<1>6. Changed(B)
  <2>1. Changed([bm EXCEPT ![p] = b])
    BY <1>9, <1>10, ChangedOne
  <2> QED BY <1>2, <1>5, <2>1 DEF Ended
<1>7. hdr' \in [mode : Modes, scn : Nat] /\ main' \in [Pages -> Copy]
  BY <1>3, <1>4, WriteHeaderTyped
<1>8. ThreadsOK' /\ FilesOK'
  BY <1>3, <1>7, ThreadDone, CleanIs DEF Typed, FilesOK
<1> QED BY <1>3, <1>6, <1>8, UnlockStateWriteTyped

\* The table is read unless there is one.
LEMMA ExtendedIs ==
  ASSUME NEW b \in Manager, AllocOK(b), FilesOK
  PROVE  LET c == Extended(b)
         IN  /\ c \in Manager /\ SameState(b, c) /\ AllocOK(c)
             /\ c.alloc_physical = b.alloc_physical /\ c.alloc_table # None
             /\ Known(c) = Known(b)
             /\ \/ b.alloc_table # None /\ c = b
                \/ b.alloc_table = None /\ ~ c.allocIsValid /\ c.alloc_table = {}
<1>1. PICK c : c = Extended(b)
  OBVIOUS
<1>2. CASE b.alloc_table # None
  BY <1>1, <1>2 DEF Extended, SameState
<1>3. CASE b.alloc_table = None
  <2>1. c \in Manager /\ SameState(b, c) /\ c.alloc_physical = b.alloc_physical
        /\ ~ c.allocIsValid /\ c.alloc_table = Known(b)
    BY <1>1, <1>3, ActualizeAllocIs DEF Extended, FilesOK
  <2>2. Known(b) = {} /\ {} # None
    BY <1>3, BackupAssumption DEF Known
  <2> QED BY <1>1, <1>3, <2>1, <2>2 DEF AllocOK, Known
<1> QED BY <1>1, <1>2, <1>3

\* Process p starts to merge with SCN n: its manager is b before it looks up the
\* header page, and the managers are A then, and B afterwards.
MergeSet(p, n, b, A, B) ==
    /\ n = bm[p].current_scn + 1
    /\ b.backup_state = "merge" /\ b.current_scn = n
    /\ b.master = bm[p].master /\ b.stateBlocking = bm[p].stateBlocking
    /\ b.alloc_table = Extended(bm[p]).alloc_table
    /\ b.alloc_physical = bm[p].alloc_physical
    /\ b.allocIsValid = Extended(bm[p]).allocIsValid
    /\ A = [bm EXCEPT ![p] = b] /\ B = getPageIndex(A, p, HeaderPage)
    /\ Changed(A) /\ Changed(B) /\ Quiet(A, B)
    /\ WriteHeader(p, "merge", n)
    /\ delta' = IF HeaderPage \in Known(B[p])
                THEN [delta EXCEPT ![HeaderPage] = [v |-> th[p].buf.v, scn |-> n]]
                ELSE delta
    /\ unlockStateWrite(p, B)
    /\ th' = [th EXCEPT ![p].pc = "e_guard", ![p].page = None, ![p].buf = None]
    /\ UNCHANGED <<table, queue, dirty, ast, unlocking, endLock, version, latest, deaths>>

\* The managers of the second change of the state, and the files it writes.
LEMMA SetMergeIs ==
  ASSUME Typed, NEW p \in Processes, SetMerge(p), At(p, "g_locked")
  PROVE  \E n \in Nat, b \in Manager, A \in Managers, B \in Managers : MergeSet(p, n, b, A, B)
<1>1. bm[p] \in Manager /\ AllocOK(bm[p]) /\ bm \in [Processes -> Manager]
  BY TypedParts DEF Typed, ManagersOK, Managers
<1>2. PICK n \in Nat : n = bm[p].current_scn + 1
  BY <1>1 DEF Manager
<1>3. PICK e \in Manager : e = Extended(bm[p]) /\ SameState(bm[p], e) /\ AllocOK(e)
                           /\ e.alloc_physical = bm[p].alloc_physical
  BY <1>1, ExtendedIs DEF Typed
<1>13. PICK b : b = [e EXCEPT !.backup_state = "merge", !.current_scn = n]
  OBVIOUS
<1>4. /\ b \in Manager
      /\ b = [e EXCEPT !.backup_state = "merge", !.current_scn = n]
      /\ b.backup_state = "merge" /\ b.current_scn = n
      /\ b.master = e.master /\ b.stateBlocking = e.stateBlocking
      /\ b.alloc_table = e.alloc_table /\ b.alloc_physical = e.alloc_physical
      /\ b.allocIsValid = e.allocIsValid
  BY <1>13 DEF Manager, Modes
<1>5. AllocOK(b) /\ b.stateBlocking = bm[p].stateBlocking /\ b.master = bm[p].master
  BY <1>3, <1>4 DEF AllocOK, SameState
<1>6. PICK C : C = [bm EXCEPT ![p] = b]
  OBVIOUS
<1>7. Changed(C)
  BY <1>4, <1>5, <1>6, ChangedOne DEF Typed
<1>8. PICK B : B = getPageIndex(C, p, HeaderPage)
  OBVIOUS
<1>9. Quiet(C, B)
  BY <1>7, <1>8, GetPageIndexQuiet, BackupAssumption DEF Changed, Typed, FilesOK
<1>10. Changed(B)
  BY <1>7, <1>9 DEF Changed, Quiet, SameState
<1>11. [bm EXCEPT ![p] = [Extended(@) EXCEPT !.backup_state = "merge", !.current_scn = n]] = C
  BY <1>1, <1>3, <1>4, <1>6
<1>12. /\ WriteHeader(p, "merge", n)
       /\ delta' = IF Mapped(B, p, HeaderPage)
                   THEN [delta EXCEPT ![HeaderPage] = [v |-> th[p].buf.v, scn |-> n]]
                   ELSE delta
       /\ unlockStateWrite(p, B)
       /\ th' = [th EXCEPT ![p].pc = "e_guard", ![p].page = None, ![p].buf = None]
       /\ UNCHANGED <<table, queue, dirty, ast, unlocking, endLock, version, latest, deaths>>
  BY <1>2, <1>8, <1>11 DEF SetMerge
<1>14. B \in Managers /\ C \in Managers
  BY <1>7, <1>10 DEF Changed
<1>15. /\ b.alloc_table = Extended(bm[p]).alloc_table /\ b.alloc_physical = bm[p].alloc_physical
       /\ b.allocIsValid = Extended(bm[p]).allocIsValid
  BY <1>3, <1>4
<1>16. MergeSet(p, n, b, C, B)
  BY <1>2, <1>4, <1>5, <1>6, <1>7, <1>8, <1>9, <1>10, <1>12, <1>15 DEF MergeSet, Mapped
<1> QED BY <1>2, <1>4, <1>14, <1>16

\* The thread goes on to the pages of the merge.
LEMMA GuardedIs ==
  ASSUME ThreadsOK, NEW p \in Processes,
         th' = [th EXCEPT ![p].pc = "e_guard", ![p].page = None, ![p].buf = None]
  PROVE  /\ ThreadsOK' /\ th'[p].pc = "e_guard" /\ Stage(th'[p]) = "e_guard"
         /\ th'[p].op = th[p].op /\ th'[p].page = None /\ th'[p].todo = th[p].todo
         /\ \A q \in Processes \ {p} : th'[q] = th[q]
<1>1. th[p] \in Thread
  BY DEF ThreadsOK
<1>2. PICK t : t = [th[p] EXCEPT !.pc = "e_guard", !.page = None, !.buf = None]
  OBVIOUS
<1>3. t \in Thread /\ t.pc = "e_guard" /\ t.page = None /\ t.op = th[p].op
      /\ t.todo = th[p].todo
  BY <1>1, <1>2 DEF Thread, PCs
<1>4. ThreadOK(t) /\ Stage(t) = "e_guard"
  BY <1>3 DEF ThreadOK, Stage, Latched, Writing, Loaded
<1>5. th' = [th EXCEPT ![p] = t]
  BY <1>2 DEF ThreadsOK
<1>6. ThreadsOK' /\ th'[p] = t /\ \A q \in Processes \ {p} : th'[q] = th[q]
  BY <1>3, <1>4, <1>5, NewThreadRecord
<1> QED BY <1>3, <1>4, <1>6

LEMMA EndLockedTyped ==
  ASSUME Typed, NEW p \in Processes, EndLocked(p)
  PROVE  Typed'
<1>1. At(p, "g_locked")
  BY DEF EndLocked
<1>2. CASE EndRefused(p)
  <2>2. Changed(Finish(bm, p))
    BY FinishChanged DEF Typed
  <2>3. unlockStateWrite(p, Finish(bm, p)) /\ th' = [th EXCEPT ![p] = NewThread] /\ endLock' = None
        /\ UNCHANGED <<disk, queue, dirty, ast, unlocking, version, latest, deaths>>
    BY <1>2 DEF EndRefused
  <2>4. ThreadsOK' /\ FilesOK'
    BY <2>3, ThreadDone, SameFiles DEF Typed
  <2> QED BY <2>2, <2>3, <2>4, UnlockStateWriteTyped
<1>3. CASE SetMerge(p)
  <2> PICK n \in Nat, b \in Manager, A \in Managers, B \in Managers : MergeSet(p, n, b, A, B)
    BY <1>1, <1>3, SetMergeIs
  <2>1. /\ Changed(B)
        /\ WriteHeader(p, "merge", n)
        /\ delta' = IF HeaderPage \in Known(B[p])
                    THEN [delta EXCEPT ![HeaderPage] = [v |-> th[p].buf.v, scn |-> n]]
                    ELSE delta
        /\ unlockStateWrite(p, B)
        /\ th' = [th EXCEPT ![p].pc = "e_guard", ![p].page = None, ![p].buf = None]
        /\ UNCHANGED <<table, queue, dirty, ast, unlocking, endLock, version, latest, deaths>>
    BY DEF MergeSet
  <2>2. hdr' \in [mode : Modes, scn : Nat] /\ main' \in [Pages -> Copy]
    BY <1>1, <2>1, WriteHeaderTyped DEF Modes
  <2>3. delta' \in [Pages -> Copy \union {None}]
    <3>1. th[p].buf \in Copy
      BY <1>1, LockedThread DEF Typed
    <3>2. [v |-> th[p].buf.v, scn |-> n] \in Copy
      BY <3>1 DEF Copy
    <3> QED BY <2>1, <3>2 DEF Typed, FilesOK
  <2>4. FilesOK'
    BY <2>1, <2>2, <2>3 DEF Typed, FilesOK
  <2>5. ThreadsOK'
    BY <2>1, GuardedIs DEF Typed
  <2> QED BY <2>1, <2>4, <2>5, UnlockStateWriteTyped DEF Typed, WaitsOK
<1> QED BY <1>2, <1>3 DEF EndLocked

\* endLock is checked and the thread goes on, or gives up.
LEMMA CheckStateTyped ==
  ASSUME Typed, NEW p \in Processes, CheckState(p)
  PROVE  Typed'
<1>1. ManagersOK /\ FilesOK /\ ThreadsOK /\ bm[p] \in Manager /\ AllocOK(bm[p])
      /\ bm \in [Processes -> Manager]
  BY TypedParts DEF Typed, ManagersOK, Managers
<1>2. endRead(p) /\ UNCHANGED <<disk, rw, queue, dirty, ast, version, latest, deaths>>
  BY DEF CheckState
<1>3. CASE Mergeable(p)
  <2>1. /\ bm' = IF bm[p].backup_state = "stalled" THEN [bm EXCEPT ![p] = Extended(bm[p])] ELSE bm
        /\ th' = [th EXCEPT ![p] = Guard(p, th[p].op)] /\ UNCHANGED endLock
    BY <1>1, <1>3 DEF CheckState
  <2>2. PICK e \in Manager : e = Extended(bm[p]) /\ SameState(bm[p], e) /\ AllocOK(e)
    BY <1>1, ExtendedIs
  <2>3. ManagersOK' /\ \A q \in Processes : bm'[q].stateBlocking = bm[q].stateBlocking
    <3>1. CASE bm[p].backup_state = "stalled"
      <4>1. bm' = [bm EXCEPT ![p] = e]
        BY <2>1, <2>2, <3>1
      <4>2. ManagersOK' /\ bm'[p] = e /\ \A q \in Processes \ {p} : bm'[q] = bm[q]
        BY <1>1, <2>2, <4>1, OneManager
      <4> QED BY <2>2, <4>2 DEF SameState
    <3>2. CASE bm[p].backup_state # "stalled"
      BY <1>1, <2>1, <3>2, SameManagers
    <3> QED BY <3>1, <3>2
  <2>4. ThreadsOK'
    <3>1. PICK t : t = [th[p] EXCEPT !.pc = "g_flush", !.op = th[p].op, !.page = None, !.buf = None]
      OBVIOUS
    <3>2. th[p] \in Thread
      BY <1>1 DEF ThreadsOK
    <3>3. t \in Thread /\ t.pc = "g_flush" /\ t.page = None
      BY <3>1, <3>2 DEF Thread, PCs
    <3>4. ThreadOK(t)
      BY <3>3 DEF ThreadOK, Stage, Latched, Loaded, Writing
    <3>5. th' = [th EXCEPT ![p] = t]
      BY <2>1, <3>1 DEF Guard
    <3> QED BY <1>1, <3>3, <3>4, <3>5, NewThreadRecord
  <2>5. AllSeenTo'
    BY <1>2, <2>3, SameSeen DEF Typed
  <2>6. FilesOK' /\ WaitsOK' /\ DirtyTyped'
    BY <1>2, <2>1, SameFiles, SameWaits, SameDirty DEF Typed
  <2> QED BY <2>3, <2>4, <2>5, <2>6 DEF Typed
<1>4. CASE ~ Mergeable(p)
  <2>1. bm' = Finish(bm, p) /\ th' = [th EXCEPT ![p] = NewThread] /\ endLock' = None
    BY <1>4 DEF CheckState
  <2>2. PICK b \in Manager : /\ Finish(bm, p) = [bm EXCEPT ![p] = b] /\ AllocOK(b)
                             /\ b.stateBlocking = bm[p].stateBlocking
    BY <1>1, FinishIs
  <2>3. ManagersOK' /\ bm'[p] = b /\ \A q \in Processes \ {p} : bm'[q] = bm[q]
    BY <1>1, <2>1, <2>2, OneManager
  <2>4. AllSeenTo'
    BY <1>2, <2>2, <2>3, SameSeen DEF Typed
  <2>5. ThreadsOK'
    BY <1>1, <2>1, ThreadDone
  <2>6. FilesOK' /\ DirtyTyped'
    BY <1>2, SameFiles, SameDirty DEF Typed
  <2>7. WaitsOK'
    BY <1>2, <2>1 DEF Typed, WaitsOK, endRead
  <2> QED BY <2>3, <2>4, <2>5, <2>6, <2>7 DEF Typed
<1> QED BY <1>3, <1>4

\* A new attachment reads the table.
LEMMA InitializeAllocIs ==
  ASSUME Typed, NEW p \in Processes, initializeAlloc(p)
  PROVE  /\ ManagersOK' /\ OnlyManager(p) /\ SameState(bm[p], bm'[p])
         /\ bm'[p].alloc_physical = bm[p].alloc_physical
         /\ \/ bm'[p] = bm[p] /\ bm[p].backup_state = "normal"
            \/ ~ bm'[p].allocIsValid /\ bm'[p].alloc_table = Known(bm[p])
         /\ ThreadsOK' /\ th'[p].pc = "a_recover" /\ Stage(th'[p]) = "a_recover"
         /\ th'[p].op = th[p].op /\ th'[p].page = None
         /\ \A q \in Processes \ {p} : th'[q] = th[q]
<1>1. ManagersOK /\ FilesOK /\ ThreadsOK /\ bm[p] \in Manager /\ AllocOK(bm[p])
      /\ bm \in [Processes -> Manager] /\ th[p] \in Thread /\ ThreadOK(th[p])
      /\ th[p].pc = "a_alloc"
  BY TypedParts DEF Typed, ManagersOK, Managers, initializeAlloc, At
<1>2. /\ ManagersOK' /\ OnlyManager(p) /\ SameState(bm[p], bm'[p])
      /\ bm'[p].alloc_physical = bm[p].alloc_physical
      /\ \/ bm'[p] = bm[p] /\ bm[p].backup_state = "normal"
         \/ ~ bm'[p].allocIsValid /\ bm'[p].alloc_table = Known(bm[p])
  <2>1. CASE bm[p].backup_state # "normal"
    <3>1. PICK b \in Manager : /\ b = actualizeAlloc(bm[p], FALSE) /\ SameState(bm[p], b)
                               /\ b.alloc_physical = bm[p].alloc_physical /\ ~ b.allocIsValid
                               /\ b.alloc_table = Known(bm[p])
      BY <1>1, ActualizeAllocIs DEF FilesOK
    <3>2. bm' = [bm EXCEPT ![p] = b]
      BY <1>1, <2>1, <3>1 DEF initializeAlloc
    <3>3. Known(bm[p]) \in SUBSET Pages
      BY <1>1, KnownIs
    <3>4. AllocOK(b)
      BY <3>1, <3>3, BackupAssumption DEF AllocOK
    <3>5. ManagersOK' /\ bm'[p] = b /\ \A q \in Processes \ {p} : bm'[q] = bm[q]
      BY <1>1, <3>2, <3>4, OneManager
    <3> QED BY <3>1, <3>5 DEF OnlyManager
  <2>2. CASE bm[p].backup_state = "normal"
    <3>1. UNCHANGED bm
      BY <2>2 DEF initializeAlloc
    <3> QED BY <1>1, <2>2, <3>1, SameManagers DEF OnlyManager, SameState
  <2> QED BY <2>1, <2>2
<1>3. PICK t : t = [th[p] EXCEPT !.pc = "a_recover"]
  OBVIOUS
<1>4. t \in Thread /\ t.pc = "a_recover" /\ t.page = th[p].page /\ t.op = th[p].op
  BY <1>1, <1>3 DEF Thread, PCs
<1>5. t.page = None /\ Stage(t) = "a_recover" /\ ThreadOK(t)
  BY <1>1, <1>4 DEF ThreadOK, Stage, Latched, Loaded, Writing
<1>6. th' = [th EXCEPT ![p] = t]
  BY <1>3 DEF initializeAlloc, ThreadsOK
<1>7. ThreadsOK' /\ th'[p] = t /\ \A q \in Processes \ {p} : th'[q] = th[q]
  BY <1>1, <1>4, <1>5, <1>6, NewThreadRecord
<1> QED BY <1>2, <1>4, <1>5, <1>7

LEMMA initializeAllocTyped ==
  ASSUME Typed, NEW p \in Processes, initializeAlloc(p)
  PROVE  Typed'
<1>1. ManagersOK' /\ OnlyManager(p) /\ SameState(bm[p], bm'[p]) /\ ThreadsOK'
  BY InitializeAllocIs
<1>2. endRead(p) /\ UNCHANGED <<disk, rw, queue, dirty, ast, endLock, version, latest, deaths>>
  BY DEF initializeAlloc
<1>3. AllSeenTo'
  BY <1>1, <1>2, SameSeen DEF Typed, OnlyManager, SameState
<1>4. FilesOK' /\ WaitsOK' /\ DirtyTyped'
  BY <1>2, SameFiles, SameWaits, SameDirty DEF Typed
<1> QED BY <1>1, <1>3, <1>4 DEF Typed

\* What a new process knows and has.
LEMMA NewIs ==
  /\ NewManager \in Manager /\ AllocOK(NewManager) /\ NewManager.backup_state = "unknown"
  /\ NewManager.current_scn = 0 /\ NewManager.alloc_table = None
  /\ ~ NewManager.allocIsValid /\ NewManager.alloc_physical = "none" /\ ~ NewManager.master
  /\ ~ NewManager.stateBlocking
  /\ NewRWLock \in RWLock /\ NewRWLock.lck_physical = "none" /\ NewRWLock.want = "none"
  /\ ~ NewRWLock.currentWriter /\ ~ NewRWLock.blocking /\ ~ NewRWLock.seen
BY DEF NewManager, Manager, AllocOK, Levels, NewRWLock, RWLock

OutThread == [NewThread EXCEPT !.pc = "out"]

LEMMA OutThreadIs ==
  /\ OutThread \in Thread /\ OutThread.pc = "out" /\ OutThread.page = None
  /\ OutThread.op = "none" /\ ThreadOK(OutThread) /\ Stage(OutThread) = "out"
<1>1. OutThread \in Thread /\ OutThread.pc = "out" /\ OutThread.page = None
      /\ OutThread.op = "none"
  BY NewThreadIs DEF OutThread, Thread, PCs
<1>2. Stage(OutThread) = "out"
  BY <1>1 DEF Stage
<1>3. ThreadOK(OutThread)
  BY <1>1, <1>2 DEF ThreadOK, Latched, Loaded, Writing
<1> QED BY <1>1, <1>2, <1>3

\* The process is gone.
LEMMA GoneIs ==
  ASSUME Typed, NEW p \in Processes, Gone(p)
  PROVE  /\ OnlyLock(p) /\ rw'[p] = NewRWLock /\ WaitsOK' /\ queue' = Without(p)
         /\ OnlyManager(p) /\ bm'[p] = NewManager /\ ManagersOK' /\ AllSeenTo'
         /\ ThreadsOK' /\ th'[p] = OutThread /\ \A q \in Processes \ {p} : th'[q] = th[q]
         /\ DirtyTyped' /\ (\A pg \in Pages : dirty'[p][pg] = None)
         /\ \A q \in Processes \ {p} : dirty'[q] = dirty[q]
         /\ version' = version /\ deaths' \in 0 .. MaxDeaths /\ p \in Mortal
<1>1. Without(p) \in Seq(Processes)
  BY WithoutQueue DEF Typed, WaitsOK
<1>2. /\ deaths < MaxDeaths /\ deaths' = deaths + 1
      /\ rw' = [rw EXCEPT ![p] = NewRWLock]
      /\ queue' = Without(p)
      /\ bm' = [bm EXCEPT ![p] = NewManager]
      /\ dirty' = [dirty EXCEPT ![p] = Clean]
      /\ th' = [th EXCEPT ![p] = OutThread]
      /\ ast' = ast \ {p}
      /\ unlocking' = unlocking \ {p}
      /\ endLock' = IF endLock = p THEN None ELSE endLock
      /\ version' = version /\ p \in Mortal
  BY DEF Gone, OutThread
<1>3. rw'[p] = NewRWLock /\ OnlyLock(p)
  BY <1>2, NewIs, OneLock DEF OnlyLock, Typed
<1>4. ManagersOK' /\ bm'[p] = NewManager /\ OnlyManager(p)
  BY <1>2, NewIs, OneManager DEF OnlyManager, Typed
<1>5. ThreadsOK' /\ th'[p] = OutThread /\ \A q \in Processes \ {p} : th'[q] = th[q]
  BY <1>2, OutThreadIs, NewThreadRecord DEF Typed
<1>6. DirtyTyped' /\ dirty'[p] = Clean /\ \A q \in Processes \ {p} : dirty'[q] = dirty[q]
  BY <1>2, CleanIs DEF Typed, DirtyTyped
<1>7. \A pg \in Pages : dirty'[p][pg] = None
  BY <1>6, CleanIs
<1>8. deaths' \in 0 .. MaxDeaths
  BY <1>2, BackupAssumption DEF Typed, FilesOK
<1>9. WaitsOK'
  BY <1>1, <1>2, <1>3 DEF Typed, WaitsOK, OnlyLock
<1>10. SeenTo(p)'
  BY <1>3, NewIs DEF SeenTo
<1>11. AllSeenTo'
  BY <1>2, <1>3, <1>4, <1>10, OthersSeen DEF OnlyManager, Typed
<1> QED BY <1>2, <1>3, <1>4, <1>5, <1>6, <1>7, <1>8, <1>9, <1>11

LEMMA DieTyped ==
  ASSUME Typed, NEW p \in Processes, Die(p)
  PROVE  Typed'
<1>1. Gone(p) /\ UNCHANGED <<disk, latest>>
  BY DEF Die
<1>2. /\ WaitsOK' /\ ManagersOK' /\ AllSeenTo' /\ ThreadsOK' /\ DirtyTyped'
      /\ version' = version /\ deaths' \in 0 .. MaxDeaths
  BY <1>1, GoneIs
<1>3. FilesOK'
  BY <1>1, <1>2 DEF Typed, FilesOK, disk
<1> QED BY <1>2, <1>3 DEF Typed

LEMMA DieWritingTyped ==
  ASSUME Typed, NEW p \in Processes, DieWriting(p)
  PROVE  Typed'
<1>1. /\ WaitsOK' /\ ManagersOK' /\ AllSeenTo' /\ ThreadsOK' /\ DirtyTyped'
      /\ version' = version /\ deaths' \in 0 .. MaxDeaths
  BY GoneIs DEF DieWriting
<1>2. PICK pg \in DirtyPages(p) : /\ delta' = [delta EXCEPT ![pg] = CopyOf(dirty[p][pg])]
                                  /\ latest' = Latest(pg, dirty[p][pg].v)
                                  /\ UNCHANGED <<hdr, main, table>>
  BY DEF DieWriting
<1>3. pg \in Pages /\ dirty[p][pg] \in Buffer
  BY DEF DirtyPages, Typed, DirtyTyped
<1>4. PICK b \in Buffer : b = dirty[p][pg]
  BY <1>3
<1>5. CopyOf(b) \in Copy /\ b.v \in Nat
  BY <1>4 DEF CopyOf, Copy, Buffer
<1>6. delta' \in [Pages -> Copy \union {None}] /\ latest' \in [Pages -> Nat]
  BY <1>2, <1>3, <1>4, <1>5 DEF Typed, FilesOK, Latest
<1>7. FilesOK'
  BY <1>1, <1>2, <1>6 DEF Typed, FilesOK
<1> QED BY <1>1, <1>7 DEF Typed

\* It is so at the beginning.
LEMMA InitTyped ==
  ASSUME Init
  PROVE  Typed
<1>1. FilesOK
  BY CleanIs, BackupAssumption DEF Init, FilesOK, Modes, Copy
<1>2. WaitsOK
  BY NewIs DEF Init, WaitsOK
<1>3. ManagersOK
  BY NewIs DEF Init, ManagersOK, Managers
<1>4. DirtyTyped
  BY CleanIs DEF Init, DirtyTyped
<1>5. ThreadsOK
  BY NewThreadIs DEF Init, ThreadsOK
<1>6. AllSeenTo
  BY NewIs DEF Init, AllSeenTo, SeenTo
<1> QED BY <1>1, <1>2, <1>3, <1>4, <1>5, <1>6 DEF Typed

\* Every step keeps it.
LEMMA NextTyped ==
  ASSUME Typed, [Next]_vars
  PROVE  Typed'
<1>1. CASE UNCHANGED vars
  <2>1. UNCHANGED <<disk, rw, queue, bm, dirty, th, ast, unlocking, endLock, version, latest, deaths>>
    BY <1>1 DEF vars
  <2>2. FilesOK' /\ WaitsOK' /\ ManagersOK' /\ DirtyTyped'
    BY <2>1, SameFiles, SameWaits, SameManagers, SameDirty DEF Typed
  <2>3. ThreadsOK'
    BY <2>1 DEF Typed, ThreadsOK
  <2>4. AllSeenTo'
    BY <2>1, SameSeen DEF Typed
  <2> QED BY <2>2, <2>3, <2>4 DEF Typed
<1>2. ASSUME NEW p \in Processes, PageStep(p) PROVE Typed'
  BY <1>2, CCH_fetchTyped, CCH_fetch_pageTyped, CCH_markTyped, CCH_releaseTyped, ModifyTyped,
     write_pageTyped DEF PageStep
<1>3. ASSUME NEW p \in Processes, StateLockStep(p) PROVE Typed'
  BY <1>3, GrantTyped, lockReadTyped, unlockStateReadTyped, blockingAstHandlerTyped,
     tryBeginWriteTyped, lockWriteTyped, WriteGrantedTyped DEF StateLockStep
<1>4. ASSUME NEW p \in Processes, BackupStep(p) PROVE Typed'
  BY <1>4, StartBeginTyped, StartEndTyped, GuardFetchTyped, CCH_fetch_pageTyped,
     BeginRefusedTyped, beginBackupTyped, BeginFailsTyped, CheckStateTyped, EndLockedTyped,
     MergeGuardTyped, MergeAllocTyped, MergeFetchTyped, MergeMarkTyped, MergePageTyped,
     MergeSkipTyped, MergeOverTyped, SetNormalTyped DEF BackupStep
<1>5. ASSUME NEW p \in Processes, ProcessStep(p) PROVE Typed'
  BY <1>5, DieTyped, DieWritingTyped, AttachTyped, initializeAllocTyped DEF ProcessStep
<1> QED BY <1>1, <1>2, <1>3, <1>4, <1>5 DEF Next

\* In every reachable state the managers, locks, threads and pages have their types.
THEOREM TypeCorrect == Spec => []TypeOK
<1>1. Init => Typed
  BY InitTyped
<1>2. Typed /\ [Next]_vars => Typed'
  BY NextTyped
<1>3. Typed => TypeOK
  BY TypedIs
<1> QED BY <1>1, <1>2, <1>3, PTL DEF Spec

-----------------------------------------------------------------------------
(* Who sees to a request to step down.                                     *)

\* Where the thread of a process that makes no backups is found.
Plain == {"idle", "f_read", "held", "m_mark"}

\* A process that is never master: its flag has a reader, or a handler, to look at it.
AttendedBy(p) == LocalReaders(p) \/ p \in unlocking
Attended(p) ==
    /\ ~ bm[p].master /\ Stage(th[p]) \in Plain
    /\ bm[p].stateBlocking /\ p \notin ast => AttendedBy(p)

AllAttended == \A p \in Processes : ~ Backs(p) => Attended(p)

\* A step of another process.
Apart(p) ==
    /\ th'[p] = th[p] /\ DirtyPages(p)' = DirtyPages(p)
    /\ bm'[p].master = bm[p].master /\ bm'[p].stateBlocking = bm[p].stateBlocking
    /\ (p \in ast' <=> p \in ast) /\ (p \in unlocking' <=> p \in unlocking)

Alone(p) == \A q \in Processes \ {p} : Apart(q)

\* It concerns the process itself only.
LEMMA AttendedByOne ==
  ASSUME AllAttended, NEW p \in Processes, Alone(p), ~ Backs(p) => Attended(p)'
  PROVE  AllAttended'
<1>1. ASSUME NEW q \in Processes, ~ Backs(q) PROVE Attended(q)'
  <2>1. CASE q = p
    BY <1>1, <2>1
  <2>2. CASE q # p
    <3>1. Attended(q) /\ Apart(q)
      BY <1>1, <2>2 DEF AllAttended, Alone
    <3>2. (AttendedBy(q)' <=> AttendedBy(q)) /\ Stage(th'[q]) = Stage(th[q])
      BY <3>1 DEF Apart, AttendedBy, LocalReaders
    <3> QED BY <3>1, <3>2 DEF Apart, Attended
  <2> QED BY <2>1, <2>2
<1> QED BY <1>1 DEF AllAttended, Backs

\* The parts of Apart, when only p is written to.
LEMMA AloneIs ==
  ASSUME Typed, NEW p \in Processes,
         \A q \in Processes \ {p} : th'[q] = th[q],
         \A q \in Processes \ {p} : bm'[q] = bm[q] \/ SameState(bm[q], bm'[q]),
         \A q \in Processes \ {p} : dirty'[q] = dirty[q],
         ast' \in {ast, ast \union {p}, ast \ {p}},
         unlocking' \in {unlocking, unlocking \union {p}, unlocking \ {p}}
  PROVE  Alone(p)
<1>1. ASSUME NEW q \in Processes \ {p} PROVE Apart(q)
  <2>1. DirtyPages(q)' = DirtyPages(q)
    BY DEF DirtyPages
  <2>2. bm'[q].master = bm[q].master /\ bm'[q].stateBlocking = bm[q].stateBlocking
    BY DEF SameState
  <2>3. (q \in ast' <=> q \in ast) /\ (q \in unlocking' <=> q \in unlocking)
    OBVIOUS
  <2> QED BY <2>1, <2>2, <2>3 DEF Apart
<1> QED BY <1>1 DEF Alone

\* A thread that goes for the state lock.
LEMMA lockStateReadAlone ==
  ASSUME Typed, NEW p \in Processes, NEW t \in Thread, NEW s \in Returns, lockStateRead(p, t, s)
  PROVE  /\ \A q \in Processes \ {p} : th'[q] = th[q]
         /\ Stage(th'[p]) = s /\ th'[p].pc \in {s, "locking"}
<1>1. PICK u \in Thread : /\ th' = [th EXCEPT ![p] = u] /\ Stage(u) = s /\ u.pc \in {s, "locking"}
  BY LockStateReadIs DEF Typed
<1>2. th'[p] = u /\ \A q \in Processes \ {p} : th'[q] = th[q]
  BY <1>1 DEF Typed, ThreadsOK
<1> QED BY <1>1, <1>2

\* A page is fetched, and the lock on the table may be taken from others.
LEMMA QuietAlone ==
  ASSUME Typed, NEW p \in Processes, NEW pg \in Pages, bm' \in {Indexed(p, pg), Placed(p, pg)}
  PROVE  \A q \in Processes : SameState(bm[q], bm'[q])
BY PlacedQuiet DEF Typed, Quiet

\* The thread of an attended process that wants the lock, or has it.
LEMMA AttendedLocks ==
  ASSUME Typed, NEW p \in Processes, Attended(p), NEW t \in Thread,
         NEW s \in {"f_read", "m_mark"},
         lockStateRead(p, t, s), UNCHANGED <<bm, ast, unlocking>>
  PROVE  Attended(p)'
<1>1. Stage(th'[p]) = s /\ th'[p].pc \in {s, "locking"}
  BY lockStateReadAlone DEF Returns
<1>2. LocalReaders(p)'
  BY <1>1 DEF LocalReaders, LocalRead
<1> QED BY <1>1, <1>2 DEF Attended, AttendedBy, Plain

LEMMA CCH_fetchAttended ==
  ASSUME Typed, AllAttended, NEW p \in Processes, CCH_fetch(p)
  PROVE  AllAttended'
<1>1. PICK pg \in Pages : FetchPage(p, th[p], pg, "f_read")
  BY DEF CCH_fetch
<1>2. UNCHANGED <<disk, bm, dirty, ast, unlocking, endLock, version, latest, deaths>>
  BY DEF CCH_fetch
<1>3. PICK t \in Thread : lockStateRead(p, t, "f_read")
  <2>1. [th[p] EXCEPT !.page = pg] \in Thread
    BY TypedParts DEF Thread
  <2> QED BY <1>1, <2>1 DEF FetchPage
<1>4. \A q \in Processes \ {p} : th'[q] = th[q]
  BY <1>3, lockStateReadAlone DEF Returns
<1>5. Alone(p)
  BY <1>2, <1>4, AloneIs
<1>6. ASSUME ~ Backs(p) PROVE Attended(p)'
  BY <1>2, <1>3, <1>6, AttendedLocks DEF AllAttended
<1> QED BY <1>5, <1>6, AttendedByOne

LEMMA CCH_markAttended ==
  ASSUME Typed, AllAttended, NEW p \in Processes, CCH_mark(p)
  PROVE  AllAttended'
<1>1. th[p] \in Thread /\ lockStateRead(p, th[p], "m_mark")
      /\ UNCHANGED <<disk, bm, dirty, ast, unlocking, endLock, version, latest, deaths>>
  BY TypedParts DEF CCH_mark
<1>2. \A q \in Processes \ {p} : th'[q] = th[q]
  BY <1>1, lockStateReadAlone DEF Returns
<1>3. Alone(p)
  BY <1>1, <1>2, AloneIs
<1>4. ASSUME ~ Backs(p) PROVE Attended(p)'
  BY <1>1, <1>4, AttendedLocks DEF AllAttended
<1> QED BY <1>3, <1>4, AttendedByOne

\* The state is unlocked when the page has been read.
LEMMA CCH_fetch_pageAttended ==
  ASSUME Typed, AllAttended, NEW p \in Processes,
         CCH_fetch_page(p, "f_read", "held") \/ CCH_fetch_page(p, "g_read", "g_held")
  PROVE  AllAttended'
<1>1. PICK from \in {"f_read", "g_read"}, to \in {"held", "g_held"} :
         CCH_fetch_page(p, from, to) /\ (from = "g_read" <=> to = "g_held")
  OBVIOUS
<1>2. /\ th[p] \in Thread /\ ThreadOK(th[p]) /\ th[p].pc = from /\ Stage(th[p]) = from
  BY <1>1, TypedParts DEF CCH_fetch_page, At, Stage
<1>3. PICK pg : pg = th[p].page
  OBVIOUS
<1>4. pg \in Pages
  BY <1>1, <1>2, <1>3 DEF ThreadOK, Latched, Writing, Thread
<1>5. /\ bm' = Indexed(p, pg) /\ unlocking' = unlocking \union {p}
      /\ th' = [th EXCEPT ![p].pc = to, ![p].buf = PageRead(bm', p, pg)]
      /\ UNCHANGED <<dirty, ast>>
  BY <1>1, <1>3 DEF CCH_fetch_page, endRead
<1>6. \A q \in Processes : SameState(bm[q], bm'[q])
  BY <1>4, <1>5, QuietAlone
<1>7. th'[p].pc = to /\ \A q \in Processes \ {p} : th'[q] = th[q]
  BY <1>2, <1>5 DEF Typed, ThreadsOK, Thread
<1>8. Alone(p)
  BY <1>5, <1>6, <1>7, AloneIs
<1>9. ASSUME ~ Backs(p) PROVE Attended(p)'
  <2>1. Attended(p) /\ from = "f_read" /\ to = "held"
    BY <1>1, <1>2, <1>9 DEF AllAttended, Attended, Plain
  <2>2. Stage(th'[p]) = "held"
    BY <1>7, <2>1 DEF Stage
  <2>3. AttendedBy(p)'
    BY <1>5 DEF AttendedBy
  <2> QED BY <1>6, <2>1, <2>2, <2>3 DEF Attended, Plain, SameState
<1> QED BY <1>8, <1>9, AttendedByOne

\* A thread that is done without having been a reader.
LEMMA CCH_releaseAttended ==
  ASSUME Typed, AllAttended, NEW p \in Processes, CCH_release(p)
  PROVE  AllAttended'
<1>1. th[p].pc = "held" /\ th' = [th EXCEPT ![p] = NewThread]
      /\ UNCHANGED <<disk, rw, queue, bm, dirty, ast, unlocking, endLock, version, latest, deaths>>
  BY DEF CCH_release, At
<1>2. th'[p] = NewThread /\ \A q \in Processes \ {p} : th'[q] = th[q]
  BY <1>1, ThreadDone DEF Typed
<1>3. Alone(p)
  BY <1>1, <1>2, AloneIs
<1>4. ASSUME ~ Backs(p) PROVE Attended(p)'
  <2>1. Attended(p)
    BY <1>4 DEF AllAttended
  <2>2. DirtyPages(p)' = DirtyPages(p)
    BY <1>1 DEF DirtyPages
  <2>3. AttendedBy(p) => AttendedBy(p)'
    BY <1>1, <2>2 DEF AttendedBy, LocalReaders, LocalRead
  <2> QED BY <1>1, <1>2, <2>1, <2>3, NewThreadIs DEF Attended, Plain
<1> QED BY <1>3, <1>4, AttendedByOne

\* The dirty page becomes the reader.
LEMMA ModifyAttended ==
  ASSUME Typed, AllAttended, NEW p \in Processes, Modify(p)
  PROVE  AllAttended'
<1>1. th[p] \in Thread /\ ThreadOK(th[p]) /\ th[p].pc = "m_mark"
  BY TypedParts DEF Modify, At
<1>2. PICK pg : pg = th[p].page
  OBVIOUS
<1>3. pg \in Pages
  BY <1>1, <1>2 DEF ThreadOK, Stage, Latched, Thread
<1>4. PICK d : /\ dirty' = [dirty EXCEPT ![p][pg] = d] /\ d # None
  <2> DEFINE B == Placed(p, pg)
             d == [v |-> version[pg] + 1, scn |-> B[p].current_scn,
                   diff |-> B[p].backup_state \in {"stalled", "merge"} /\ Mapped(B, p, pg)]
  <2>1. dirty' = [dirty EXCEPT ![p][pg] = d]
    BY <1>2 DEF Modify, set_diff_page
  <2>2. d \in [v : Nat, scn : Nat, diff : BOOLEAN]
    <3>1. version[pg] + 1 \in Nat
      BY <1>3 DEF Typed, FilesOK
    <3>2. B[p].current_scn \in Nat
      BY <1>3, PlacedQuiet DEF Typed, Quiet, Managers, Manager
    <3> HIDE DEF B
    <3> QED BY <3>1, <3>2
  <2>3. d # None
    BY <2>2, BackupAssumption
  <2> QED BY <2>1, <2>3
<1>5. bm' = Placed(p, pg) /\ th' = [th EXCEPT ![p] = NewThread] /\ UNCHANGED <<ast, unlocking>>
  BY <1>2 DEF Modify, set_diff_page
<1>6. \A q \in Processes : SameState(bm[q], bm'[q])
  BY <1>3, <1>5, QuietAlone
<1>7. th'[p] = NewThread /\ \A q \in Processes \ {p} : th'[q] = th[q]
  BY <1>5, ThreadDone DEF Typed
<1>8. dirty'[p][pg] = d /\ \A q \in Processes \ {p} : dirty'[q] = dirty[q]
  BY <1>3, <1>4 DEF Typed, DirtyTyped
<1>9. Alone(p)
  BY <1>5, <1>6, <1>7, <1>8, AloneIs
<1>10. ASSUME ~ Backs(p) PROVE Attended(p)'
  <2>1. AttendedBy(p)'
    BY <1>3, <1>4, <1>8 DEF AttendedBy, LocalReaders, DirtyPages
  <2> QED BY <1>6, <1>7, <1>10, <2>1, NewThreadIs DEF AllAttended, Attended, Plain, SameState
<1> QED BY <1>9, <1>10, AttendedByOne

LEMMA write_pageAttended ==
  ASSUME Typed, AllAttended, NEW p \in Processes, write_page(p)
  PROVE  AllAttended'
<1>1. PICK pg \in DirtyPages(p) :
        /\ dirty' = [dirty EXCEPT ![p][pg] = None] /\ unlocking' = unlocking \union {p}
        /\ UNCHANGED <<bm, th, ast>>
  BY DEF write_page, endRead
<1>2. \A q \in Processes \ {p} : dirty'[q] = dirty[q]
  BY <1>1 DEF Typed, DirtyTyped
<1>3. Alone(p)
  BY <1>1, <1>2, AloneIs
<1>4. ASSUME ~ Backs(p) PROVE Attended(p)'
  BY <1>1, <1>4 DEF AllAttended, Attended, AttendedBy
<1> QED BY <1>3, <1>4, AttendedByOne

\* The process is at something that only those do who make backups.
LEMMA Elsewhere ==
  ASSUME AllAttended, NEW p \in Processes, Alone(p), Stage(th[p]) \notin Plain \/ Backs(p)
  PROVE  AllAttended'
BY AttendedByOne DEF AllAttended, Attended

\* The lock manager grants a request.
LEMMA GrantAttended ==
  ASSUME Typed, AllAttended, NEW p \in Processes, Grant(p)
  PROVE  AllAttended'
<1>1. UNCHANGED <<bm, dirty, th, ast, unlocking>>
  BY DEF Grant
<1>2. Alone(p)
  BY <1>1, AloneIs
<1>3. Attended(p) => Attended(p)'
  BY <1>1 DEF Attended, AttendedBy, LocalReaders, DirtyPages
<1> QED BY <1>2, <1>3, AttendedByOne DEF AllAttended

LEMMA lockReadAttended ==
  ASSUME Typed, AllAttended, NEW p \in Processes, lockRead(p)
  PROVE  AllAttended'
<1>1. UNCHANGED <<dirty, ast, unlocking>>
  BY DEF lockRead
<1>2. OnlyManager(p) /\ bm'[p].stateBlocking = bm[p].stateBlocking /\ bm'[p].master = bm[p].master
  <2>1. SameTable(actualizeState(bm[p]), bm'[p])
    BY LockReadIs
  <2>2. actualizeState(bm[p]).master = bm[p].master
    BY TypedParts, ActualizeStateIs DEF Typed, FilesOK
  <2> QED BY <2>1, <2>2, LockReadIs DEF SameTable
<1>3. /\ th'[p].pc = th[p].next /\ Stage(th'[p]) = Stage(th[p]) /\ Stage(th[p]) = th[p].next
      /\ th[p].next \in Returns /\ \A q \in Processes \ {p} : th'[q] = th[q]
  BY LockReadThread DEF Typed
<1>4. Alone(p)
  BY <1>1, <1>2, <1>3, AloneIs DEF OnlyManager
<1>5. ASSUME ~ Backs(p) PROVE Attended(p)'
  <2>1. Attended(p)
    BY <1>5 DEF AllAttended
  <2>2. th'[p].pc \in {"f_read", "m_mark"}
    BY <1>3, <2>1 DEF Attended, Plain, Returns
  <2>3. AttendedBy(p)'
    BY <2>2 DEF AttendedBy, LocalReaders, LocalRead
  <2> QED BY <1>2, <1>3, <2>1, <2>3 DEF Attended
<1> QED BY <1>4, <1>5, AttendedByOne

\* The last reader sees the flag.
LEMMA unlockStateReadAttended ==
  ASSUME Typed, AllAttended, NEW p \in Processes, unlockStateRead(p)
  PROVE  AllAttended'
<1>1. UNCHANGED <<dirty, th, ast>> /\ unlocking' = unlocking \ {p}
  BY DEF unlockStateRead
<1>2. OnlyManager(p) /\ bm'[p].master = bm[p].master
  BY UnlockStateReadIs DEF SameTable
<1>3. Alone(p)
  BY <1>1, <1>2, AloneIs DEF OnlyManager
<1>4. ASSUME ~ Backs(p) PROVE Attended(p)'
  <2>1. Attended(p)
    BY <1>4 DEF AllAttended
  <2>2. ~ LocalWriter(p)
    BY <2>1 DEF Attended, Plain, LocalWriter, LocalWrite, Stage
  <2>3. LocalReaders(p)' <=> LocalReaders(p)
    BY <1>1 DEF LocalReaders, DirtyPages
  <2>4. CASE bm[p].stateBlocking /\ ~ LocalReaders(p)
    <3>1. PICK b : b = IF rw[p].lck_physical # "none" THEN Unknown(bm[p]) ELSE bm[p]
      OBVIOUS
    <3>2. b \in Manager
      BY <3>1, TypedParts, UnknownIs
    <3>3. bm' = [bm EXCEPT ![p] = [b EXCEPT !.stateBlocking = FALSE]]
      BY <2>2, <2>4, <3>1 DEF unlockStateRead, Typed, ManagersOK, Managers
    <3>4. ~ bm'[p].stateBlocking
      BY <3>2, <3>3, StateBlockingIs DEF Typed, ManagersOK, Managers
    <3> QED BY <1>1, <1>2, <2>1, <3>4 DEF Attended
  <2>5. CASE ~ (bm[p].stateBlocking /\ ~ LocalReaders(p))
    <3>1. UNCHANGED bm
      BY <2>5 DEF unlockStateRead
    <3> QED BY <1>1, <2>1, <2>3, <2>5, <3>1 DEF Attended, AttendedBy
  <2> QED BY <2>4, <2>5
<1> QED BY <1>3, <1>4, AttendedByOne

\* The handler of the lock forgets the flag, unless the process is master.
LEMMA BlockingAstForgets ==
  ASSUME Typed, NEW p \in Processes, BlockingAst(p), ~ bm[p].master
  PROVE  ~ bm'[p].stateBlocking
<1>1. bm[p] \in Manager /\ bm \in [Processes -> Manager]
  BY TypedParts DEF Typed, ManagersOK, Managers
<1>2. \E b \in Manager : bm' = [bm EXCEPT ![p] = [b EXCEPT !.stateBlocking = FALSE]]
  <2>1. CASE rw[p].want = "none" /\ ~ rw[p].currentWriter
    <3>1. PICK b : b = IF Downgraded(p) = "none" THEN Unknown(bm[p]) ELSE bm[p]
      OBVIOUS
    <3>2. b \in Manager
      BY <1>1, <3>1, UnknownIs
    <3>3. bm' = [bm EXCEPT ![p] = [b EXCEPT !.stateBlocking = FALSE]]
      BY <1>1, <2>1, <3>1 DEF BlockingAst
    <3> QED BY <3>2, <3>3
  <2>2. CASE ~ (rw[p].want = "none" /\ ~ rw[p].currentWriter)
    <3>1. bm' = [bm EXCEPT ![p] = [bm[p] EXCEPT !.stateBlocking = FALSE]]
      BY <1>1, <2>2 DEF BlockingAst
    <3> QED BY <1>1, <3>1
  <2> QED BY <2>1, <2>2
<1> QED BY <1>1, <1>2, StateBlockingIs

LEMMA blockingAstHandlerAttended ==
  ASSUME Typed, AllAttended, NEW p \in Processes, blockingAstHandler(p)
  PROVE  AllAttended'
<1>1. UNCHANGED <<dirty, th, unlocking>>
  BY DEF blockingAstHandler
<1>2. OnlyManager(p) /\ bm'[p].master = bm[p].master /\ ast' \in {ast, ast \union {p}}
      /\ (~ bm[p].master => p \in ast')
  <2>1. CASE bm[p].master
    BY <2>1, BlockingAstIs DEF blockingAstHandler, SameTable
  <2>2. CASE ~ bm[p].master
    BY <2>2, HandlerIs DEF SameTable
  <2> QED BY <2>1, <2>2
<1>3. Alone(p)
  BY <1>1, <1>2, AloneIs DEF OnlyManager
<1>4. ASSUME ~ Backs(p) PROVE Attended(p)'
  BY <1>1, <1>2, <1>4 DEF AllAttended, Attended
<1> QED BY <1>3, <1>4, AttendedByOne

\* The attempt to get the local lock fails, and there is a reader, or the flag goes.
LEMMA tryBeginWriteAttended ==
  ASSUME Typed, AllAttended, NEW p \in Processes, tryBeginWrite(p)
  PROVE  AllAttended'
<1>1. UNCHANGED <<dirty, th, unlocking>> /\ ast' = ast \ {p}
  BY DEF tryBeginWrite
<1>2. OnlyManager(p) /\ bm'[p].master = bm[p].master
  <2>1. CASE LocalReaders(p) \/ LocalWriter(p)
    BY <2>1, TryFailsIs DEF SameTable
  <2>2. CASE ~ (LocalReaders(p) \/ LocalWriter(p))
    BY <2>2, BlockingAstIs DEF tryBeginWrite, SameTable
  <2> QED BY <2>1, <2>2
<1>3. Alone(p)
  BY <1>1, <1>2, AloneIs DEF OnlyManager
<1>4. ASSUME ~ Backs(p) PROVE Attended(p)'
  <2>1. Attended(p) /\ ~ LocalWriter(p)
    BY <1>4 DEF AllAttended, Attended, Plain, LocalWriter, LocalWrite, Stage
  <2>2. LocalReaders(p) => LocalReaders(p)'
    BY <1>1 DEF LocalReaders, DirtyPages
  <2>3. ~ LocalReaders(p) => ~ bm'[p].stateBlocking
    BY <2>1, BlockingAstForgets DEF tryBeginWrite, Attended
  <2> QED BY <1>1, <1>2, <2>1, <2>2, <2>3 DEF Attended, AttendedBy
<1> QED BY <1>3, <1>4, AttendedByOne

LEMMA lockWriteAttended ==
  ASSUME Typed, AllAttended, NEW p \in Processes, lockWrite(p)
  PROVE  AllAttended'
<1>1. Stage(th[p]) \notin Plain /\ UNCHANGED <<dirty, ast, unlocking>>
  BY DEF lockWrite, At, Stage, Plain
<1>2. \A q \in Processes \ {p} : th'[q] = th[q] /\ bm'[q] = bm[q]
  BY DEF lockWrite, Typed, ThreadsOK, ManagersOK, Managers
<1> QED BY <1>1, <1>2, AloneIs, Elsewhere

LEMMA WriteGrantedAttended ==
  ASSUME Typed, AllAttended, NEW p \in Processes, WriteGranted(p)
  PROVE  AllAttended'
<1>1. Stage(th[p]) \notin Plain /\ UNCHANGED <<dirty, ast, unlocking>>
  BY DEF WriteGranted, At, Stage, Plain
<1>2. \A q \in Processes \ {p} : th'[q] = th[q] /\ bm'[q] = bm[q]
  BY DEF WriteGranted, Typed, ThreadsOK, ManagersOK, Managers
<1> QED BY <1>1, <1>2, AloneIs, Elsewhere

\* A backup begins, ends or is recovered: the process is one of those who back up.
LEMMA StartsBacking ==
  ASSUME Typed, NEW p \in Processes, <<p, hdr.scn>> \in Operators
  PROVE  Backs(p)
<1> PICK o \in Operators : o[1] = p
  BY DEF Typed, FilesOK
<1> QED BY DEF Backs

LEMMA StartBeginAttended ==
  ASSUME Typed, AllAttended, NEW p \in Processes, StartBegin(p)
  PROVE  AllAttended'
<1>1. <<p, hdr.scn>> \in Operators /\ UNCHANGED <<dirty, ast, unlocking>>
  BY DEF StartBegin
<1>2. \A q \in Processes \ {p} : th'[q] = th[q] /\ bm'[q] = bm[q]
  BY DEF StartBegin, Typed, ThreadsOK, ManagersOK, Managers
<1> QED BY <1>1, <1>2, StartsBacking, AloneIs, Elsewhere

LEMMA StartEndAttended ==
  ASSUME Typed, AllAttended, NEW p \in Processes,
         StartEnd(p, "idle", "end") \/ StartEnd(p, "a_recover", "recover")
  PROVE  AllAttended'
<1>1. PICK from \in {"idle", "a_recover"}, o \in {"end", "recover"} : StartEnd(p, from, o)
  OBVIOUS
<1>2. Stage(th[p]) \notin Plain \/ Backs(p)
  <2>1. CASE from = "idle"
    BY <1>1, <2>1, StartsBacking DEF StartEnd
  <2>2. CASE from = "a_recover"
    BY <1>1, <2>2 DEF StartEnd, At, Stage, Plain
  <2> QED BY <2>1, <2>2
<1>3. UNCHANGED <<dirty, ast, unlocking>> /\ \A q \in Processes \ {p} : bm'[q] = bm[q]
  BY <1>1 DEF StartEnd, Typed, ManagersOK, Managers
<1>4. \A q \in Processes \ {p} : th'[q] = th[q]
  BY <1>1 DEF StartEnd, lockStateRead, Typed, ThreadsOK
<1> QED BY <1>2, <1>3, <1>4, AloneIs, Elsewhere

LEMMA GuardFetchAttended ==
  ASSUME Typed, AllAttended, NEW p \in Processes, GuardFetch(p)
  PROVE  AllAttended'
<1>1. Stage(th[p]) \notin Plain /\ UNCHANGED <<bm, dirty, ast, unlocking>>
  BY DEF GuardFetch, At, Stage, Plain
<1>2. \A q \in Processes \ {p} : th'[q] = th[q]
  BY DEF GuardFetch, FetchPage, lockStateRead, Typed, ThreadsOK
<1> QED BY <1>1, <1>2, AloneIs, Elsewhere

\* The state has been changed, or not.
LEMMA WrittenAttended ==
  ASSUME Typed, AllAttended, NEW p \in Processes,
         BeginRefused(p) \/ beginBackup(p) \/ BeginFails(p) \/ SetNormal(p) \/ EndLocked(p)
  PROVE  AllAttended'
<1>1. Stage(th[p]) \notin Plain
  BY DEF BeginRefused, beginBackup, BeginFails, SetNormal, EndLocked, At, Stage, Plain
<1>2. CASE ~ (EndLocked(p) /\ SetMerge(p))
  <2>1. UNCHANGED <<dirty, ast, unlocking>>
    BY <1>2 DEF BeginRefused, beginBackup, BeginFails, SetNormal, EndLocked, EndRefused
  <2>2. \A q \in Processes \ {p} : th'[q] = th[q]
    BY <1>2 DEF BeginRefused, beginBackup, BeginFails, SetNormal, EndLocked, EndRefused, Typed,
       ThreadsOK
  <2>3. \A q \in Processes \ {p} : bm'[q] = bm[q]
    BY <1>2 DEF BeginRefused, beginBackup, BeginFails, SetNormal, EndLocked, EndRefused,
       unlockStateWrite, Finish, Typed, ManagersOK, Managers
  <2> QED BY <1>1, <2>1, <2>2, <2>3, AloneIs, Elsewhere
<1>3. CASE EndLocked(p) /\ SetMerge(p)
  <2> PICK n \in Nat, b \in Manager, A \in Managers, B \in Managers : MergeSet(p, n, b, A, B)
    BY <1>3, SetMergeIs DEF EndLocked
  <2>1. /\ Quiet(A, B) /\ Changed(B) /\ A = [bm EXCEPT ![p] = b] /\ unlockStateWrite(p, B)
        /\ th' = [th EXCEPT ![p].pc = "e_guard", ![p].page = None, ![p].buf = None]
        /\ UNCHANGED <<dirty, ast, unlocking>>
    BY DEF MergeSet
  <2>2. ASSUME NEW q \in Processes \ {p} PROVE SameState(bm[q], bm'[q])
    <3>1. A[q] = bm[q]
      BY <2>1 DEF Typed, ManagersOK, Managers
    <3>2. bm'[q] = B[q]
      BY <2>1, UnlockStateWriteIs
    <3> QED BY <2>1, <3>1, <3>2 DEF Quiet
  <2>3. \A q \in Processes \ {p} : th'[q] = th[q]
    BY <2>1, GuardedIs DEF Typed
  <2> QED BY <1>1, <2>1, <2>2, <2>3, AloneIs, Elsewhere
<1> QED BY <1>2, <1>3

\* The thread of a backup goes on.
LEMMA MergeAttended ==
  ASSUME Typed, AllAttended, NEW p \in Processes,
         CheckState(p) \/ MergeGuard(p) \/ MergeAlloc(p) \/ MergeMark(p) \/ MergeSkip(p)
           \/ MergeOver(p)
  PROVE  AllAttended'
<1>1. Stage(th[p]) \notin Plain
  BY DEF CheckState, MergeGuard, MergeAlloc, MergeMark, MergeSkip, MergeOver, At, Stage, Plain
<1>2. UNCHANGED <<dirty, ast>> /\ unlocking' \in {unlocking, unlocking \union {p}}
  BY DEF CheckState, MergeGuard, MergeAlloc, MergeMark, MergeSkip, MergeOver, endRead
<1>3. \A q \in Processes \ {p} : th'[q] = th[q]
  BY DEF CheckState, MergeGuard, MergeAlloc, MergeMark, MergeSkip, MergeOver, Merged,
     lockStateRead, Typed, ThreadsOK
<1>4. \A q \in Processes \ {p} : bm'[q] = bm[q]
  BY DEF CheckState, MergeGuard, MergeAlloc, MergeMark, MergeSkip, MergeOver, Finish, Typed,
     ManagersOK, Managers
<1> QED BY <1>1, <1>2, <1>3, <1>4, AloneIs, Elsewhere

\* A page is fetched or merged.
LEMMA MergePagesAttended ==
  ASSUME Typed, AllAttended, NEW p \in Processes, MergeFetch(p) \/ MergePage(p)
  PROVE  AllAttended'
<1>1. Stage(th[p]) \notin Plain /\ UNCHANGED <<ast, unlocking>>
  BY DEF MergeFetch, MergePage, At, Stage, Plain
<1>2. \A q \in Processes \ {p} : th'[q] = th[q] /\ dirty'[q] = dirty[q]
  BY DEF MergeFetch, MergePage, set_diff_page, Merged, Typed, ThreadsOK, DirtyTyped
<1>3. \A q \in Processes : SameState(bm[q], bm'[q])
  <2>1. th[p] \in Thread /\ ThreadOK(th[p])
    BY TypedParts
  <2>2. CASE MergeFetch(p)
    <3> PICK pg \in th[p].todo : bm' = Indexed(p, pg)
      BY <2>2 DEF MergeFetch
    <3> QED BY <2>1, QuietAlone DEF Thread
  <2>3. CASE MergePage(p)
    <3>1. th[p].page \in Pages
      BY <2>1, <2>3 DEF MergePage, At, ThreadOK, Stage, Latched, Thread
    <3>2. bm' = Placed(p, th[p].page)
      BY <2>3 DEF MergePage, set_diff_page
    <3> QED BY <3>1, <3>2, QuietAlone
  <2> QED BY <2>2, <2>3
<1> QED BY <1>1, <1>2, <1>3, AloneIs, Elsewhere

\* A process dies, and another takes its place.
LEMMA ProcessAttended ==
  ASSUME Typed, AllAttended, NEW p \in Processes, ProcessStep(p)
  PROVE  AllAttended'
<1>1. CASE Gone(p)
  <2>1. Backs(p) /\ ast' = ast \ {p} /\ unlocking' = unlocking \ {p}
    BY <1>1 DEF Gone, Backs
  <2>2. \A q \in Processes \ {p} : th'[q] = th[q] /\ bm'[q] = bm[q] /\ dirty'[q] = dirty[q]
    BY <1>1, GoneIs DEF OnlyManager
  <2> QED BY <2>1, <2>2, AloneIs, Elsewhere
<1>2. CASE Attach(p)
  <2>1. Stage(th[p]) \notin Plain /\ UNCHANGED <<bm, dirty, ast, unlocking>>
    BY <1>2 DEF Attach, At, Stage, Plain
  <2>2. \A q \in Processes \ {p} : th'[q] = th[q]
    BY <1>2 DEF Attach, lockStateRead, Typed, ThreadsOK
  <2> QED BY <2>1, <2>2, AloneIs, Elsewhere
<1>3. CASE initializeAlloc(p)
  <2>1. Stage(th[p]) \notin Plain /\ UNCHANGED <<dirty, ast>> /\ unlocking' = unlocking \union {p}
    BY <1>3 DEF initializeAlloc, At, Stage, Plain, endRead
  <2>2. \A q \in Processes \ {p} : th'[q] = th[q] /\ bm'[q] = bm[q]
    BY <1>3, InitializeAllocIs DEF OnlyManager
  <2> QED BY <2>1, <2>2, AloneIs, Elsewhere
<1> QED BY <1>1, <1>2, <1>3 DEF ProcessStep, Die, DieWriting

\* Every step keeps it.
LEMMA NextAttended ==
  ASSUME Typed, AllAttended, [Next]_vars
  PROVE  AllAttended'
<1>1. CASE UNCHANGED vars
  BY <1>1 DEF vars, AllAttended, Backs, Attended, AttendedBy, LocalReaders, DirtyPages
<1>2. ASSUME NEW p \in Processes, PageStep(p) PROVE AllAttended'
  BY <1>2, CCH_fetchAttended, CCH_fetch_pageAttended, CCH_markAttended, CCH_releaseAttended,
     ModifyAttended, write_pageAttended DEF PageStep
<1>3. ASSUME NEW p \in Processes, StateLockStep(p) PROVE AllAttended'
  BY <1>3, GrantAttended, lockReadAttended, unlockStateReadAttended, blockingAstHandlerAttended,
     tryBeginWriteAttended, lockWriteAttended, WriteGrantedAttended DEF StateLockStep
<1>4. ASSUME NEW p \in Processes, BackupStep(p) PROVE AllAttended'
  BY <1>4, StartBeginAttended, StartEndAttended, GuardFetchAttended, CCH_fetch_pageAttended,
     WrittenAttended, MergeAttended, MergePagesAttended DEF BackupStep
<1>5. ASSUME NEW p \in Processes, ProcessStep(p) PROVE AllAttended'
  BY <1>5, ProcessAttended
<1> QED BY <1>1, <1>2, <1>3, <1>4, <1>5 DEF Next

LEMMA InitAttended ==
  ASSUME Init
  PROVE  AllAttended
BY NewThreadIs, NewIs DEF Init, AllAttended, Attended, Plain

\* A holder of the state lock that has been told to step down, and will not be told
\* again, never forgets it (NBackupStateLock::blockingAstHandler, unlockStateRead,
\* GlobalRWLock::blockingAstHandler): somebody is left to look at the flag.
THEOREM NeverForgetsToStepDown == Spec => []StepsDown
<1>1. Init => Typed /\ AllAttended
  BY InitTyped, InitAttended
<1>2. (Typed /\ AllAttended) /\ [Next]_vars => (Typed /\ AllAttended)'
  BY NextTyped, NextAttended
<1>3. Typed /\ AllAttended => StepsDown
  <2> SUFFICES ASSUME Typed, AllAttended, NEW p \in Processes, Conflicts(p), rw[p].seen
               PROVE  \/ p \in ast
                      \/ bm[p].stateBlocking /\ (AttendedBy(p) \/ Backs(p))
                      \/ rw[p].blocking /\ (rw[p].currentWriter \/ rw[p].want # "none")
    BY DEF StepsDown, AttendedBy
  <2>1. SeenTo(p) /\ rw[p].lck_physical # "none"
    BY DEF Typed, AllSeenTo, Conflicts
  <2> QED BY <2>1 DEF SeenTo, AllAttended, Attended
<1> QED BY <1>1, <1>2, <1>3, PTL DEF Spec

-----------------------------------------------------------------------------
(* The state lock: what the state remembered is worth.                     *)

\* A process that is not concerned.
LEMMA LockKept ==
  ASSUME NEW q \in Processes, LockOK(q), rw'[q] = rw[q], th'[q] = th[q],
         DirtyPages(q)' = DirtyPages(q), hdr' = hdr,
         q \in ToSet(queue') <=> q \in ToSet(queue),
         bm'[q].backup_state = bm[q].backup_state, bm'[q].current_scn = bm[q].current_scn,
         bm[q].master => bm'[q].master
  PROVE  LockOK(q)'
<1>1. Stage(th'[q]) = Stage(th[q])
  OBVIOUS
<1>2. At(q, "locking")' <=> At(q, "locking")
  BY DEF At
<1>3. At(q, "g_lock")' <=> At(q, "g_lock")
  BY DEF At
<1>4. At(q, "g_locked")' <=> At(q, "g_locked")
  BY DEF At
<1>5. LocalReaders(q)' <=> LocalReaders(q)
  BY DEF LocalReaders
<1> QED BY <1>1, <1>2, <1>3, <1>4, <1>5 DEF LockOK

\* A process whose thread goes on without a change of its lock.
LEMMA LockSame ==
  ASSUME NEW q \in Processes, LockOK(q), rw'[q] = rw[q], hdr' = hdr,
         q \in ToSet(queue') <=> q \in ToSet(queue),
         bm'[q].backup_state = bm[q].backup_state, bm'[q].current_scn = bm[q].current_scn,
         At(q, "locking")' <=> At(q, "locking"), At(q, "g_lock")' <=> At(q, "g_lock"),
         At(q, "g_locked")' <=> At(q, "g_locked"),
         At(q, "locking")' => DirtyPages(q)' = {},
         Stage(th'[q]) \in Writing => DirtyPages(q)' = {},
         Stage(th'[q]) \in Making => bm'[q].master,
         LocalReaders(q)' => LocalReaders(q)
  PROVE  LockOK(q)'
<1>1. th[q].pc \in LocalWrite => th'[q].pc \in LocalWrite
  BY DEF LocalWrite, At
<1> QED BY <1>1 DEF LockOK

\* Everybody but p.
Unconcerned(p) ==
    \A q \in Processes \ {p} :
       /\ th'[q] = th[q] /\ DirtyPages(q)' = DirtyPages(q)
       /\ bm'[q].backup_state = bm[q].backup_state /\ bm'[q].current_scn = bm[q].current_scn
       /\ bm[q].master => bm'[q].master

\* The locks when p goes on: the requests of the others stay where they are.
LEMMA LocksByOne ==
  ASSUME LocksOK, NEW p \in Processes, Unconcerned(p), OnlyLock(p), hdr' = hdr,
         NoDuplicates(queue'),
         \A q \in Processes \ {p} : q \in ToSet(queue') <=> q \in ToSet(queue),
         rw'[p].lck_physical = "write" =>
            rw[p].lck_physical = "write" \/ \A q \in Processes \ {p} : rw[q].lck_physical = "none",
         rw'[p].lck_physical # "none" => rw[p].lck_physical # "none"
            \/ \A q \in Processes \ {p} : rw[q].lck_physical # "write",
         LockOK(p)'
  PROVE  LocksOK'
<1>1. ASSUME NEW q \in Processes \ {p} PROVE LockOK(q)'
  BY <1>1, LockKept DEF LocksOK, Unconcerned, OnlyLock
<1>2. Compatible'
  BY DEF LocksOK, Compatible, OnlyLock
<1> QED BY <1>1, <1>2 DEF LocksOK

\* The locks do not change.
LEMMA LocksSame ==
  ASSUME LocksOK, NEW p \in Processes, Unconcerned(p), UNCHANGED <<rw, queue, hdr>>,
         bm'[p].backup_state = bm[p].backup_state, bm'[p].current_scn = bm[p].current_scn,
         At(p, "locking")' <=> At(p, "locking"), At(p, "g_lock")' <=> At(p, "g_lock"),
         At(p, "g_locked")' <=> At(p, "g_locked"),
         At(p, "locking")' => DirtyPages(p)' = {},
         Stage(th'[p]) \in Writing => DirtyPages(p)' = {},
         Stage(th'[p]) \in Making => bm'[p].master,
         LocalReaders(p)' => LocalReaders(p)
  PROVE  LocksOK'
<1>1. LockOK(p)'
  BY LockSame DEF LocksOK
<1>2. ASSUME NEW q \in Processes \ {p} PROVE LockOK(q)'
  BY <1>2, LockKept DEF LocksOK, Unconcerned
<1>3. Compatible' /\ NoDuplicates(queue')
  BY DEF LocksOK, Compatible
<1> QED BY <1>1, <1>2, <1>3 DEF LocksOK

\* A thread that has, or asks for, the lock for reading.
LEMMA LocksForReading ==
  ASSUME Typed, LocksOK, NEW p \in Processes, NEW t \in Thread, NEW s \in Returns,
         lockStateRead(p, t, s), ~ At(p, "locking"), ~ At(p, "g_lock"), ~ At(p, "g_locked"),
         UNCHANGED <<hdr, dirty>>,
         \A q \in Processes \ {p} : bm'[q] = bm[q],
         bm'[p].backup_state = bm[p].backup_state, bm'[p].current_scn = bm[p].current_scn,
         s \in Writing => DirtyPages(p) = {},
         s \in Making => bm'[p].master
  PROVE  LocksOK'
<1>1. ThreadsOK /\ WaitsOK /\ LockOK(p) /\ rw[p] \in RWLock /\ rw \in [Processes -> RWLock]
      /\ queue \in Seq(Processes)
  BY TypedParts DEF Typed, LocksOK, WaitsOK
<1>2. PICK u \in Thread :
           /\ th' = [th EXCEPT ![p] = u]
           /\ Stage(u) = s
           /\ \/ /\ u.pc = s /\ UNCHANGED <<rw, queue>>
                 /\ bm[p].backup_state # "unknown" \/ rw[p].lck_physical # "none"
              \/ /\ u.pc = "locking" /\ u.next = s
                 /\ bm[p].backup_state = "unknown" /\ rw[p].lck_physical = "none"
                 /\ rw' = [rw EXCEPT ![p].want = "read"]
                 /\ queue' = Append(queue, p)
  BY <1>1, LockStateReadIs
<1>3. th'[p] = u /\ \A q \in Processes \ {p} : th'[q] = th[q]
  BY <1>1, <1>2 DEF ThreadsOK
<1>4. s # "locking" /\ s \notin LocalWrite /\ s \in LocalRead
  BY DEF Returns, LocalWrite, LocalRead
<1>5. rw[p].want = "none" /\ ~ rw[p].currentWriter /\ ~ rw[p].blocking /\ p \notin ToSet(queue)
  BY <1>1 DEF LockOK, RWLock, Levels, LocalWrite, At
<1>6. Unconcerned(p) /\ DirtyPages(p)' = DirtyPages(p)
  BY <1>3 DEF Unconcerned, DirtyPages
<1>7. CASE u.pc = s /\ UNCHANGED <<rw, queue>>
           /\ (bm[p].backup_state # "unknown" \/ rw[p].lck_physical # "none")
  <2>1. bm[p].backup_state # "unknown" /\ rw[p].lck_physical # "none"
    BY <1>1, <1>5, <1>7 DEF LockOK
  <2>2. ~ At(p, "locking")' /\ ~ At(p, "g_lock")' /\ ~ At(p, "g_locked")'
    BY <1>3, <1>4, <1>7 DEF At, LocalWrite
  <2>3. LockOK(p)'
    BY <1>1, <1>2, <1>3, <1>5, <1>6, <1>7, <2>1, <2>2 DEF LockOK
  <2> QED BY <1>1, <1>6, <1>7, <2>3, LocksByOne DEF LocksOK, OnlyLock
<1>8. CASE /\ u.pc = "locking" /\ u.next = s
           /\ bm[p].backup_state = "unknown" /\ rw[p].lck_physical = "none"
           /\ rw' = [rw EXCEPT ![p].want = "read"]
           /\ queue' = Append(queue, p)
  <2>7. DirtyPages(p) = {}
    BY <1>1, <1>8 DEF LockOK, LocalReaders
  <2>1. PICK g : g = [rw[p] EXCEPT !.want = "read"]
    OBVIOUS
  <2>2. /\ g \in RWLock /\ g.want = "read" /\ ~ g.currentWriter /\ ~ g.blocking
        /\ g.lck_physical = "none"
    BY <1>1, <1>5, <1>8, <2>1 DEF RWLock, Levels
  <2>3. rw'[p] = g /\ OnlyLock(p)
    BY <1>1, <1>8, <2>1, <2>2, OneLock DEF OnlyLock
  <2>4. NoDuplicates(queue') /\ ToSet(queue') = ToSet(queue) \union {p}
    BY <1>1, <1>5, <1>8, AppendQueue DEF LocksOK
  <2>5. At(p, "locking")' /\ ~ At(p, "g_lock")' /\ ~ At(p, "g_locked")'
    BY <1>3, <1>8 DEF At
  <2>6. LockOK(p)'
    BY <1>2, <1>3, <1>6, <1>8, <2>2, <2>3, <2>4, <2>5, <2>7 DEF LockOK
  <2> QED BY <1>6, <2>2, <2>3, <2>4, <2>6, LocksByOne
<1> QED BY <1>2, <1>7, <1>8

\* A thread that goes on from one place to another without the lock.
Moves(p, s) == Stage(th'[p]) = s /\ th'[p].pc = s

LEMMA LocksMove ==
  ASSUME Typed, LocksOK, NEW p \in Processes, NEW s, Moves(p, s),
         s \notin {"locking", "g_lock", "g_locked"},
         th[p].pc \notin {"locking", "g_lock", "g_locked"},
         \A q \in Processes \ {p} : th'[q] = th[q] /\ dirty'[q] = dirty[q],
         UNCHANGED <<rw, queue, hdr>>,
         \A q \in Processes : bm'[q].backup_state = bm[q].backup_state
                              /\ bm'[q].current_scn = bm[q].current_scn,
         \A q \in Processes \ {p} : bm'[q].master = bm[q].master,
         s \in Writing => DirtyPages(p)' = {},
         s \in Making => bm'[p].master,
         s \in LocalRead \/ DirtyPages(p)' # {} => LocalReaders(p)
  PROVE  LocksOK'
<1>1. Unconcerned(p)
  BY DEF Unconcerned, DirtyPages
<1>2. /\ ~ At(p, "locking")' /\ ~ At(p, "g_lock")' /\ ~ At(p, "g_locked")'
      /\ ~ At(p, "locking") /\ ~ At(p, "g_lock") /\ ~ At(p, "g_locked")
  BY DEF At, Moves
<1>3. LocalReaders(p)' => LocalReaders(p)
  BY DEF LocalReaders, Moves
<1> QED BY <1>1, <1>2, <1>3, LocksSame DEF Moves

LEMMA CCH_fetchLocks ==
  ASSUME Typed, LocksOK, NEW p \in Processes, CCH_fetch(p)
  PROVE  LocksOK'
<1>1. PICK pg \in Pages : lockStateRead(p, [th[p] EXCEPT !.page = pg], "f_read")
  BY DEF CCH_fetch, FetchPage
<1>2. th[p] \in Thread /\ th[p].pc = "idle"
  BY TypedParts DEF CCH_fetch, At
<1>3. [th[p] EXCEPT !.page = pg] \in Thread
  BY <1>2 DEF Thread
<1>4. "f_read" \in Returns /\ "f_read" \notin Writing /\ "f_read" \notin Making
  BY DEF Returns, Writing, Making
<1>5. ~ At(p, "locking") /\ ~ At(p, "g_lock") /\ ~ At(p, "g_locked")
  BY <1>2 DEF At
<1> QED BY <1>1, <1>3, <1>4, <1>5, LocksForReading DEF CCH_fetch, disk

LEMMA GuardFetchLocks ==
  ASSUME Typed, LocksOK, NEW p \in Processes, GuardFetch(p)
  PROVE  LocksOK'
<1>1. lockStateRead(p, [th[p] EXCEPT !.page = HeaderPage], "g_read") /\ DirtyPages(p) = {}
  BY DEF GuardFetch, FetchPage
<1>2. th[p] \in Thread /\ th[p].pc = "g_flush"
  BY TypedParts DEF GuardFetch, At
<1>3. [th[p] EXCEPT !.page = HeaderPage] \in Thread
  BY <1>2, BackupAssumption DEF Thread
<1>4. "g_read" \in Returns /\ bm[p].master
  BY <1>2 DEF Returns, Making, LocksOK, LockOK, Stage
<1>5. ~ At(p, "locking") /\ ~ At(p, "g_lock") /\ ~ At(p, "g_locked")
  BY <1>2 DEF At
<1> QED BY <1>1, <1>3, <1>4, <1>5, LocksForReading DEF GuardFetch, disk

LEMMA CCH_markLocks ==
  ASSUME Typed, LocksOK, NEW p \in Processes, CCH_mark(p)
  PROVE  LocksOK'
<1>1. lockStateRead(p, th[p], "m_mark") /\ th[p] \in Thread /\ th[p].pc = "held"
  BY TypedParts DEF CCH_mark, At
<1>2. "m_mark" \in Returns /\ "m_mark" \notin Writing /\ "m_mark" \notin Making
  BY DEF Returns, Writing, Making
<1>3. ~ At(p, "locking") /\ ~ At(p, "g_lock") /\ ~ At(p, "g_locked")
  BY <1>1 DEF At
<1> QED BY <1>1, <1>2, <1>3, LocksForReading DEF CCH_mark, disk

LEMMA MergeGuardLocks ==
  ASSUME Typed, LocksOK, NEW p \in Processes, MergeGuard(p)
  PROVE  LocksOK'
<1>1. lockStateRead(p, th[p], "e_alloc") /\ th[p] \in Thread /\ th[p].pc = "e_guard"
  BY TypedParts DEF MergeGuard, At
<1>2. "e_alloc" \in Returns /\ "e_alloc" \notin Writing /\ bm[p].master
  BY <1>1 DEF Returns, Writing, Making, LocksOK, LockOK, Stage
<1>3. ~ At(p, "locking") /\ ~ At(p, "g_lock") /\ ~ At(p, "g_locked")
  BY <1>1 DEF At
<1> QED BY <1>1, <1>2, <1>3, LocksForReading DEF MergeGuard, disk

LEMMA MergeMarkLocks ==
  ASSUME Typed, LocksOK, NEW p \in Processes, MergeMark(p)
  PROVE  LocksOK'
<1>1. lockStateRead(p, th[p], "e_mark") /\ th[p] \in Thread /\ th[p].pc = "e_page"
  BY TypedParts DEF MergeMark, At
<1>2. "e_mark" \in Returns /\ "e_mark" \notin Writing /\ bm[p].master
  BY <1>1 DEF Returns, Writing, Making, LocksOK, LockOK, Stage
<1>3. ~ At(p, "locking") /\ ~ At(p, "g_lock") /\ ~ At(p, "g_locked")
  BY <1>1 DEF At
<1> QED BY <1>1, <1>2, <1>3, LocksForReading DEF MergeMark, disk

LEMMA AttachLocks ==
  ASSUME Typed, LocksOK, NEW p \in Processes, Attach(p)
  PROVE  LocksOK'
<1>1. lockStateRead(p, NewThread, "a_alloc") /\ NewThread \in Thread /\ th[p].pc = "out"
  BY NewThreadIs DEF Attach, At
<1>2. "a_alloc" \in Returns /\ "a_alloc" \notin Writing /\ "a_alloc" \notin Making
  BY DEF Returns, Writing, Making
<1>3. ~ At(p, "locking") /\ ~ At(p, "g_lock") /\ ~ At(p, "g_locked")
  BY <1>1 DEF At
<1> QED BY <1>1, <1>2, <1>3, LocksForReading DEF Attach, disk

\* A thread that starts to change the state, or gives up.
LEMMA StartEndLocks ==
  ASSUME Typed, LocksOK, NEW p \in Processes,
         StartEnd(p, "idle", "end") \/ StartEnd(p, "a_recover", "recover")
  PROVE  LocksOK'
<1>1. PICK from \in {"idle", "a_recover"}, o \in {"end", "recover"} : StartEnd(p, from, o)
  OBVIOUS
<1>2. th[p] \in Thread /\ th[p].pc = from /\ bm \in [Processes -> Manager]
  BY <1>1, TypedParts DEF StartEnd, At, Typed, ManagersOK, Managers
<1>3. CASE endLock = None
  <2>1. PICK t : t = [th[p] EXCEPT !.op = o]
    OBVIOUS
  <2>2. t \in Thread
    BY <1>2, <2>1 DEF Thread
  <2>3. lockStateRead(p, t, "e_check") /\ bm' = [bm EXCEPT ![p].master = TRUE]
        /\ UNCHANGED <<hdr, dirty>>
    BY <1>1, <1>3, <2>1 DEF StartEnd, disk
  <2>4. /\ \A q \in Processes \ {p} : bm'[q] = bm[q]
        /\ bm'[p].backup_state = bm[p].backup_state /\ bm'[p].current_scn = bm[p].current_scn
        /\ bm'[p].master
    <3>1. PICK b : b = [bm[p] EXCEPT !.master = TRUE]
      OBVIOUS
    <3>2. b \in Manager /\ b.master /\ b.backup_state = bm[p].backup_state
          /\ b.current_scn = bm[p].current_scn
      BY <1>2, <3>1 DEF Manager
    <3>3. bm' = [bm EXCEPT ![p] = b]
      BY <2>3, <3>1
    <3> QED BY <1>2, <3>2, <3>3
  <2>5. "e_check" \in Returns /\ "e_check" \notin Writing
    BY DEF Returns, Writing
  <2>6. ~ At(p, "locking") /\ ~ At(p, "g_lock") /\ ~ At(p, "g_locked")
    BY <1>2 DEF At
  <2> QED BY <2>2, <2>3, <2>4, <2>5, <2>6, LocksForReading
<1>4. CASE endLock # None
  <2>1. th' = [th EXCEPT ![p] = NewThread] /\ UNCHANGED <<bm, rw, queue, hdr, dirty>>
    BY <1>1, <1>4 DEF StartEnd, disk
  <2>2. th'[p] = NewThread /\ \A q \in Processes \ {p} : th'[q] = th[q]
    BY <2>1, ThreadDone DEF Typed
  <2>3. Moves(p, "idle")
    BY <2>2, NewThreadIs DEF Moves
  <2>4. "idle" \notin Writing /\ "idle" \notin Making /\ "idle" \notin LocalRead
    BY DEF Writing, Making, LocalRead
  <2>5. DirtyPages(p)' = DirtyPages(p)
    BY <2>1 DEF DirtyPages
  <2> QED BY <1>2, <2>1, <2>2, <2>3, <2>4, <2>5, LocksMove DEF LocalReaders
<1> QED BY <1>3, <1>4

LEMMA StartBeginLocks ==
  ASSUME Typed, LocksOK, NEW p \in Processes, StartBegin(p)
  PROVE  LocksOK'
<1>1. PICK b \in Manager : /\ b = [bm[p] EXCEPT !.master = TRUE] /\ AllocOK(b) /\ b.master
                           /\ b.backup_state = bm[p].backup_state
                           /\ b.current_scn = bm[p].current_scn
  BY TypedParts, MasterIs
<1>2. bm' = [bm EXCEPT ![p] = b]
  BY <1>1 DEF StartBegin
<1>3. bm'[p] = b /\ \A q \in Processes \ {p} : bm'[q] = bm[q]
  BY <1>2 DEF Typed, ManagersOK, Managers
<1>4. Moves(p, "g_flush") /\ \A q \in Processes \ {p} : th'[q] = th[q]
  <2>1. PICK t \in Thread : t = Guard(p, "begin") /\ ThreadOK(t) /\ t.pc = "g_flush"
                            /\ Stage(t) = "g_flush"
    BY GuardIs DEF Typed
  <2>2. th' = [th EXCEPT ![p] = t] /\ ThreadsOK
    BY <2>1 DEF StartBegin, Typed
  <2>3. th'[p] = t /\ \A q \in Processes \ {p} : th'[q] = th[q]
    BY <2>1, <2>2, NewThreadRecord
  <2> QED BY <2>1, <2>3 DEF Moves
<1>5. UNCHANGED <<rw, queue, hdr, dirty>> /\ th[p].pc = "idle"
  BY DEF StartBegin, disk, At
<1>6. "g_flush" \notin Writing /\ "g_flush" \notin LocalRead
  BY DEF Writing, LocalRead
<1>7. DirtyPages(p)' = DirtyPages(p)
  BY <1>5 DEF DirtyPages
<1>8. /\ \A q \in Processes : bm'[q].backup_state = bm[q].backup_state
                              /\ bm'[q].current_scn = bm[q].current_scn
      /\ \A q \in Processes \ {p} : bm'[q].master = bm[q].master
      /\ bm'[p].master
  BY <1>1, <1>3
<1>9. DirtyPages(p)' # {} => LocalReaders(p)
  BY <1>7 DEF LocalReaders
<1> QED BY <1>4, <1>5, <1>6, <1>8, <1>9, LocksMove

\* The page is released.
LEMMA CCH_releaseLocks ==
  ASSUME Typed, LocksOK, NEW p \in Processes, CCH_release(p)
  PROVE  LocksOK'
<1>1. UNCHANGED <<rw, queue, hdr, dirty, bm>> /\ th[p].pc = "held"
      /\ th' = [th EXCEPT ![p] = NewThread]
  BY DEF CCH_release, disk, At
<1>2. th'[p] = NewThread /\ \A q \in Processes \ {p} : th'[q] = th[q]
  BY <1>1, ThreadDone DEF Typed
<1>3. Moves(p, "idle") /\ "idle" \notin Writing /\ "idle" \notin Making /\ "idle" \notin LocalRead
  BY <1>2, NewThreadIs DEF Moves, Writing, Making, LocalRead
<1>4. DirtyPages(p)' = DirtyPages(p)
  BY <1>1 DEF DirtyPages
<1> QED BY <1>1, <1>2, <1>3, <1>4, LocksMove DEF LocalReaders

\* The page is read.
LEMMA FetchedIs ==
  ASSUME Typed, NEW p \in Processes, NEW from \in {"f_read", "g_read"},
         NEW to \in {"held", "g_held"}, CCH_fetch_page(p, from, to)
  PROVE  /\ Moves(p, to) /\ th'[p].page = th[p].page /\ th'[p].op = th[p].op
         /\ th'[p].buf = PageRead(bm', p, th[p].page) /\ th'[p].todo = th[p].todo
         /\ \A q \in Processes \ {p} : th'[q] = th[q]
         /\ th[p].page \in Pages /\ th[p].pc = from /\ Stage(th[p]) = from
         /\ \A q \in Processes : SameState(bm[q], bm'[q])
<1>1. th[p] \in Thread /\ ThreadOK(th[p]) /\ th[p].pc = from
  BY TypedParts DEF CCH_fetch_page, At
<1>2. Stage(th[p]) = from
  BY <1>1 DEF Stage
<1>3. PICK pg \in Pages : pg = th[p].page
  BY <1>1, <1>2 DEF ThreadOK, Latched, Writing, Thread
<1>4. PICK t : t = [th[p] EXCEPT !.pc = to, !.buf = PageRead(bm', p, pg)]
  OBVIOUS
<1>5. t.pc = to /\ t.page = pg /\ t.op = th[p].op /\ t.buf = PageRead(bm', p, pg)
      /\ t.todo = th[p].todo
  BY <1>1, <1>3, <1>4 DEF Thread
<1>6. Stage(t) = to
  BY <1>5 DEF Stage
<1>7. th' = [th EXCEPT ![p] = t] /\ bm' = Indexed(p, pg)
  BY <1>3, <1>4 DEF CCH_fetch_page
<1>8. th'[p] = t /\ \A q \in Processes \ {p} : th'[q] = th[q]
  BY <1>7 DEF Typed, ThreadsOK
<1>9. \A q \in Processes : SameState(bm[q], bm'[q])
  BY <1>7, PlacedQuiet, QuietManagers DEF Typed
<1> QED BY <1>1, <1>2, <1>3, <1>5, <1>6, <1>8, <1>9 DEF Moves

LEMMA CCH_fetch_pageLocks ==
  ASSUME Typed, LocksOK, NEW p \in Processes,
         CCH_fetch_page(p, "f_read", "held") \/ CCH_fetch_page(p, "g_read", "g_held")
  PROVE  LocksOK'
<1>1. PICK from \in {"f_read", "g_read"}, to \in {"held", "g_held"} :
         CCH_fetch_page(p, from, to) /\ (from = "g_read" <=> to = "g_held")
  OBVIOUS
<1>2. /\ Moves(p, to) /\ th[p].pc = from /\ Stage(th[p]) = from
      /\ \A q \in Processes \ {p} : th'[q] = th[q]
      /\ \A q \in Processes : SameState(bm[q], bm'[q])
  BY <1>1, FetchedIs
<1>3. UNCHANGED <<rw, queue, hdr, dirty>>
  BY <1>1 DEF CCH_fetch_page, disk
<1>4. DirtyPages(p)' = DirtyPages(p)
  BY <1>3 DEF DirtyPages
<1>5. LocalReaders(p) /\ to \notin LocalRead
  BY <1>2 DEF LocalReaders, LocalRead
<1>6. to \in Writing \/ to \in Making => DirtyPages(p) = {} /\ bm[p].master
  BY <1>1, <1>2 DEF Writing, Making, LocksOK, LockOK
<1>7. \A q \in Processes : /\ bm'[q].backup_state = bm[q].backup_state
                           /\ bm'[q].current_scn = bm[q].current_scn
                           /\ bm'[q].master = bm[q].master
  BY <1>2 DEF SameState
<1> QED BY <1>2, <1>3, <1>4, <1>5, <1>6, <1>7, LocksMove

\* A page is marked dirty.
LEMMA DiffPageIs ==
  ASSUME Typed, NEW p \in Processes, NEW v \in Nat, set_diff_page(p, v), th[p].page \in Pages
  PROVE  LET pg == th[p].page
         IN  /\ bm' = Placed(p, pg) /\ hdr' = hdr /\ main' = main
             /\ \A q \in Processes : SameState(bm[q], bm'[q])
             /\ \A q \in Processes \ {p} : dirty'[q] = dirty[q]
             /\ \A x \in Pages \ {pg} : dirty'[p][x] = dirty[p][x]
             /\ dirty'[p][pg] = [v |-> v, scn |-> bm[p].current_scn,
                                 diff |-> bm[p].backup_state \in {"stalled", "merge"}
                                            /\ pg \in Known(bm'[p])]
<1>1. PICK pg \in Pages : pg = th[p].page
  OBVIOUS
<1>2. PICK B : B = Placed(p, pg)
  OBVIOUS
<1>3. bm' = B /\ hdr' = hdr /\ main' = main
  BY <1>1, <1>2 DEF set_diff_page
<1>4. \A q \in Processes : SameState(bm[q], B[q])
  BY <1>2, <1>3, PlacedQuiet, QuietManagers DEF Typed
<1>5. PICK d : d = [v |-> v, scn |-> B[p].current_scn,
                    diff |-> B[p].backup_state \in {"stalled", "merge"} /\ Mapped(B, p, pg)]
  OBVIOUS
<1>6. dirty' = [dirty EXCEPT ![p][pg] = d]
  BY <1>1, <1>2, <1>5 DEF set_diff_page
<1>7. /\ \A q \in Processes \ {p} : dirty'[q] = dirty[q]
      /\ \A x \in Pages \ {pg} : dirty'[p][x] = dirty[p][x]
      /\ dirty'[p][pg] = d
  BY <1>6 DEF Typed, DirtyTyped
<1>8. d = [v |-> v, scn |-> bm[p].current_scn,
           diff |-> bm[p].backup_state \in {"stalled", "merge"} /\ pg \in Known(B[p])]
  BY <1>4, <1>5 DEF SameState, Mapped
<1>9. dirty'[p][pg] = [v |-> v, scn |-> bm[p].current_scn,
                       diff |-> bm[p].backup_state \in {"stalled", "merge"}
                                  /\ pg \in Known(bm'[p])]
  BY <1>3, <1>7, <1>8
<1>10. bm' = Placed(p, pg) /\ \A q \in Processes : SameState(bm[q], bm'[q])
  BY <1>2, <1>3, <1>4
<1> HIDE DEF Placed
<1> QED BY <1>1, <1>3, <1>7, <1>9, <1>10

LEMMA ModifyLocks ==
  ASSUME Typed, LocksOK, NEW p \in Processes, Modify(p)
  PROVE  LocksOK'
<1>1. th[p] \in Thread /\ ThreadOK(th[p]) /\ th[p].pc = "m_mark"
  BY TypedParts DEF Modify, At
<1>2. th[p].page \in Pages
  BY <1>1 DEF ThreadOK, Stage, Latched, Thread
<1>3. version[th[p].page] + 1 \in Nat
  BY <1>2 DEF Typed, FilesOK
<1>4. /\ hdr' = hdr
      /\ \A q \in Processes : SameState(bm[q], bm'[q])
      /\ \A q \in Processes \ {p} : dirty'[q] = dirty[q]
  BY <1>2, <1>3, DiffPageIs DEF Modify
<1>5. th' = [th EXCEPT ![p] = NewThread] /\ UNCHANGED <<rw, queue>>
  BY DEF Modify
<1>6. th'[p] = NewThread /\ \A q \in Processes \ {p} : th'[q] = th[q]
  BY <1>5, ThreadDone DEF Typed
<1>7. Moves(p, "idle") /\ "idle" \notin Writing /\ "idle" \notin Making
  BY <1>6, NewThreadIs DEF Moves, Writing, Making
<1>8. LocalReaders(p)
  BY <1>1 DEF LocalReaders, LocalRead
<1>9. \A q \in Processes : /\ bm'[q].backup_state = bm[q].backup_state
                           /\ bm'[q].current_scn = bm[q].current_scn
                           /\ bm'[q].master = bm[q].master
  BY <1>4 DEF SameState
<1> QED BY <1>1, <1>4, <1>5, <1>6, <1>7, <1>8, <1>9, LocksMove

LEMMA MergePageLocks ==
  ASSUME Typed, LocksOK, NEW p \in Processes, MergePage(p)
  PROVE  LocksOK'
<1>1. th[p] \in Thread /\ ThreadOK(th[p]) /\ th[p].pc = "e_mark"
  BY TypedParts DEF MergePage, At
<1>2. th[p].page \in Pages /\ th[p].buf \in Copy
  BY <1>1 DEF ThreadOK, Stage, Latched, Loaded, Thread, Writing
<1>3. th[p].buf.v \in Nat
  BY <1>2 DEF Copy
<1>4. /\ hdr' = hdr
      /\ \A q \in Processes : SameState(bm[q], bm'[q])
      /\ \A q \in Processes \ {p} : dirty'[q] = dirty[q]
  BY <1>2, <1>3, DiffPageIs DEF MergePage
<1>5. th' = Merged(p) /\ UNCHANGED <<rw, queue>>
  BY DEF MergePage
<1>6. Moves(p, "e_merge") /\ \A q \in Processes \ {p} : th'[q] = th[q]
  BY <1>5, MergedIs DEF Typed, Moves
<1>7. "e_merge" \notin Writing
  BY DEF Writing
<1>8. LocalReaders(p) /\ bm[p].master
  BY <1>1 DEF LocalReaders, LocalRead, LocksOK, LockOK, Stage, Making
<1>9. \A q \in Processes : /\ bm'[q].backup_state = bm[q].backup_state
                           /\ bm'[q].current_scn = bm[q].current_scn
                           /\ bm'[q].master = bm[q].master
  BY <1>4 DEF SameState
<1> QED BY <1>1, <1>4, <1>5, <1>6, <1>7, <1>8, <1>9, LocksMove

LEMMA MergeSkipLocks ==
  ASSUME Typed, LocksOK, NEW p \in Processes, MergeSkip(p)
  PROVE  LocksOK'
<1>1. th[p].pc = "e_page" /\ th' = Merged(p) /\ UNCHANGED <<rw, queue, hdr, dirty, bm>>
  BY DEF MergeSkip, At, disk
<1>2. Moves(p, "e_merge") /\ \A q \in Processes \ {p} : th'[q] = th[q]
  BY <1>1, MergedIs DEF Typed, Moves
<1>3. "e_merge" \notin Writing
  BY DEF Writing
<1>4. LocalReaders(p) /\ bm[p].master
  BY <1>1 DEF LocalReaders, LocalRead, LocksOK, LockOK, Stage, Making
<1> QED BY <1>1, <1>2, <1>3, <1>4, LocksMove

LEMMA MergeOverLocks ==
  ASSUME Typed, LocksOK, NEW p \in Processes, MergeOver(p)
  PROVE  LocksOK'
<1>1. th[p].pc = "e_merge" /\ th' = [th EXCEPT ![p] = Guard(p, "end3")]
      /\ UNCHANGED <<rw, queue, hdr, dirty, bm>>
  BY DEF MergeOver, At, disk
<1>2. Moves(p, "g_flush") /\ \A q \in Processes \ {p} : th'[q] = th[q]
  BY <1>1, GuardIs, NewThreadRecord DEF Typed, Moves
<1>3. "g_flush" \notin Writing
  BY DEF Writing
<1>4. LocalReaders(p) /\ bm[p].master
  BY <1>1 DEF LocalReaders, LocalRead, LocksOK, LockOK, Stage, Making
<1> QED BY <1>1, <1>2, <1>3, <1>4, LocksMove

\* A page is written.
LEMMA WrittenIs ==
  ASSUME Typed, NEW p \in Processes, write_page(p)
  PROVE  \E pg \in Pages, b \in Buffer :
           /\ b = dirty[p][pg] /\ dirty[p][pg] # None
           /\ delta' = (IF ToDelta(p, b) THEN [delta EXCEPT ![pg] = CopyOf(b)] ELSE delta)
           /\ main' = (IF ToMain(p) THEN [main EXCEPT ![pg] = CopyOf(b)] ELSE main)
           /\ latest' = Latest(pg, b.v)
           /\ dirty'[p][pg] = None
           /\ \A x \in Pages \ {pg} : dirty'[p][x] = dirty[p][x]
           /\ \A q \in Processes \ {p} : dirty'[q] = dirty[q]
           /\ UNCHANGED <<hdr, table, rw, queue, bm, th, ast, endLock, version, deaths>>
<1>1. PICK pg \in DirtyPages(p) :
        LET b == dirty[p][pg]
        IN  /\ delta' = IF ToDelta(p, b) THEN [delta EXCEPT ![pg] = CopyOf(b)] ELSE delta
            /\ main' = IF ToMain(p) THEN [main EXCEPT ![pg] = CopyOf(b)] ELSE main
            /\ latest' = Latest(pg, b.v)
            /\ dirty' = [dirty EXCEPT ![p][pg] = None]
            /\ endRead(p)
            /\ UNCHANGED <<hdr, table, rw, queue, bm, th, ast, endLock, version, deaths>>
  BY DEF write_page
<1>2. pg \in Pages /\ dirty[p][pg] \in Buffer /\ dirty[p][pg] # None
  BY DEF DirtyPages, Typed, DirtyTyped
<1>3. PICK b \in Buffer : b = dirty[p][pg]
  BY <1>2
<1>4. /\ dirty'[p][pg] = None
      /\ \A x \in Pages \ {pg} : dirty'[p][x] = dirty[p][x]
      /\ \A q \in Processes \ {p} : dirty'[q] = dirty[q]
  BY <1>1, <1>2 DEF Typed, DirtyTyped
<1>5. /\ delta' = (IF ToDelta(p, b) THEN [delta EXCEPT ![pg] = CopyOf(b)] ELSE delta)
      /\ main' = (IF ToMain(p) THEN [main EXCEPT ![pg] = CopyOf(b)] ELSE main)
      /\ latest' = Latest(pg, b.v)
      /\ UNCHANGED <<hdr, table, rw, queue, bm, th, ast, endLock, version, deaths>>
  BY <1>1, <1>3
<1> HIDE DEF ToDelta, ToMain, CopyOf, Latest
<1> QED BY <1>2, <1>3, <1>4, <1>5

LEMMA write_pageLocks ==
  ASSUME Typed, LocksOK, NEW p \in Processes, write_page(p)
  PROVE  LocksOK'
<1>1. /\ UNCHANGED <<hdr, rw, queue, bm, th>>
      /\ \A q \in Processes \ {p} : dirty'[q] = dirty[q]
      /\ DirtyPages(p)' \subseteq DirtyPages(p)
  <2>1. PICK pg \in Pages :
           /\ dirty'[p][pg] = None
           /\ \A x \in Pages \ {pg} : dirty'[p][x] = dirty[p][x]
           /\ \A q \in Processes \ {p} : dirty'[q] = dirty[q]
           /\ UNCHANGED <<hdr, rw, queue, bm, th>>
    BY WrittenIs
  <2> QED BY <2>1 DEF DirtyPages
<1>2. Unconcerned(p)
  BY <1>1 DEF Unconcerned, DirtyPages
<1>3. LocalReaders(p)' => LocalReaders(p)
  BY <1>1 DEF LocalReaders
<1>4. Stage(th'[p]) \in Writing => DirtyPages(p)' = {}
  BY <1>1 DEF LocksOK, LockOK
<1>5. Stage(th'[p]) \in Making => bm'[p].master
  BY <1>1 DEF LocksOK, LockOK
<1>6. /\ At(p, "locking")' <=> At(p, "locking")
      /\ At(p, "g_lock")' <=> At(p, "g_lock")
      /\ At(p, "g_locked")' <=> At(p, "g_locked")
  BY <1>1 DEF At
<1>7. At(p, "locking")' => DirtyPages(p)' = {}
  BY <1>1, <1>6 DEF LocksOK, LockOK
<1> QED BY <1>1, <1>2, <1>3, <1>4, <1>5, <1>6, <1>7, LocksSame

\* The state is checked.
LEMMA CheckedIs ==
  ASSUME Typed, NEW p \in Processes, CheckState(p)
  PROVE  /\ \A q \in Processes \ {p} : th'[q] = th[q] /\ bm'[q] = bm[q]
         /\ bm'[p].backup_state = bm[p].backup_state /\ bm'[p].current_scn = bm[p].current_scn
         /\ bm'[p].alloc_physical = bm[p].alloc_physical
         /\ UNCHANGED <<disk, rw, queue, dirty, ast, version, latest, deaths>>
         /\ th'[p].page = None /\ th[p].pc = "e_check" /\ Stage(th[p]) = "e_check"
         /\ \/ /\ Mergeable(p) /\ Moves(p, "g_flush") /\ th'[p].op = th[p].op
               /\ bm'[p].master = bm[p].master
               /\ \/ bm'[p] = bm[p]
                  \/ bm[p].backup_state = "stalled" /\ bm'[p] = Extended(bm[p])
            \/ /\ ~ Mergeable(p) /\ Moves(p, "idle") /\ th'[p].op = "none"
               /\ bm'[p].alloc_table = bm[p].alloc_table
               /\ bm'[p].allocIsValid = bm[p].allocIsValid /\ ~ bm'[p].master
<1>1. ManagersOK /\ FilesOK /\ ThreadsOK /\ bm[p] \in Manager /\ AllocOK(bm[p])
      /\ bm \in [Processes -> Manager] /\ th[p] \in Thread
  BY TypedParts DEF Typed, ManagersOK, Managers
<1>2. endRead(p) /\ UNCHANGED <<disk, rw, queue, dirty, ast, version, latest, deaths>>
      /\ th[p].pc = "e_check" /\ Stage(th[p]) = "e_check"
  BY DEF CheckState, At, Stage
<1>3. CASE Mergeable(p)
  <2>1. /\ bm' = IF bm[p].backup_state = "stalled" THEN [bm EXCEPT ![p] = Extended(bm[p])] ELSE bm
        /\ th' = [th EXCEPT ![p] = Guard(p, th[p].op)]
    BY <1>1, <1>3 DEF CheckState
  <2>2. PICK e \in Manager : e = Extended(bm[p]) /\ SameState(bm[p], e)
                             /\ e.alloc_physical = bm[p].alloc_physical
    BY <1>1, ExtendedIs
  <2>3. /\ \A q \in Processes \ {p} : bm'[q] = bm[q]
        /\ bm'[p] = bm[p] \/ (bm[p].backup_state = "stalled" /\ bm'[p] = e)
    BY <1>1, <2>1, <2>2
  <2>4. PICK t : t = [th[p] EXCEPT !.pc = "g_flush", !.op = th[p].op, !.page = None, !.buf = None]
    OBVIOUS
  <2>5. t.pc = "g_flush" /\ t.page = None /\ t.op = th[p].op
    BY <1>1, <2>4 DEF Thread
  <2>6. Stage(t) = "g_flush"
    BY <2>5 DEF Stage
  <2>7. th' = [th EXCEPT ![p] = t]
    BY <2>1, <2>4 DEF Guard
  <2>8. th'[p] = t /\ \A q \in Processes \ {p} : th'[q] = th[q]
    BY <1>1, <2>7 DEF ThreadsOK
  <2>9. bm'[p].backup_state = bm[p].backup_state /\ bm'[p].current_scn = bm[p].current_scn
        /\ bm'[p].master = bm[p].master /\ bm'[p].alloc_physical = bm[p].alloc_physical
    BY <2>2, <2>3 DEF SameState
  <2> QED BY <1>2, <1>3, <2>2, <2>3, <2>5, <2>6, <2>8, <2>9 DEF Moves
<1>4. CASE ~ Mergeable(p)
  <2>1. bm' = Finish(bm, p) /\ th' = [th EXCEPT ![p] = NewThread]
    BY <1>4 DEF CheckState
  <2>2. PICK b \in Manager :
           /\ AllocOK(b) /\ ~ b.master
           /\ b.alloc_table = bm[p].alloc_table
           /\ b.alloc_physical = bm[p].alloc_physical /\ b.allocIsValid = bm[p].allocIsValid
           /\ b.backup_state = bm[p].backup_state /\ b.current_scn = bm[p].current_scn
           /\ Finish(bm, p) = [bm EXCEPT ![p] = b]
    BY <1>1, FinishIs
  <2>3. bm'[p] = b /\ \A q \in Processes \ {p} : bm'[q] = bm[q]
    BY <1>1, <2>1, <2>2, OneManager
  <2>4. th'[p] = NewThread /\ \A q \in Processes \ {p} : th'[q] = th[q]
    BY <1>1, <2>1, ThreadDone
  <2>5. Moves(p, "idle") /\ th'[p].page = None /\ th'[p].op = "none"
    BY <2>4, NewThreadIs DEF Moves
  <2> QED BY <1>2, <1>4, <2>2, <2>3, <2>4, <2>5
<1> QED BY <1>3, <1>4

LEMMA CheckStateLocks ==
  ASSUME Typed, LocksOK, NEW p \in Processes, CheckState(p)
  PROVE  LocksOK'
<1>1. /\ \A q \in Processes \ {p} : th'[q] = th[q] /\ bm'[q] = bm[q]
      /\ bm'[p].backup_state = bm[p].backup_state /\ bm'[p].current_scn = bm[p].current_scn
      /\ UNCHANGED <<disk, rw, queue, dirty>> /\ th[p].pc = "e_check"
      /\ \/ Moves(p, "g_flush") /\ bm'[p].master = bm[p].master
         \/ Moves(p, "idle")
  BY CheckedIs
<1>2. LocalReaders(p) /\ bm[p].master
  BY <1>1 DEF LocalReaders, LocalRead, LocksOK, LockOK, Stage, Making
<1>3. "g_flush" \notin Writing /\ "idle" \notin Writing /\ "idle" \notin Making
  BY DEF Writing, Making
<1>4. hdr' = hdr /\ \A q \in Processes \ {p} : dirty'[q] = dirty[q]
  BY <1>1 DEF disk
<1>5. /\ \A q \in Processes : bm'[q].backup_state = bm[q].backup_state
                              /\ bm'[q].current_scn = bm[q].current_scn
      /\ \A q \in Processes \ {p} : bm'[q].master = bm[q].master
  BY <1>1
<1>6. CASE Moves(p, "g_flush") /\ bm'[p].master = bm[p].master
  BY <1>1, <1>2, <1>3, <1>4, <1>5, <1>6, LocksMove
<1>7. CASE Moves(p, "idle")
  BY <1>1, <1>2, <1>3, <1>4, <1>5, <1>7, LocksMove
<1> QED BY <1>1, <1>6, <1>7

\* The table is read for the merge.
LEMMA MergeAllocIs ==
  ASSUME Typed, NEW p \in Processes, MergeAlloc(p)
  PROVE  /\ SameState(bm[p], bm'[p]) /\ OnlyManager(p)
         /\ bm'[p].alloc_table = Known(bm[p]) \union table /\ bm'[p].allocIsValid
         /\ bm'[p].alloc_physical = bm[p].alloc_physical
         /\ Moves(p, "e_merge") /\ th[p].pc = "e_alloc" /\ Stage(th[p]) = "e_alloc"
         /\ th'[p].page = None /\ th'[p].op = th[p].op /\ th'[p].todo = Known(bm[p]) \union table
         /\ \A q \in Processes \ {p} : th'[q] = th[q]
         /\ UNCHANGED <<disk, rw, queue, dirty, ast, unlocking, endLock, version, latest, deaths>>
<1>1. th[p] \in Thread /\ ThreadOK(th[p]) /\ th[p].pc = "e_alloc" /\ bm[p] \in Manager
      /\ bm \in [Processes -> Manager]
  BY TypedParts DEF MergeAlloc, At, Typed, ManagersOK, Managers
<1>2. PICK b \in Manager : /\ b = actualizeAlloc(bm[p], TRUE) /\ SameState(bm[p], b)
                           /\ b.alloc_table = Known(bm[p]) \union table /\ b.allocIsValid
                           /\ b.alloc_physical = bm[p].alloc_physical
  BY <1>1, ActualizeAllocIs DEF Typed, FilesOK
<1>3. bm' = [bm EXCEPT ![p] = b]
      /\ th' = [th EXCEPT ![p].pc = "e_merge", ![p].todo = b.alloc_table]
      /\ UNCHANGED <<disk, rw, queue, dirty, ast, unlocking, endLock, version, latest, deaths>>
  BY <1>2 DEF MergeAlloc
<1>4. bm'[p] = b /\ \A q \in Processes \ {p} : bm'[q] = bm[q]
  BY <1>1, <1>3
<1>5. Stage(th[p]) = "e_alloc" /\ th[p].page = None
  BY <1>1 DEF ThreadOK, Stage, Latched, Writing
<1>6. PICK t : t = [th[p] EXCEPT !.pc = "e_merge", !.todo = b.alloc_table]
  OBVIOUS
<1>7. t.pc = "e_merge" /\ t.page = th[p].page /\ t.op = th[p].op /\ t.todo = b.alloc_table
  BY <1>1, <1>6 DEF Thread
<1>8. Stage(t) = "e_merge"
  BY <1>7 DEF Stage
<1>9. th' = [th EXCEPT ![p] = t]
  BY <1>3, <1>6 DEF Typed, ThreadsOK
<1>10. th'[p] = t /\ \A q \in Processes \ {p} : th'[q] = th[q]
  BY <1>9 DEF Typed, ThreadsOK
<1> QED BY <1>1, <1>2, <1>3, <1>4, <1>5, <1>7, <1>8, <1>10 DEF Moves, OnlyManager

LEMMA MergeAllocLocks ==
  ASSUME Typed, LocksOK, NEW p \in Processes, MergeAlloc(p)
  PROVE  LocksOK'
<1>1. /\ SameState(bm[p], bm'[p]) /\ OnlyManager(p) /\ Moves(p, "e_merge") /\ th[p].pc = "e_alloc"
      /\ \A q \in Processes \ {p} : th'[q] = th[q]
      /\ UNCHANGED <<disk, rw, queue, dirty>>
  BY MergeAllocIs
<1>2. LocalReaders(p) /\ bm[p].master
  BY <1>1 DEF LocalReaders, LocalRead, LocksOK, LockOK, Stage, Making
<1>3. "e_merge" \notin Writing
  BY DEF Writing
<1>4. hdr' = hdr
  BY <1>1 DEF disk
<1>5. \A q \in Processes : /\ bm'[q].backup_state = bm[q].backup_state
                           /\ bm'[q].current_scn = bm[q].current_scn
                           /\ bm'[q].master = bm[q].master
  BY <1>1 DEF SameState, OnlyManager
<1> QED BY <1>1, <1>2, <1>3, <1>4, <1>5, LocksMove

\* A page of the table is fetched.
LEMMA MergeFetchIs ==
  ASSUME Typed, NEW p \in Processes, MergeFetch(p)
  PROVE  \E pg \in th[p].todo :
           /\ pg \in Pages /\ Available(p, pg) /\ bm' = Indexed(p, pg)
           /\ Moves(p, "e_page") /\ th[p].pc = "e_merge" /\ Stage(th[p]) = "e_merge"
           /\ th'[p].page = pg /\ th'[p].op = th[p].op /\ th'[p].todo = th[p].todo
           /\ th'[p].buf = PageRead(Indexed(p, pg), p, pg)
           /\ \A q \in Processes \ {p} : th'[q] = th[q]
           /\ \A q \in Processes : SameState(bm[q], bm'[q])
           /\ UNCHANGED <<disk, rw, queue, dirty, ast, unlocking, endLock, version, latest, deaths>>
<1>1. th[p] \in Thread /\ th[p].pc = "e_merge"
  BY TypedParts DEF MergeFetch, At
<1>2. PICK pg \in th[p].todo :
         /\ Available(p, pg)
         /\ bm' = Indexed(p, pg)
         /\ th' = [th EXCEPT ![p].pc = "e_page", ![p].page = pg,
                             ![p].buf = PageRead(Indexed(p, pg), p, pg)]
         /\ UNCHANGED <<disk, rw, queue, dirty, ast, unlocking, endLock, version, latest, deaths>>
  BY DEF MergeFetch
<1>3. pg \in Pages
  BY <1>1, <1>2 DEF Thread
<1>4. PICK c : c = PageRead(Indexed(p, pg), p, pg)
  OBVIOUS
<1>5. PICK t : t = [th[p] EXCEPT !.pc = "e_page", !.page = pg, !.buf = c]
  OBVIOUS
<1>6. t.pc = "e_page" /\ t.page = pg /\ t.buf = c /\ t.op = th[p].op /\ t.todo = th[p].todo
  BY <1>1, <1>5 DEF Thread
<1>7. Stage(t) = "e_page" /\ Stage(th[p]) = "e_merge"
  BY <1>1, <1>6 DEF Stage
<1>8. th' = [th EXCEPT ![p] = t]
  BY <1>2, <1>4, <1>5 DEF Typed, ThreadsOK
<1>9. th'[p] = t /\ \A q \in Processes \ {p} : th'[q] = th[q]
  BY <1>8 DEF Typed, ThreadsOK
<1>10. \A q \in Processes : SameState(bm[q], bm'[q])
  BY <1>2, <1>3, PlacedQuiet, QuietManagers DEF Typed
<1>11. Moves(p, "e_page")
  BY <1>6, <1>7, <1>9 DEF Moves
<1> QED BY <1>1, <1>2, <1>3, <1>4, <1>6, <1>7, <1>9, <1>10, <1>11

LEMMA MergeFetchLocks ==
  ASSUME Typed, LocksOK, NEW p \in Processes, MergeFetch(p)
  PROVE  LocksOK'
<1>1. /\ Moves(p, "e_page") /\ th[p].pc = "e_merge"
      /\ \A q \in Processes \ {p} : th'[q] = th[q]
      /\ \A q \in Processes : SameState(bm[q], bm'[q])
      /\ UNCHANGED <<disk, rw, queue, dirty>>
  BY MergeFetchIs
<1>2. LocalReaders(p) /\ bm[p].master
  BY <1>1 DEF LocalReaders, LocalRead, LocksOK, LockOK, Stage, Making
<1>3. "e_page" \notin Writing
  BY DEF Writing
<1>4. hdr' = hdr
  BY <1>1 DEF disk
<1>5. \A q \in Processes : /\ bm'[q].backup_state = bm[q].backup_state
                           /\ bm'[q].current_scn = bm[q].current_scn
                           /\ bm'[q].master = bm[q].master
  BY <1>1 DEF SameState
<1> QED BY <1>1, <1>2, <1>3, <1>4, <1>5, LocksMove

LEMMA initializeAllocLocks ==
  ASSUME Typed, LocksOK, NEW p \in Processes, initializeAlloc(p)
  PROVE  LocksOK'
<1>1. /\ OnlyManager(p) /\ SameState(bm[p], bm'[p]) /\ th'[p].pc = "a_recover"
      /\ Stage(th'[p]) = "a_recover"
      /\ \A q \in Processes \ {p} : th'[q] = th[q]
  BY InitializeAllocIs
<1>2. UNCHANGED <<hdr, rw, queue, dirty>> /\ th[p].pc = "a_alloc"
  BY DEF initializeAlloc, disk, At
<1>3. LocalReaders(p) /\ Moves(p, "a_recover")
  BY <1>1, <1>2 DEF LocalReaders, LocalRead, Moves
<1>4. "a_recover" \notin Writing /\ "a_recover" \notin Making
  BY DEF Writing, Making
<1>5. \A q \in Processes : /\ bm'[q].backup_state = bm[q].backup_state
                           /\ bm'[q].current_scn = bm[q].current_scn
                           /\ bm'[q].master = bm[q].master
  BY <1>1 DEF SameState, OnlyManager
<1> QED BY <1>1, <1>2, <1>3, <1>4, <1>5, LocksMove

\* Where a process is that asks for the lock.
LEMMA LockPlaces ==
  ASSUME Typed, NEW p \in Processes, LockOK(p)
  PROVE  /\ rw[p].want \in Levels /\ rw[p].lck_physical \in Levels
         /\ bm[p].backup_state \in Modes \union {"unknown"}
         /\ At(p, "locking") => rw[p].want = "read" /\ ~ rw[p].blocking /\ ~ rw[p].currentWriter
         /\ At(p, "g_lock") => rw[p].want = "write" /\ ~ rw[p].currentWriter
         /\ At(p, "g_locked") => rw[p].want = "none" /\ rw[p].currentWriter
         /\ rw[p].want # "none" => LocalReaders(p) \/ LocalWriter(p)
         /\ rw[p].currentWriter => LocalWriter(p)
<1>1. rw[p] \in RWLock /\ bm[p] \in Manager
  BY TypedParts
<1>2. /\ rw[p].want \in Levels /\ rw[p].lck_physical \in Levels
      /\ bm[p].backup_state \in Modes \union {"unknown"}
  BY <1>1 DEF RWLock, Manager
<1>3. At(p, "locking") => ~ At(p, "g_lock") /\ ~ At(p, "g_locked") /\ th[p].pc \notin LocalWrite
                          /\ LocalReaders(p)
  BY DEF At, LocalWrite, LocalReaders, LocalRead
<1>4. At(p, "g_lock") => ~ At(p, "locking") /\ ~ At(p, "g_locked") /\ LocalWriter(p)
  BY DEF At, LocalWrite, LocalWriter
<1>5. At(p, "g_locked") => ~ At(p, "locking") /\ ~ At(p, "g_lock") /\ LocalWriter(p)
  BY DEF At, LocalWrite, LocalWriter
<1> QED BY <1>2, <1>3, <1>4, <1>5 DEF LockOK, Levels

LEMMA GrantLocks ==
  ASSUME Typed, LocksOK, NEW p \in Processes, Grant(p)
  PROVE  LocksOK'
<1>1. /\ OnlyLock(p) /\ rw'[p].lck_physical = rw[p].want
      /\ rw'[p].want = rw[p].want /\ rw'[p].currentWriter = rw[p].currentWriter
      /\ rw'[p].blocking = rw[p].blocking
  BY GrantIs
<1>2. /\ queue # <<>> /\ Head(queue) = p /\ queue' = Tail(queue)
      /\ \A q \in Processes \ {p} :
            \/ rw[q].lck_physical = "none"
            \/ rw[q].lck_physical = "read" /\ rw[p].want = "read"
      /\ UNCHANGED <<hdr, bm, dirty, th>>
  BY DEF Grant, disk
<1>3. /\ p \in ToSet(queue) /\ p \notin ToSet(queue') /\ NoDuplicates(queue')
      /\ \A q \in Processes \ {p} : q \in ToSet(queue') <=> q \in ToSet(queue)
  BY <1>2, TailQueue DEF LocksOK, Typed, WaitsOK
<1>4. LockOK(p) /\ rw[p].want # "none"
  BY <1>3 DEF LocksOK, LockOK
<1>5. /\ At(p, "locking")' <=> At(p, "locking")
      /\ At(p, "g_lock")' <=> At(p, "g_lock")
      /\ At(p, "g_locked")' <=> At(p, "g_locked")
      /\ LocalReaders(p)' <=> LocalReaders(p)
      /\ DirtyPages(p)' = DirtyPages(p)
  BY <1>2 DEF At, LocalReaders, DirtyPages
<1>6. ~ At(p, "g_locked")
  BY <1>4, LockPlaces
<1>7. LockOK(p)'
  BY <1>1, <1>2, <1>3, <1>4, <1>5, <1>6 DEF LockOK
<1>8. Unconcerned(p)
  BY <1>2 DEF Unconcerned, DirtyPages
<1> QED BY <1>1, <1>2, <1>3, <1>7, <1>8, LocksByOne

LEMMA lockReadLocks ==
  ASSUME Typed, LocksOK, NEW p \in Processes, lockRead(p)
  PROVE  LocksOK'
<1>1. At(p, "locking") /\ p \notin ToSet(queue) /\ UNCHANGED <<hdr, queue, dirty>>
  BY DEF lockRead, Granted, disk
<1>2. LockOK(p) /\ rw[p].want = "read" /\ ~ rw[p].blocking /\ rw[p].lck_physical = "read"
      /\ ~ rw[p].currentWriter
  <2>1. LockOK(p)
    BY DEF LocksOK
  <2>2. rw[p].want = "read" /\ ~ rw[p].blocking /\ ~ rw[p].currentWriter
    BY <1>1, <2>1, LockPlaces
  <2> QED BY <1>1, <2>1, <2>2 DEF LockOK
<1>3. /\ OnlyLock(p) /\ rw'[p].want = "none" /\ ~ rw'[p].currentWriter /\ ~ rw'[p].blocking
      /\ rw'[p].lck_physical = "read" /\ OnlyManager(p)
      /\ SameTable(actualizeState(bm[p]), bm'[p]) /\ bm'[p].backup_state = hdr.mode
  BY <1>2, LockReadIs
<1>4. bm'[p].current_scn = hdr.scn /\ bm'[p].master = bm[p].master /\ hdr.mode # "unknown"
  <2>1. bm[p] \in Manager /\ AllocOK(bm[p]) /\ hdr \in [mode : Modes, scn : Nat]
    BY TypedParts DEF Typed, FilesOK
  <2> QED BY <1>3, <2>1, ActualizeStateIs DEF SameTable, Modes
<1>5. /\ Stage(th'[p]) = Stage(th[p]) /\ th'[p].pc \in Returns
      /\ \A q \in Processes \ {p} : th'[q] = th[q]
  BY LockReadThread DEF Typed
<1>6. ~ At(p, "locking")' /\ ~ At(p, "g_lock")' /\ ~ At(p, "g_locked")'
  BY <1>5 DEF At, Returns
<1>7. DirtyPages(p)' = DirtyPages(p) /\ Unconcerned(p)
  BY <1>1, <1>3, <1>5 DEF DirtyPages, Unconcerned, OnlyManager
<1>8. LockOK(p)'
  BY <1>1, <1>2, <1>3, <1>4, <1>5, <1>6, <1>7 DEF LockOK
<1> QED BY <1>1, <1>2, <1>3, <1>7, <1>8, LocksByOne DEF LocksOK

LEMMA unlockStateReadLocks ==
  ASSUME Typed, LocksOK, NEW p \in Processes, unlockStateRead(p)
  PROVE  LocksOK'
<1>1. UNCHANGED <<hdr, queue, dirty, th>>
  BY DEF unlockStateRead, disk
<1>2. OnlyLock(p) /\ OnlyManager(p) /\ SameTable(bm[p], bm'[p]) /\ LockOK(p)
  BY UnlockStateReadIs DEF LocksOK
<1>3. DirtyPages(p)' = DirtyPages(p) /\ Unconcerned(p)
  BY <1>1, <1>2 DEF DirtyPages, Unconcerned, OnlyManager
<1>4. /\ At(p, "locking")' <=> At(p, "locking")
      /\ At(p, "g_lock")' <=> At(p, "g_lock")
      /\ At(p, "g_locked")' <=> At(p, "g_locked")
      /\ LocalReaders(p)' <=> LocalReaders(p)
  BY <1>1 DEF At, LocalReaders, DirtyPages
<1>5. CASE UNCHANGED <<rw, bm>>
  <2>1. LockOK(p)'
    BY <1>1, <1>2, <1>3, <1>5, LockKept
  <2> QED BY <1>1, <1>2, <1>3, <1>5, <2>1, LocksByOne DEF LocksOK
<1>6. CASE /\ ~ LocalReaders(p) /\ ~ LocalWriter(p)
           /\ rw'[p].lck_physical = "none"
           /\ \/ bm'[p].backup_state = "unknown"
              \/ rw[p].lck_physical = "none" /\ bm'[p].backup_state = bm[p].backup_state
           /\ rw'[p].want = rw[p].want /\ rw'[p].currentWriter = rw[p].currentWriter
           /\ rw'[p].blocking => rw[p].blocking
  <2>1. rw[p].want = "none" /\ ~ rw[p].currentWriter /\ ~ rw[p].blocking
    <3>1. rw[p].want = "none" /\ ~ rw[p].currentWriter
      BY <1>2, <1>6, LockPlaces
    <3> QED BY <1>2, <1>6, <3>1 DEF LockOK, LocalWriter
  <2>2. bm'[p].backup_state = "unknown"
    BY <1>2, <1>6 DEF LockOK
  <2>3. ~ At(p, "g_locked")
    BY <1>6 DEF LocalWriter, LocalWrite, At
  <2>4. p \notin ToSet(queue)
    BY <1>2, <2>1 DEF LockOK
  <2>5. rw'[p].blocking => th'[p].pc \in LocalWrite
    BY <1>6, <2>1
  <2>6. LockOK(p)'
    BY <1>1, <1>2, <1>3, <1>4, <1>6, <2>1, <2>2, <2>3, <2>4, <2>5 DEF LockOK, SameTable
  <2> QED BY <1>1, <1>2, <1>3, <1>6, <2>6, LocksByOne DEF LocksOK
<1> QED BY <1>5, <1>6, UnlockStateReadIs

-----------------------------------------------------------------------------
(* The blocking AST, the writer, death.                                    *)

\* A process reads or writes the lock it has after a blocking AST.
LEMMA BlockingLocks ==
  ASSUME Typed, LocksOK, NEW p \in Processes, BlockingAst(p), UNCHANGED <<hdr, queue, dirty, th>>,
         rw[p].want # "none" \/ rw[p].currentWriter => LocalWriter(p),
         LocalReaders(p) /\ rw[p].want = "none" => Downgraded(p) # "none"
  PROVE  LocksOK'
<1>1. /\ OnlyLock(p) /\ OnlyManager(p) /\ SameTable(bm[p], bm'[p])
      /\ rw'[p].want = rw[p].want /\ rw'[p].currentWriter = rw[p].currentWriter
      /\ \/ /\ rw[p].want = "none" /\ ~ rw[p].currentWriter
            /\ rw'[p].lck_physical = Downgraded(p)
            /\ rw'[p].blocking => rw[p].blocking
            /\ bm'[p].backup_state = IF Downgraded(p) = "none" THEN "unknown"
                                     ELSE bm[p].backup_state
         \/ /\ rw[p].want # "none" \/ rw[p].currentWriter
            /\ rw'[p].lck_physical = rw[p].lck_physical
            /\ bm'[p].backup_state = bm[p].backup_state
  BY BlockingAstIs
<1>2. LockOK(p) /\ WaitsOK
  BY DEF LocksOK, Typed
<1>3. /\ At(p, "locking")' <=> At(p, "locking")
      /\ At(p, "g_lock")' <=> At(p, "g_lock")
      /\ At(p, "g_locked")' <=> At(p, "g_locked")
      /\ LocalReaders(p)' <=> LocalReaders(p)
      /\ DirtyPages(p)' = DirtyPages(p)
      /\ LocalWriter(p) <=> th'[p].pc \in LocalWrite
  BY DEF At, LocalReaders, LocalWriter, DirtyPages
<1>4. Unconcerned(p) /\ bm'[p].current_scn = bm[p].current_scn /\ bm'[p].master = bm[p].master
  BY <1>1 DEF Unconcerned, DirtyPages, OnlyManager, SameTable
<1>5. /\ Downgraded(p) \in Levels
      /\ Downgraded(p) = "write" => rw[p].lck_physical = "write"
      /\ Downgraded(p) # "none" => rw[p].lck_physical # "none"
  BY <1>2, DowngradedIs
<1>6. CASE /\ rw[p].want = "none" /\ ~ rw[p].currentWriter
           /\ rw'[p].lck_physical = Downgraded(p)
           /\ rw'[p].blocking => rw[p].blocking
           /\ bm'[p].backup_state = IF Downgraded(p) = "none" THEN "unknown"
                                    ELSE bm[p].backup_state
  <2>1. ~ At(p, "locking") /\ ~ At(p, "g_lock") /\ ~ At(p, "g_locked") /\ p \notin ToSet(queue)
    BY <1>2, <1>6, LockPlaces DEF LockOK
  <2>2. ~ rw'[p].blocking
    BY <1>2, <1>6, <2>1 DEF LockOK, LocalWrite, At
  <2>3. bm'[p].backup_state # "unknown" <=> Downgraded(p) # "none"
    BY <1>2, <1>5, <1>6 DEF LockOK
  <2>4. bm'[p].backup_state # "unknown" => bm'[p].backup_state = bm[p].backup_state
    BY <1>6
  <2>5. LockOK(p)'
    BY <1>1, <1>2, <1>3, <1>4, <1>6, <2>1, <2>2, <2>3, <2>4 DEF LockOK
  <2> QED BY <1>1, <1>4, <1>5, <1>6, <2>5, LocksByOne DEF LocksOK
<1>7. CASE /\ rw[p].want # "none" \/ rw[p].currentWriter
           /\ rw'[p].lck_physical = rw[p].lck_physical
           /\ bm'[p].backup_state = bm[p].backup_state
  <2>1. LockOK(p)'
    BY <1>1, <1>2, <1>3, <1>4, <1>7 DEF LockOK
  <2> QED BY <1>1, <1>4, <1>7, <2>1, LocksByOne DEF LocksOK
<1> QED BY <1>1, <1>6, <1>7

\* Whoever waits to write is the one that makes a backup.
LEMMA WaitingWriter ==
  ASSUME Typed, LocksOK, OneMaster, NEW p \in Processes, bm[p].master
  PROVE  "write" \notin Waiting(p)
<1>1. SUFFICES ASSUME NEW q \in ToSet(queue) \ {p}, rw[q].want = "write" PROVE FALSE
  BY DEF Waiting
<1>2. q \in Processes /\ q # p
  BY <1>1, ElementOfQueue DEF Typed, WaitsOK
<1>3. LockOK(q) /\ At(q, "g_lock")
  BY <1>1, <1>2 DEF LocksOK, LockOK
<1>4. Stage(th[q]) = "g_lock"
  BY <1>3 DEF At, Stage
<1>5. bm[q].master
  BY <1>3, <1>4 DEF LockOK, Making, Writing
<1> QED BY <1>2, <1>5 DEF OneMaster

LEMMA blockingAstHandlerLocks ==
  ASSUME Typed, LocksOK, OneMaster, NEW p \in Processes, blockingAstHandler(p)
  PROVE  LocksOK'
<1>1. UNCHANGED <<hdr, queue, dirty, th>> /\ Conflicts(p)
  BY DEF blockingAstHandler, disk
<1>2. CASE bm[p].master
  <2>1. BlockingAst(p) /\ "write" \notin Waiting(p)
    BY <1>2, WaitingWriter DEF blockingAstHandler
  <2>2. rw[p].lck_physical = "write" /\ Downgraded(p) # "none"
    BY <1>1, <2>1 DEF Conflicts, Downgraded
  <2>3. LockOK(p)
    BY DEF LocksOK
  <2>4. rw[p].want \in Levels
    BY <2>3, LockPlaces
  <2>5. rw[p].want # "none" => At(p, "g_lock")
    BY <2>2, <2>3, <2>4 DEF LockOK, Levels
  <2>6. rw[p].want # "none" \/ rw[p].currentWriter => LocalWriter(p)
    BY <2>3, <2>5 DEF LockOK, At, LocalWriter, LocalWrite
  <2> QED BY <1>1, <2>1, <2>2, <2>6, BlockingLocks
<1>3. CASE ~ bm[p].master
  <2>1. /\ OnlyLock(p) /\ OnlyManager(p) /\ SameTable(bm[p], bm'[p])
        /\ bm'[p].backup_state = bm[p].backup_state
        /\ rw'[p].want = rw[p].want /\ rw'[p].currentWriter = rw[p].currentWriter
        /\ rw'[p].lck_physical = rw[p].lck_physical /\ rw'[p].blocking = rw[p].blocking
    BY <1>3, HandlerIs
  <2>2. /\ At(p, "locking")' <=> At(p, "locking")
        /\ At(p, "g_lock")' <=> At(p, "g_lock")
        /\ At(p, "g_locked")' <=> At(p, "g_locked")
        /\ LocalReaders(p)' <=> LocalReaders(p)
        /\ DirtyPages(p)' = DirtyPages(p)
    BY <1>1 DEF At, LocalReaders, DirtyPages
  <2>3. Unconcerned(p) /\ bm'[p].current_scn = bm[p].current_scn /\ bm'[p].master = bm[p].master
    BY <1>1, <2>1 DEF Unconcerned, DirtyPages, OnlyManager, SameTable
  <2>4. LockOK(p)
    BY DEF LocksOK
  <2>5. LockOK(p)'
    BY <1>1, <2>1, <2>2, <2>3, <2>4 DEF LockOK
  <2> QED BY <1>1, <2>1, <2>3, <2>5, LocksByOne DEF LocksOK
<1> QED BY <1>2, <1>3

LEMMA tryBeginWriteLocks ==
  ASSUME Typed, LocksOK, NEW p \in Processes, tryBeginWrite(p)
  PROVE  LocksOK'
<1>1. UNCHANGED <<hdr, queue, dirty, th>>
  BY DEF tryBeginWrite, disk
<1>2. CASE LocalReaders(p) \/ LocalWriter(p)
  <2>1. /\ UNCHANGED rw /\ OnlyManager(p) /\ SameTable(bm[p], bm'[p])
        /\ bm'[p].backup_state = bm[p].backup_state
    BY <1>2, TryFailsIs
  <2>2. \A q \in Processes : /\ bm'[q].backup_state = bm[q].backup_state
                             /\ bm'[q].current_scn = bm[q].current_scn
                             /\ bm'[q].master = bm[q].master
    BY <2>1 DEF OnlyManager, SameTable
  <2>3. ASSUME NEW q \in Processes PROVE LockOK(q)'
    BY <1>1, <2>1, <2>2, <2>3, LockKept DEF LocksOK, DirtyPages
  <2> QED BY <1>1, <2>1, <2>3 DEF LocksOK, Compatible
<1>3. CASE ~ (LocalReaders(p) \/ LocalWriter(p))
  <2>1. BlockingAst(p)
    BY <1>3 DEF tryBeginWrite
  <2>2. LockOK(p)
    BY DEF LocksOK
  <2>3. rw[p].want = "none" /\ ~ rw[p].currentWriter
    BY <1>3, <2>2, LockPlaces
  <2> QED BY <1>1, <1>3, <2>1, <2>3, BlockingLocks
<1> QED BY <1>2, <1>3

LEMMA lockWriteLocks ==
  ASSUME Typed, LocksOK, NEW p \in Processes, lockWrite(p)
  PROVE  LocksOK'
<1>1. UNCHANGED <<hdr, dirty>> /\ At(p, "g_held") /\ ~ LocalReaders(p)
  BY DEF lockWrite, disk
<1>2. LockOK(p) /\ rw[p] \in RWLock /\ th[p].pc = "g_held" /\ Stage(th[p]) = "g_held"
      /\ queue \in Seq(Processes)
  BY <1>1, TypedParts DEF LocksOK, At, Stage, Typed, WaitsOK
<1>3. rw[p].want = "none" /\ ~ rw[p].currentWriter /\ ~ rw[p].blocking /\ p \notin ToSet(queue)
  BY <1>2 DEF LockOK, RWLock, Levels, At, LocalWrite
<1>4. DirtyPages(p)' = DirtyPages(p) /\ DirtyPages(p) = {} /\ bm[p].master
  BY <1>1, <1>2 DEF DirtyPages, LockOK, Writing, Making
<1>5. OnlyLock(p) /\ OnlyManager(p) /\ SameTable(bm[p], bm'[p])
  BY LockWriteIs
<1>6. ASSUME NEW s \in {"g_lock", "g_locked"}, th' = [th EXCEPT ![p].pc = s]
      PROVE  /\ th'[p].pc = s /\ Stage(th'[p]) = s /\ ~ LocalReaders(p)'
             /\ \A q \in Processes \ {p} : th'[q] = th[q]
  <2>1. /\ th'[p].pc = s /\ Stage(th'[p]) = s
        /\ \A q \in Processes \ {p} : th'[q] = th[q]
    BY <1>2, <1>6, GuardGoesOn DEF Typed
  <2> QED BY <1>4, <2>1 DEF LocalReaders, LocalRead
<1>7. CASE /\ rw[p].lck_physical = "write" /\ rw'[p].lck_physical = "write"
           /\ rw'[p].want = rw[p].want /\ rw'[p].currentWriter
           /\ bm'[p].backup_state = bm[p].backup_state
           /\ UNCHANGED queue /\ th' = [th EXCEPT ![p].pc = "g_locked"]
  <2>1. /\ th'[p].pc = "g_locked" /\ Stage(th'[p]) = "g_locked" /\ ~ LocalReaders(p)'
        /\ \A q \in Processes \ {p} : th'[q] = th[q]
    BY <1>6, <1>7
  <2>2. At(p, "g_locked")' /\ ~ At(p, "locking")' /\ ~ At(p, "g_lock")' /\ th'[p].pc \in LocalWrite
    BY <2>1 DEF At, LocalWrite
  <2>3. Unconcerned(p) /\ bm'[p].current_scn = bm[p].current_scn /\ bm'[p].master
    BY <1>1, <1>4, <1>5, <2>1 DEF Unconcerned, DirtyPages, OnlyManager, SameTable
  <2>4. bm[p].backup_state # "unknown"
    BY <1>2, <1>3, <1>7 DEF LockOK
  <2>5. LockOK(p)'
    BY <1>1, <1>2, <1>3, <1>4, <1>7, <2>1, <2>2, <2>3, <2>4 DEF LockOK
  <2> QED BY <1>1, <1>5, <1>7, <2>3, <2>5, LocksByOne DEF LocksOK
<1>8. CASE /\ rw'[p].lck_physical = "none"
           /\ rw'[p].want = "write" /\ rw'[p].currentWriter = rw[p].currentWriter
           /\ bm'[p].backup_state = IF rw[p].lck_physical # "none" THEN "unknown"
                                    ELSE bm[p].backup_state
           /\ queue' = Append(queue, p) /\ th' = [th EXCEPT ![p].pc = "g_lock"]
  <2>1. /\ th'[p].pc = "g_lock" /\ Stage(th'[p]) = "g_lock" /\ ~ LocalReaders(p)'
        /\ \A q \in Processes \ {p} : th'[q] = th[q]
    BY <1>6, <1>8
  <2>2. ~ At(p, "g_locked")' /\ ~ At(p, "locking")' /\ At(p, "g_lock")' /\ th'[p].pc \in LocalWrite
    BY <2>1 DEF At, LocalWrite
  <2>3. Unconcerned(p) /\ bm'[p].current_scn = bm[p].current_scn /\ bm'[p].master
    BY <1>1, <1>4, <1>5, <2>1 DEF Unconcerned, DirtyPages, OnlyManager, SameTable
  <2>4. bm'[p].backup_state = "unknown"
    BY <1>2, <1>8 DEF LockOK
  <2>5. NoDuplicates(queue') /\ ToSet(queue') = ToSet(queue) \union {p}
    BY <1>2, <1>3, <1>8, AppendQueue DEF LocksOK
  <2>6. LockOK(p)'
    BY <1>1, <1>3, <1>4, <1>8, <2>1, <2>2, <2>3, <2>4, <2>5 DEF LockOK
  <2> QED BY <1>1, <1>5, <1>8, <2>3, <2>5, <2>6, LocksByOne
<1> QED BY <1>7, <1>8, LockWriteIs

LEMMA WriteGrantedLocks ==
  ASSUME Typed, LocksOK, NEW p \in Processes, WriteGranted(p)
  PROVE  LocksOK'
<1>1. UNCHANGED <<hdr, queue, dirty>> /\ At(p, "g_lock") /\ p \notin ToSet(queue)
      /\ th' = [th EXCEPT ![p].pc = "g_locked"]
  BY DEF WriteGranted, disk, Granted
<1>2. LockOK(p) /\ th[p].pc = "g_lock" /\ Stage(th[p]) = "g_lock"
  BY <1>1 DEF LocksOK, At, Stage
<1>3. rw[p].want = "write" /\ rw[p].lck_physical = "write"
  BY <1>1, <1>2 DEF LockOK
<1>4. DirtyPages(p)' = DirtyPages(p) /\ DirtyPages(p) = {} /\ bm[p].master
  BY <1>1, <1>2 DEF DirtyPages, LockOK, Writing, Making
<1>5. /\ OnlyLock(p) /\ OnlyManager(p)
      /\ bm'[p] = actualizeState(bm[p]) /\ rw'[p].want = "none" /\ rw'[p].currentWriter
      /\ rw'[p].lck_physical = rw[p].lck_physical
  BY WriteGrantedIs
<1>6. /\ bm'[p].backup_state = hdr.mode /\ bm'[p].current_scn = hdr.scn
      /\ bm'[p].master = bm[p].master /\ hdr.mode # "unknown"
  <2>1. bm[p] \in Manager /\ AllocOK(bm[p]) /\ hdr \in [mode : Modes, scn : Nat]
    BY TypedParts DEF Typed, FilesOK
  <2> QED BY <1>5, <2>1, ActualizeStateIs DEF Modes
<1>7. /\ th'[p].pc = "g_locked" /\ Stage(th'[p]) = "g_locked"
      /\ \A q \in Processes \ {p} : th'[q] = th[q]
  BY <1>1, <1>2, GuardGoesOn DEF Typed
<1>8. /\ At(p, "g_locked")' /\ ~ At(p, "locking")' /\ ~ At(p, "g_lock")' /\ th'[p].pc \in LocalWrite
      /\ ~ LocalReaders(p)'
  BY <1>4, <1>7 DEF At, LocalWrite, LocalReaders, LocalRead
<1>9. Unconcerned(p)
  BY <1>1, <1>5, <1>7 DEF Unconcerned, DirtyPages, OnlyManager
<1>10. LockOK(p)'
  BY <1>1, <1>3, <1>4, <1>5, <1>6, <1>7, <1>8 DEF LockOK
<1> QED BY <1>1, <1>3, <1>5, <1>9, <1>10, LocksByOne DEF LocksOK

\* The state is unlocked after a change, or after a look at it.
LEMMA UnlockLocks ==
  ASSUME Typed, LocksOK, NEW p \in Processes, NEW B, Changed(B), unlockStateWrite(p, B),
         At(p, "g_locked"), UNCHANGED <<queue, dirty>>,
         \A q \in Processes \ {p} : th'[q] = th[q],
         NEW s \in {"idle", "e_guard"}, th'[p].pc = s, Stage(th'[p]) = s,
         s = "e_guard" => B[p].master,
         B[p].backup_state # "unknown" =>
            B[p].backup_state = hdr'.mode /\ B[p].current_scn = hdr'.scn,
         \A q \in Processes \ {p} : B[q].backup_state = bm[q].backup_state
                                    /\ (bm[q].master => B[q].master)
  PROVE  LocksOK'
<1>1. /\ OnlyLock(p) /\ \A q \in Processes \ {p} : bm'[q] = B[q]
      /\ SameTable(B[p], bm'[p])
      /\ bm'[p].backup_state = IF rw'[p].lck_physical = "none" THEN "unknown"
                               ELSE B[p].backup_state
      /\ rw'[p].want = rw[p].want /\ ~ rw'[p].currentWriter /\ ~ rw'[p].blocking
      /\ rw'[p].lck_physical # "none" => B[p].backup_state # "unknown"
  BY UnlockStateWriteIs
<1>2. LockOK(p) /\ rw[p].lck_physical = "write" /\ Stage(th[p]) = "g_locked"
  BY DEF LocksOK, LockOK, At, Stage
<1>3. rw[p].want = "none" /\ p \notin ToSet(queue)
  BY <1>2, LockPlaces DEF LockOK
<1>4. DirtyPages(p)' = {} /\ \A q \in Processes : DirtyPages(q)' = DirtyPages(q)
  BY <1>2 DEF DirtyPages, LockOK, Writing
<1>5. ~ At(p, "locking")' /\ ~ At(p, "g_lock")' /\ ~ At(p, "g_locked")' /\ ~ LocalReaders(p)'
      /\ s \notin Writing
  BY <1>4 DEF At, LocalReaders, LocalRead, Writing
<1>6. s \in Making => bm'[p].master
  BY <1>1 DEF SameTable, Making, Writing
<1>7. LockOK(p)'
  BY <1>1, <1>3, <1>4, <1>5, <1>6 DEF LockOK, SameTable
<1>8. ASSUME NEW q \in Processes \ {p} PROVE LockOK(q)'
  <2>1. rw[q].lck_physical = "none" /\ rw'[q] = rw[q] /\ th'[q] = th[q] /\ LockOK(q)
    BY <1>1, <1>2 DEF LocksOK, Compatible, OnlyLock
  <2>2. bm[q].backup_state = "unknown"
    BY <2>1 DEF LockOK
  <2>3. bm'[q].backup_state = "unknown" /\ (bm[q].master => bm'[q].master)
    BY <1>1, <2>2
  <2>4. /\ At(q, "locking")' <=> At(q, "locking")
        /\ At(q, "g_lock")' <=> At(q, "g_lock")
        /\ At(q, "g_locked")' <=> At(q, "g_locked")
        /\ LocalReaders(q)' <=> LocalReaders(q)
    BY <1>4, <2>1 DEF At, LocalReaders
  <2> QED BY <1>4, <2>1, <2>2, <2>3, <2>4 DEF LockOK
<1>9. Compatible'
  BY <1>1, <1>2 DEF LocksOK, Compatible, OnlyLock
<1> QED BY <1>7, <1>8, <1>9 DEF LocksOK

\* The manager of p alone changes, and the thread is done.
LEMMA UnlockOneLocks ==
  ASSUME Typed, LocksOK, NEW p \in Processes, NEW b \in Manager, AllocOK(b),
         b.stateBlocking = bm[p].stateBlocking,
         unlockStateWrite(p, [bm EXCEPT ![p] = b]), At(p, "g_locked"), UNCHANGED <<queue, dirty>>,
         th' = [th EXCEPT ![p] = NewThread],
         b.backup_state # "unknown" => b.backup_state = hdr'.mode /\ b.current_scn = hdr'.scn
  PROVE  LocksOK'
<1>1. PICK B : B = [bm EXCEPT ![p] = b]
  OBVIOUS
<1>2. Changed(B) /\ B[p] = b /\ \A q \in Processes \ {p} : B[q] = bm[q]
  <2>1. ManagersOK
    BY DEF Typed
  <2>2. B \in Managers /\ B[p] = b /\ \A q \in Processes \ {p} : B[q] = bm[q]
    BY <1>1, <2>1 DEF ManagersOK, Managers
  <2> QED BY <2>1, <2>2, ChangedBy
<1>3. th'[p] = NewThread /\ \A q \in Processes \ {p} : th'[q] = th[q]
  BY ThreadDone DEF Typed
<1>4. th'[p].pc = "idle" /\ Stage(th'[p]) = "idle"
  BY <1>3, NewThreadIs
<1>5. unlockStateWrite(p, B)
  BY <1>1
<1>6. /\ B[p].backup_state # "unknown" =>
            B[p].backup_state = hdr'.mode /\ B[p].current_scn = hdr'.scn
      /\ \A q \in Processes \ {p} : /\ B[q].backup_state = bm[q].backup_state
                                   /\ bm[q].master => B[q].master
  BY <1>2
<1> QED BY <1>2, <1>3, <1>4, <1>5, <1>6, UnlockLocks

\* The writer finds that there is nothing to do.
LEMMA RefusedLocks ==
  ASSUME Typed, LocksOK, NEW p \in Processes, At(p, "g_locked"),
         unlockStateWrite(p, Finish(bm, p)), th' = [th EXCEPT ![p] = NewThread],
         UNCHANGED <<hdr, queue, dirty>>
  PROVE  LocksOK'
<1>1. PICK b \in Manager :
           /\ AllocOK(b) /\ b.stateBlocking = bm[p].stateBlocking
           /\ b.backup_state = bm[p].backup_state /\ b.current_scn = bm[p].current_scn
           /\ Finish(bm, p) = [bm EXCEPT ![p] = b]
  BY FinishIs DEF Typed
<1>2. b.backup_state # "unknown" => b.backup_state = hdr'.mode /\ b.current_scn = hdr'.scn
  BY <1>1 DEF LocksOK, LockOK
<1>3. unlockStateWrite(p, [bm EXCEPT ![p] = b])
  BY <1>1
<1> QED BY <1>1, <1>2, <1>3, UnlockOneLocks

\* The header is what has been written to it.
LEMMA HeaderIs ==
  ASSUME NEW p, NEW m, NEW n, WriteHeader(p, m, n)
  PROVE  hdr'.mode = m /\ hdr'.scn = n
BY DEF WriteHeader

LEMMA BeginRefusedLocks ==
  ASSUME Typed, LocksOK, NEW p \in Processes, BeginRefused(p)
  PROVE  LocksOK'
BY RefusedLocks DEF BeginRefused, disk

LEMMA beginBackupLocks ==
  ASSUME Typed, LocksOK, NEW p \in Processes, beginBackup(p)
  PROVE  LocksOK'
<1>1. PICK n \in Nat : n = hdr.scn + 1
  BY DEF Typed, FilesOK
<1>2. PICK B : B = [Finish(bm, p) EXCEPT ![p].backup_state = "stalled", ![p].current_scn = n]
  OBVIOUS
<1>3. /\ At(p, "g_locked") /\ WriteHeader(p, "stalled", n)
      /\ unlockStateWrite(p, B) /\ th' = [th EXCEPT ![p] = NewThread]
      /\ UNCHANGED <<queue, dirty>>
  BY <1>1, <1>2 DEF beginBackup
<1>4. PICK b \in Manager : /\ Begun(p, n) = [bm EXCEPT ![p] = b] /\ Finished(bm[p], b)
                           /\ b.backup_state = "stalled" /\ b.current_scn = n
  BY BegunIs DEF Typed
<1>5. unlockStateWrite(p, [bm EXCEPT ![p] = b])
  BY <1>2, <1>3, <1>4 DEF Begun
<1>6. hdr'.mode = "stalled" /\ hdr'.scn = n
  BY <1>3, HeaderIs
<1>7. AllocOK(b) /\ b.stateBlocking = bm[p].stateBlocking
  BY <1>4 DEF Finished
<1> QED BY <1>3, <1>4, <1>5, <1>6, <1>7, UnlockOneLocks

LEMMA BeginFailsLocks ==
  ASSUME Typed, LocksOK, NEW p \in Processes, BeginFails(p)
  PROVE  LocksOK'
<1>1. PICK B : B = [Finish(bm, p) EXCEPT ![p].backup_state = "unknown"]
  OBVIOUS
<1>2. /\ At(p, "g_locked") /\ unlockStateWrite(p, B) /\ th' = [th EXCEPT ![p] = NewThread]
      /\ UNCHANGED <<queue, dirty>>
  BY <1>1 DEF BeginFails
<1>3. PICK b \in Manager : /\ B = [bm EXCEPT ![p] = b] /\ Finished(bm[p], b)
                           /\ b.backup_state = "unknown"
  BY <1>1, FailedIs DEF Typed
<1>4. unlockStateWrite(p, [bm EXCEPT ![p] = b])
  BY <1>2, <1>3
<1>5. AllocOK(b) /\ b.stateBlocking = bm[p].stateBlocking
  BY <1>3 DEF Finished
<1> QED BY <1>2, <1>3, <1>4, <1>5, UnlockOneLocks

LEMMA SetNormalLocks ==
  ASSUME Typed, LocksOK, NEW p \in Processes, SetNormal(p)
  PROVE  LocksOK'
<1>1. PICK n \in Nat : n = bm[p].current_scn + 1
  BY TypedParts DEF Manager
<1>2. PICK B : B = [Finish(bm, p) EXCEPT ![p] =
                      [DropAlloc(@) EXCEPT !.backup_state = "normal", !.current_scn = n]]
  OBVIOUS
<1>3. /\ At(p, "g_locked") /\ WriteHeader(p, "normal", n)
      /\ unlockStateWrite(p, B) /\ th' = [th EXCEPT ![p] = NewThread]
      /\ UNCHANGED <<queue, dirty>>
  BY <1>1, <1>2 DEF SetNormal
<1>4. PICK b \in Manager : /\ Ended(p, n) = [bm EXCEPT ![p] = b] /\ Finished(bm[p], b)
                           /\ b.backup_state = "normal" /\ b.current_scn = n
  BY EndedIs DEF Typed
<1>5. unlockStateWrite(p, [bm EXCEPT ![p] = b])
  BY <1>2, <1>3, <1>4 DEF Ended
<1>6. hdr'.mode = "normal" /\ hdr'.scn = n
  BY <1>3, HeaderIs
<1>7. AllocOK(b) /\ b.stateBlocking = bm[p].stateBlocking
  BY <1>4 DEF Finished
<1> QED BY <1>3, <1>4, <1>5, <1>6, <1>7, UnlockOneLocks

LEMMA EndLockedLocks ==
  ASSUME Typed, LocksOK, NEW p \in Processes, EndLocked(p)
  PROVE  LocksOK'
<1>1. At(p, "g_locked")
  BY DEF EndLocked
<1>2. CASE EndRefused(p)
  BY <1>1, <1>2, RefusedLocks DEF EndRefused, disk
<1>3. CASE SetMerge(p)
  <2> PICK n \in Nat, b \in Manager, A \in Managers, B \in Managers : MergeSet(p, n, b, A, B)
    BY <1>1, <1>3, SetMergeIs
  <2>1. /\ b.backup_state = "merge" /\ b.current_scn = n
        /\ b.master = bm[p].master
        /\ Changed(B) /\ Quiet(A, B)
        /\ WriteHeader(p, "merge", n)
        /\ unlockStateWrite(p, B)
        /\ th' = [th EXCEPT ![p].pc = "e_guard", ![p].page = None, ![p].buf = None]
        /\ UNCHANGED <<queue, dirty>>
    BY DEF MergeSet
  <2>2. A = [bm EXCEPT ![p] = b]
    BY DEF MergeSet
  <2>3. A[p] = b /\ \A q \in Processes \ {p} : A[q] = bm[q]
    BY <2>2 DEF Typed, ManagersOK, Managers
  <2>4. \A q \in Processes : SameState(A[q], B[q])
    BY <2>1 DEF Quiet
  <2>5. /\ B[p].backup_state = "merge" /\ B[p].current_scn = n /\ B[p].master = bm[p].master
        /\ \A q \in Processes \ {p} : B[q].backup_state = bm[q].backup_state
                                      /\ B[q].master = bm[q].master
    BY <2>1, <2>3, <2>4 DEF SameState
  <2>6. hdr'.mode = "merge" /\ hdr'.scn = n
    BY <2>1, HeaderIs
  <2>7. /\ th'[p].pc = "e_guard" /\ Stage(th'[p]) = "e_guard"
        /\ \A q \in Processes \ {p} : th'[q] = th[q]
    BY <2>1, GuardedIs DEF Typed
  <2>8. bm[p].master
    BY <1>1 DEF LocksOK, LockOK, At, Stage, Making, Writing
  <2>9. /\ B[p].master
        /\ B[p].backup_state # "unknown" =>
              B[p].backup_state = hdr'.mode /\ B[p].current_scn = hdr'.scn
        /\ \A q \in Processes \ {p} : B[q].backup_state = bm[q].backup_state
                                      /\ (bm[q].master => B[q].master)
    BY <2>5, <2>6, <2>8
  <2>10. Changed(B) /\ unlockStateWrite(p, B) /\ UNCHANGED <<queue, dirty>>
    BY <2>1
  <2> QED BY <1>1, <2>7, <2>9, <2>10, UnlockLocks
<1> QED BY <1>2, <1>3 DEF EndLocked

\* A process is gone.
LEMMA GoneLocks ==
  ASSUME Typed, LocksOK, NEW p \in Processes, Gone(p), hdr' = hdr
  PROVE  LocksOK'
<1>1. /\ OnlyLock(p) /\ rw'[p] = NewRWLock /\ queue' = Without(p)
      /\ OnlyManager(p) /\ bm'[p] = NewManager
      /\ th'[p] = OutThread /\ \A q \in Processes \ {p} : th'[q] = th[q]
      /\ \A pg \in Pages : dirty'[p][pg] = None
      /\ \A q \in Processes \ {p} : dirty'[q] = dirty[q]
  BY GoneIs
<1>2. Unconcerned(p) /\ DirtyPages(p)' = {}
  BY <1>1 DEF Unconcerned, DirtyPages, OnlyManager
<1>3. /\ NoDuplicates(queue') /\ p \notin ToSet(queue')
      /\ \A q \in Processes \ {p} : q \in ToSet(queue') <=> q \in ToSet(queue)
  BY <1>1, WithoutQueue DEF Typed, WaitsOK, LocksOK
<1>4. /\ rw'[p].want = "none" /\ rw'[p].lck_physical = "none" /\ ~ rw'[p].currentWriter
      /\ ~ rw'[p].blocking /\ bm'[p].backup_state = "unknown"
  BY <1>1, NewIs
<1>5. th'[p].pc = "out" /\ Stage(th'[p]) = "out"
  BY <1>1, OutThreadIs
<1>6. /\ ~ At(p, "g_locked")' /\ ~ At(p, "locking")' /\ ~ At(p, "g_lock")'
      /\ ~ LocalReaders(p)' /\ "out" \notin Writing /\ "out" \notin Making
  BY <1>2, <1>5 DEF At, LocalReaders, LocalRead, Writing, Making
<1>7. LockOK(p)'
  BY <1>2, <1>3, <1>4, <1>5, <1>6 DEF LockOK
<1> QED BY <1>1, <1>2, <1>3, <1>4, <1>7, LocksByOne

LEMMA DieLocks ==
  ASSUME Typed, LocksOK, NEW p \in Processes, Die(p) \/ DieWriting(p)
  PROVE  LocksOK'
<1>1. Gone(p) /\ hdr' = hdr
  BY DEF Die, DieWriting, disk
<1> QED BY <1>1, GoneLocks

\* It is so at the beginning.
LEMMA InitLocks ==
  ASSUME Init
  PROVE  LocksOK
<1>1. NoDuplicates(queue) /\ ToSet(queue) = {}
  BY DEF Init, NoDuplicates, ToSet
<1>2. ASSUME NEW p \in Processes PROVE LockOK(p)
  <2>1. rw[p] = NewRWLock /\ bm[p] = NewManager /\ th[p] = NewThread /\ dirty[p] = Clean
    BY DEF Init
  <2>2. DirtyPages(p) = {}
    BY <2>1, CleanIs DEF DirtyPages
  <2>3. th[p].pc = "idle" /\ Stage(th[p]) = "idle"
    BY <2>1, NewThreadIs
  <2>4. /\ ~ At(p, "g_locked") /\ ~ At(p, "locking") /\ ~ At(p, "g_lock")
        /\ ~ LocalReaders(p) /\ "idle" \notin Writing /\ "idle" \notin Making
    BY <2>2, <2>3 DEF At, LocalReaders, LocalRead, Writing, Making
  <2>5. /\ rw[p].want = "none" /\ rw[p].lck_physical = "none" /\ ~ rw[p].currentWriter
        /\ ~ rw[p].blocking /\ bm[p].backup_state = "unknown"
    BY <2>1, NewIs
  <2> QED BY <1>1, <2>2, <2>3, <2>4, <2>5 DEF LockOK
<1>3. Compatible
  BY NewIs DEF Init, Compatible
<1> QED BY <1>1, <1>2, <1>3 DEF LocksOK

\* Every step keeps it as long as one process at most makes a backup.
LEMMA NextLocks ==
  ASSUME Typed, LocksOK, OneMaster, [Next]_vars
  PROVE  LocksOK'
<1>1. CASE UNCHANGED vars
  <2>1. UNCHANGED <<hdr, rw, queue, bm, dirty, th>>
    BY <1>1 DEF vars, disk
  <2>2. ASSUME NEW q \in Processes PROVE LockOK(q)'
    BY <2>1, LockKept DEF LocksOK, DirtyPages
  <2> QED BY <2>1, <2>2 DEF LocksOK, Compatible
<1>2. ASSUME NEW p \in Processes, PageStep(p) PROVE LocksOK'
  BY <1>2, CCH_fetchLocks, CCH_fetch_pageLocks, CCH_markLocks, CCH_releaseLocks, ModifyLocks,
     write_pageLocks DEF PageStep
<1>3. ASSUME NEW p \in Processes, StateLockStep(p) PROVE LocksOK'
  BY <1>3, GrantLocks, lockReadLocks, unlockStateReadLocks, blockingAstHandlerLocks,
     tryBeginWriteLocks, lockWriteLocks, WriteGrantedLocks DEF StateLockStep
<1>4. ASSUME NEW p \in Processes, BackupStep(p) PROVE LocksOK'
  BY <1>4, StartBeginLocks, StartEndLocks, GuardFetchLocks, CCH_fetch_pageLocks,
     BeginRefusedLocks, beginBackupLocks, BeginFailsLocks, CheckStateLocks, EndLockedLocks,
     MergeGuardLocks, MergeAllocLocks, MergeFetchLocks, MergeMarkLocks, MergePageLocks,
     MergeSkipLocks, MergeOverLocks, SetNormalLocks DEF BackupStep
<1>5. ASSUME NEW p \in Processes, ProcessStep(p) PROVE LocksOK'
  BY <1>5, DieLocks, AttachLocks, initializeAllocLocks DEF ProcessStep
<1> QED BY <1>1, <1>2, <1>3, <1>4, <1>5 DEF Next

\* As long as one process at most begins or ends a backup, whoever reads or writes
\* pages knows the backup state (NBackupStateLock, GlobalRWLock): nobody changes it
\* under the state lock of another.
THEOREM StateKnownToReaders == Spec /\ []OneMaster => []StateKnown
<1>1. Init => Typed /\ LocksOK
  BY InitTyped, InitLocks
<1>2. Typed /\ LocksOK /\ OneMaster /\ [Next]_vars => Typed' /\ LocksOK'
  BY NextTyped, NextLocks
<1>3. Typed /\ LocksOK => StateKnown
  BY DEF LocksOK, LockOK, StateKnown
<1> QED BY <1>1, <1>2, <1>3, PTL DEF Spec

-----------------------------------------------------------------------------
(* The contents: what the managers remember of the allocation table.       *)

Headers == [mode : Modes, scn : Nat]

\* What TableFor looks at.
SameAlloc(b, c) ==
    /\ c.alloc_table = b.alloc_table /\ c.alloc_physical = b.alloc_physical
    /\ c.allocIsValid = b.allocIsValid /\ c.current_scn = b.current_scn

LEMMA TableKept ==
  ASSUME NEW m, NEW p, NEW b, NEW c, NEW h, NEW T, TableFor(m, p, b, h, T), SameAlloc(b, c)
  PROVE  TableFor(m, p, c, h, T)
BY DEF TableFor, SameAlloc, Fresh, Known

\* The state is read from the header page: a table that is not certain is dropped.
LEMMA ActualizedTable ==
  ASSUME NEW m, NEW p, NEW b \in Manager, AllocOK(b), hdr \in Headers,
         TableFor(m, p, b, hdr, table)
  PROVE  TableFor(m, p, actualizeState(b), hdr, table)
<1>1. PICK c : c = actualizeState(b)
  OBVIOUS
<1>2. /\ c.current_scn = hdr.scn
      /\ \/ /\ c.alloc_table = b.alloc_table /\ c.alloc_physical = b.alloc_physical
            /\ c.allocIsValid = b.allocIsValid
            /\ \/ b.alloc_table = None
               \/ hdr.mode # "normal" /\ hdr.scn <= b.current_scn + 1
         \/ /\ c.alloc_table = None /\ c.alloc_physical = "none"
            /\ (c.allocIsValid <=> b.allocIsValid /\ b.alloc_physical = "none")
            /\ b.alloc_table # None
            /\ hdr.mode = "normal" \/ hdr.scn > b.current_scn + 1
  BY <1>1, ActualizeStateIs DEF Headers
<1>3. hdr.scn \in Nat /\ b.current_scn \in Nat
  BY DEF Headers, Manager
<1>4. CASE /\ c.alloc_table = b.alloc_table /\ c.alloc_physical = b.alloc_physical
           /\ c.allocIsValid = b.allocIsValid
           /\ hdr.mode # "normal" /\ hdr.scn <= b.current_scn + 1
  BY <1>1, <1>2, <1>3, <1>4 DEF TableFor, Fresh, Known
<1>5. CASE /\ c.alloc_table = b.alloc_table /\ c.alloc_physical = b.alloc_physical
           /\ c.allocIsValid = b.allocIsValid
           /\ b.alloc_table = None
  <2>1. b.alloc_physical = "none" /\ Known(c) = {} /\ Known(b) = {}
    BY <1>5 DEF AllocOK, Known
  <2>2. Fresh(c, hdr) /\ c.allocIsValid => Fresh(b, hdr)
    BY <1>2, <1>3, <1>5, <2>1 DEF TableFor, Fresh
  <2> QED BY <1>1, <1>2, <1>3, <1>5, <2>1, <2>2 DEF TableFor
<1>6. CASE /\ c.alloc_table = None /\ c.alloc_physical = "none"
           /\ (c.allocIsValid <=> b.allocIsValid /\ b.alloc_physical = "none")
           /\ b.alloc_table # None
           /\ hdr.mode = "normal" \/ hdr.scn > b.current_scn + 1
  <2>1. Known(c) = {}
    BY <1>6 DEF Known
  <2>2. p # m /\ ~ c.allocIsValid
    BY <1>3, <1>6 DEF TableFor
  <2> QED BY <1>1, <1>2, <1>3, <1>6, <2>1, <2>2 DEF TableFor
<1> QED BY <1>2, <1>4, <1>5, <1>6

\* A page is looked up: the table of p is what the file says.
LEMMA IndexTables ==
  ASSUME NEW m, NEW B \in Managers, \A q \in Processes : AllocOK(B[q]),
         NEW p \in Processes, NEW pg \in Pages, NEW h \in Headers, table \in SUBSET Pages,
         \A q \in Processes : TableFor(m, q, B[q], h, table),
         B[p].backup_state = h.mode, h.mode # "normal", B[p].current_scn = h.scn
  PROVE  /\ \A q \in Processes : TableFor(m, q, getPageIndex(B, p, pg)[q], h, table)
         /\ pg \in Known(getPageIndex(B, p, pg)[p]) <=> pg \in table
<1>1. PICK C : C = getPageIndex(B, p, pg)
  OBVIOUS
<1>2. B[p] \in Manager /\ h.scn \in Nat /\ Fresh(B[p], h)
  BY DEF Managers, Headers, Fresh
<1>3. CASE /\ C = B
           /\ \/ pg \in Known(B[p]) \/ B[p].alloc_physical # "none"
              \/ B[p].backup_state = "merge" /\ B[p].allocIsValid
  <2>1. pg \in Known(B[p]) <=> pg \in table
    BY <1>2, <1>3 DEF TableFor
  <2> QED BY <1>1, <1>3, <2>1
<1>4. CASE LookedUp(B, C, p)
  <2>1. /\ C[p].current_scn = h.scn /\ C[p].allocIsValid /\ C[p].alloc_physical = "read"
        /\ C[p].alloc_table = Known(B[p]) \union table
    BY <1>4 DEF LookedUp, SameState
  <2>2. Known(B[p]) \union table = table
    BY <1>2 DEF TableFor
  <2>3. C[p].alloc_table # None /\ Known(C[p]) = table
    BY <2>1, <2>2, BackupAssumption DEF Known
  <2>4. TableFor(m, p, C[p], h, table)
    BY <1>2, <2>1, <2>3 DEF TableFor
  <2>5. ASSUME NEW q \in Processes \ {p}
        PROVE  TableFor(m, q, C[q], h, table)
    <3>1. PICK c : c = C[q]
      OBVIOUS
    <3>2. PICK b : b = B[q]
      OBVIOUS
    <3>3. /\ c.current_scn = b.current_scn /\ c.alloc_table = b.alloc_table
          /\ c.alloc_physical # "none" => b.alloc_physical # "none"
          /\ c.allocIsValid => b.allocIsValid
          /\ b.alloc_physical # "none" => c.alloc_physical # "none"
      <4>1. C[q] = StepDown(B, p, "read")[q]
        BY <1>4 DEF LookedUp
      <4>2. SteppedDown(B[q], StepDown(B, p, "read")[q], "read")
        BY StepDownIs
      <4> QED BY <3>1, <3>2, <4>1, <4>2 DEF SameState, SteppedDown
    <3>4. Known(c) = Known(b) /\ (Fresh(c, h) <=> Fresh(b, h))
      BY <3>3 DEF Known, Fresh
    <3>5. TableFor(m, q, b, h, table)
      BY <3>2
    <3> QED BY <3>1, <3>3, <3>4, <3>5 DEF TableFor
  <2> QED BY <1>1, <2>3, <2>4, <2>5
<1> QED BY <1>1, <1>3, <1>4, GetPageIndexIs

\* A page is allocated in the difference file.
LEMMA AllocateTables ==
  ASSUME NEW m, NEW B \in Managers, \A q \in Processes : AllocOK(B[q]),
         NEW p \in Processes, NEW pg \in Pages, NEW h \in Headers, table \in SUBSET Pages,
         \A q \in Processes : TableFor(m, q, B[q], h, table),
         h.mode = "stalled", B[p].current_scn = h.scn,
         pg \in Known(B[p]) <=> pg \in table
  PROVE  /\ \A q \in Processes :
              TableFor(m, q, allocateDifferencePage(B, p, pg)[q], h, table \union {pg})
         /\ pg \in Known(allocateDifferencePage(B, p, pg)[p])
<1>1. PICK C : C = allocateDifferencePage(B, p, pg)
  OBVIOUS
<1>2. B[p] \in Manager /\ h.scn \in Nat /\ Fresh(B[p], h)
  BY DEF Managers, Headers, Fresh
<1>3. CASE C = B /\ pg \in Known(B[p])
  <2>1. table \union {pg} = table
    BY <1>3
  <2> QED BY <1>1, <1>3, <2>1
<1>4. CASE AllocatedPage(B, C, p, pg) /\ pg \notin Known(B[p])
  <2>1. PICK T : T = table \union {pg}
    OBVIOUS
  <2>2. /\ C[p].current_scn = h.scn /\ C[p].alloc_physical = "write"
        /\ \/ B[p].alloc_physical = "write" /\ C[p].alloc_table = B[p].alloc_table \union {pg}
           \/ C[p].alloc_table = Known(B[p]) \union table \union {pg}
    BY <1>4 DEF AllocatedPage, SameState
  <2>3. C[p].alloc_table = T
    <3>1. CASE B[p].alloc_physical = "write" /\ C[p].alloc_table = B[p].alloc_table \union {pg}
      <4>1. Known(B[p]) = table /\ B[p].alloc_table # None
        BY <1>2, <3>1 DEF TableFor, AllocOK
      <4> QED BY <2>1, <3>1, <4>1 DEF Known
    <3>2. CASE C[p].alloc_table = Known(B[p]) \union table \union {pg}
      <4>1. Known(B[p]) \subseteq table
        BY <1>2 DEF TableFor
      <4> QED BY <2>1, <3>2, <4>1
    <3> QED BY <2>2, <3>1, <3>2
  <2>4. T \in SUBSET Pages
    BY <2>1
  <2>5. C[p].alloc_table # None /\ Known(C[p]) = T
    BY <2>3, <2>4, BackupAssumption DEF Known
  <2>6. TableFor(m, p, C[p], h, T)
    BY <1>2, <2>2, <2>5 DEF TableFor
  <2>7. ASSUME NEW q \in Processes \ {p}
        PROVE  TableFor(m, q, C[q], h, T)
    <3>1. PICK c : c = C[q]
      OBVIOUS
    <3>2. PICK b : b = B[q]
      OBVIOUS
    <3>3. /\ c.current_scn = b.current_scn /\ c.alloc_table = b.alloc_table
          /\ c.alloc_physical = "none"
          /\ c.allocIsValid => b.allocIsValid /\ b.alloc_physical = "none"
      <4>1. C[q] = StepDown(B, p, "write")[q]
        BY <1>4 DEF AllocatedPage
      <4>2. SteppedDown(B[q], StepDown(B, p, "write")[q], "write")
        BY StepDownIs
      <4> QED BY <3>1, <3>2, <4>1, <4>2 DEF SameState, SteppedDown
    <3>4. Known(c) = Known(b) /\ (Fresh(c, h) <=> Fresh(b, h)) /\ table \subseteq T
      BY <2>1, <3>3 DEF Known, Fresh
    <3>5. TableFor(m, q, b, h, table)
      BY <3>2
    <3>6. q # m => ~ c.allocIsValid
      BY <3>3, <3>5 DEF TableFor
    <3>7. Fresh(c, h) /\ c.allocIsValid => c.alloc_table = None
      BY <3>3, <3>4, <3>5 DEF TableFor
    <3>8. q = m => c.current_scn = h.scn \/ (c.alloc_table = None /\ ~ c.allocIsValid)
      BY <3>3, <3>5 DEF TableFor
    <3> QED BY <3>1, <3>3, <3>4, <3>5, <3>6, <3>7, <3>8 DEF TableFor
  <2> QED BY <1>1, <2>1, <2>5, <2>6, <2>7
<1> QED BY <1>1, <1>3, <1>4, AllocateIs

-----------------------------------------------------------------------------
(* The contents: what a step that leaves a part alone keeps of it.         *)

\* Files and dirty pages are as they were, and so is what is known of the table.
SameContents ==
    /\ UNCHANGED <<hdr, main, delta, table, dirty, version, latest>>
    /\ \A q \in Processes : SameAlloc(bm[q], bm'[q])

LEMMA SameTables ==
  ASSUME NEW m, TablesOK(m), UNCHANGED <<hdr, table>>,
         \A q \in Processes : SameAlloc(bm[q], bm'[q])
  PROVE  TablesOK(m)'
BY TableKept DEF TablesOK

LEMMA SameDirtyPages ==
  ASSUME AllDirtyOK, UNCHANGED <<hdr, table, dirty, version, latest>>
  PROVE  AllDirtyOK'
BY DEF AllDirtyOK, DirtyOK

LEMMA SameCurrent ==
  ASSUME FilesCurrent, UNCHANGED <<hdr, main, delta, table, version, latest>>
  PROVE  FilesCurrent'
BY DEF FilesCurrent, DiskCurrent

\* The threads of the others keep their pages, and that of p has none or one that
\* nobody has.
LEMMA FetchedByOne ==
  ASSUME AllFetchedOK, NEW p \in Processes, UNCHANGED <<dirty, latest>>,
         \A q \in Processes \ {p} : th'[q] = th[q],
         th'[p].page \in {None, th[p].page} \/ Available(p, th'[p].page),
         th'[p].page # None /\ Stage(th'[p]) \in Loaded => th'[p].buf.v = latest[th'[p].page]
  PROVE  AllFetchedOK'
<1>1. ASSUME th'[p].page # None PROVE FetchedOK(p)'
  <2>1. CASE Available(p, th'[p].page)
    BY <1>1, <2>1 DEF Available, FetchedOK
  <2>2. CASE th'[p].page = th[p].page
    BY <1>1, <2>2 DEF AllFetchedOK, FetchedOK
  <2> QED BY <1>1, <2>1, <2>2
<1>2. ASSUME NEW q \in Processes \ {p}, th'[q].page # None PROVE FetchedOK(q)'
  <2>1. th'[q] = th[q] /\ th[q].page # None /\ FetchedOK(q)
    BY <1>2 DEF AllFetchedOK
  <2>2. th'[p].page # th[q].page
    BY <2>1 DEF FetchedOK, Available
  <2>3. \A x \in Processes : dirty'[x][th[q].page] = None /\ (x # q => th'[x].page # th[q].page)
    BY <2>1, <2>2 DEF FetchedOK
  <2> QED BY <2>1, <2>3 DEF FetchedOK
<1> QED BY <1>1, <1>2 DEF AllFetchedOK

\* The maker is as it was, or what it has merged is.
LEMMA SameMerge ==
  ASSUME NEW m \in Processes, MergeOK(m), UNCHANGED <<hdr, main, delta, dirty, latest>>,
         th'[m] = th[m]
  PROVE  MergeOK(m)'
BY DEF MergeOK, Merging, MergedBy, InMain

\* Only the maker is found where backups are made.
LEMMA MakerIs ==
  ASSUME NEW m \in Processes, MakersOK(m), NEW p \in Processes, Stage(th[p]) \in Makers
  PROVE  p = m
BY DEF MakersOK, Makers

LEMMA MakersByOne ==
  ASSUME NEW m \in Processes, MakersOK(m), NEW p \in Processes,
         \A q \in Processes \ {p} : th'[q] = th[q] /\ (bm'[q].master => bm[q].master),
         p # m => ~ bm'[p].master /\ Stage(th'[p]) \notin Makers,
         p = m /\ Stage(th'[m]) = "e_check" => th'[m].op # "end3"
  PROVE  MakersOK(m)'
BY DEF MakersOK, Makers

\* A step of p that changes no contents, by the page and stage of its thread.
LEMMA ContentsByOne ==
  ASSUME NEW m \in Processes, ContentsOK(m), NEW p \in Processes, SameContents,
         \A q \in Processes \ {p} : th'[q] = th[q] /\ (bm'[q].master => bm[q].master),
         p # m => ~ bm'[p].master /\ Stage(th'[p]) \notin Makers,
         p = m /\ Stage(th'[m]) = "e_check" => th'[m].op # "end3",
         th'[p].page \in {None, th[p].page} \/ Available(p, th'[p].page),
         th'[p].page # None /\ Stage(th'[p]) \in Loaded => th'[p].buf.v = latest[th'[p].page],
         p = m => MergeOK(m)'
  PROVE  ContentsOK(m)'
<1>1. TablesOK(m)' /\ AllDirtyOK' /\ FilesCurrent'
  BY SameTables, SameDirtyPages, SameCurrent DEF ContentsOK, SameContents
<1>2. AllFetchedOK'
  BY FetchedByOne DEF ContentsOK, SameContents
<1>3. MakersOK(m)'
  BY MakersByOne DEF ContentsOK
<1>4. MergeOK(m)'
  <2>1. CASE p = m
    BY <2>1
  <2>2. CASE p # m
    BY <2>2, SameMerge DEF ContentsOK, SameContents
  <2> QED BY <2>1, <2>2
<1> QED BY <1>1, <1>2, <1>3, <1>4 DEF ContentsOK

\* A step that leaves the threads as they are.
LEMMA ContentsSame ==
  ASSUME NEW m \in Processes, ContentsOK(m), SameContents, th' = th,
         \A q \in Processes : bm'[q].master => bm[q].master
  PROVE  ContentsOK(m)'
<1>1. TablesOK(m)' /\ AllDirtyOK' /\ FilesCurrent' /\ MergeOK(m)'
  BY SameTables, SameDirtyPages, SameCurrent, SameMerge DEF ContentsOK, SameContents
<1>2. AllFetchedOK'
  BY DEF ContentsOK, SameContents, AllFetchedOK, FetchedOK
<1>3. MakersOK(m)'
  BY DEF ContentsOK, MakersOK
<1> QED BY <1>1, <1>2, <1>3 DEF ContentsOK

\* What the merge has come to depends on little of the thread.
LEMMA MergeGoesOn ==
  ASSUME NEW m \in Processes, MergeOK(m), UNCHANGED <<hdr, main, delta, dirty, latest>>,
         Merging(th'[m]) => Merging(th[m]) /\ th'[m].op = th[m].op,
         Stage(th'[m]) \in {"e_merge", "e_page", "e_mark"} =>
            \A pg \in Pages \ th'[m].todo : InMain(pg) \/ dirty[m][pg] # None,
         Stage(th'[m]) = "e_page" /\ th'[m].buf.scn = hdr.scn => InMain(th'[m].page)
  PROVE  MergeOK(m)'
<1> SUFFICES ASSUME Merging(th'[m]) PROVE MergedBy(m, th[m])'
  BY DEF MergeOK
<1>1. MergedBy(m, th[m]) /\ th'[m].op = th[m].op
  BY DEF MergeOK
<1>2. \A pg : InMain(pg)' <=> InMain(pg)
  BY DEF InMain
<1> QED BY <1>1, <1>2 DEF MergedBy

-----------------------------------------------------------------------------
(* The contents: steps of the state lock and of threads that change none.  *)
(* Here and below, XContents: action X keeps ContentsOK.                   *)

\* Only manager p has changed, and not what it remembers of the table.
LEMMA SameAllocs ==
  ASSUME NEW p \in Processes, OnlyManager(p), SameAlloc(bm[p], bm'[p])
  PROVE  \A q \in Processes : SameAlloc(bm[q], bm'[q])
BY DEF OnlyManager, SameAlloc

LEMMA GrantContents ==
  ASSUME NEW m \in Processes, ContentsOK(m), NEW p \in Processes, Grant(p)
  PROVE  ContentsOK(m)'
<1>1. UNCHANGED <<hdr, main, delta, table, bm, dirty, th, version, latest>>
  BY DEF Grant, disk
<1>2. SameContents
  BY <1>1 DEF SameContents, SameAlloc
<1> QED BY <1>1, <1>2, ContentsSame

LEMMA unlockStateReadContents ==
  ASSUME Typed, NEW m \in Processes, ContentsOK(m), NEW p \in Processes, unlockStateRead(p)
  PROVE  ContentsOK(m)'
<1>1. UNCHANGED <<hdr, main, delta, table, dirty, th, version, latest>>
  BY DEF unlockStateRead, disk
<1>2. OnlyManager(p) /\ SameTable(bm[p], bm'[p])
  BY UnlockStateReadIs
<1>3. SameContents /\ \A q \in Processes : bm'[q].master => bm[q].master
  BY <1>1, <1>2, SameAllocs DEF SameContents, SameAlloc, SameTable, OnlyManager
<1> QED BY <1>1, <1>3, ContentsSame

LEMMA blockingAstHandlerContents ==
  ASSUME Typed, NEW m \in Processes, ContentsOK(m), NEW p \in Processes, blockingAstHandler(p)
  PROVE  ContentsOK(m)'
<1>1. UNCHANGED <<hdr, main, delta, table, dirty, th, version, latest>>
  BY DEF blockingAstHandler, disk
<1>2. OnlyManager(p) /\ SameTable(bm[p], bm'[p])
  <2>1. CASE bm[p].master
    BY <2>1, BlockingAstIs DEF blockingAstHandler
  <2>2. CASE ~ bm[p].master
    BY <2>2, HandlerIs
  <2> QED BY <2>1, <2>2
<1>3. SameContents /\ \A q \in Processes : bm'[q].master => bm[q].master
  BY <1>1, <1>2, SameAllocs DEF SameContents, SameAlloc, SameTable, OnlyManager
<1> QED BY <1>1, <1>3, ContentsSame

LEMMA tryBeginWriteContents ==
  ASSUME Typed, NEW m \in Processes, ContentsOK(m), NEW p \in Processes, tryBeginWrite(p)
  PROVE  ContentsOK(m)'
<1>1. UNCHANGED <<hdr, main, delta, table, dirty, th, version, latest>>
  BY DEF tryBeginWrite, disk
<1>2. OnlyManager(p) /\ SameTable(bm[p], bm'[p])
  <2>1. CASE LocalReaders(p) \/ LocalWriter(p)
    BY <2>1, TryFailsIs
  <2>2. CASE ~ (LocalReaders(p) \/ LocalWriter(p))
    BY <2>2, BlockingAstIs DEF tryBeginWrite
  <2> QED BY <2>1, <2>2
<1>3. SameContents /\ \A q \in Processes : bm'[q].master => bm[q].master
  BY <1>1, <1>2, SameAllocs DEF SameContents, SameAlloc, SameTable, OnlyManager
<1> QED BY <1>1, <1>3, ContentsSame

\* The state is found in the header page.
LEMMA ActualizedTables ==
  ASSUME Typed, NEW m, TablesOK(m), NEW p \in Processes, OnlyManager(p),
         SameTable(actualizeState(bm[p]), bm'[p]), UNCHANGED <<hdr, table>>
  PROVE  /\ TablesOK(m)' /\ bm'[p].master = bm[p].master
<1>1. bm[p] \in Manager /\ AllocOK(bm[p]) /\ hdr \in Headers
  BY TypedParts DEF Typed, FilesOK, Headers
<1>2. PICK c : c = actualizeState(bm[p])
  OBVIOUS
<1>3. TableFor(m, p, c, hdr, table) /\ c.master = bm[p].master
  BY <1>1, <1>2, ActualizedTable, ActualizeStateIs DEF TablesOK, Headers
<1>4. SameAlloc(c, bm'[p]) /\ bm'[p].master = c.master
  BY <1>2 DEF SameTable, SameAlloc
<1>5. TableFor(m, p, bm'[p], hdr, table)
  BY <1>3, <1>4, TableKept
<1>6. ASSUME NEW q \in Processes \ {p} PROVE TableFor(m, q, bm'[q], hdr, table)
  BY <1>6 DEF TablesOK, OnlyManager
<1> QED BY <1>3, <1>4, <1>5, <1>6 DEF TablesOK

\* A lock asked for has been granted, and the thread goes on.
LEMMA ContentsActualized ==
  ASSUME Typed, NEW m \in Processes, ContentsOK(m), NEW p \in Processes, OnlyManager(p),
         SameTable(actualizeState(bm[p]), bm'[p]),
         UNCHANGED <<hdr, main, delta, table, dirty, version, latest>>,
         \A q \in Processes \ {p} : th'[q] = th[q],
         Stage(th'[p]) \in Makers => Stage(th[p]) \in Makers,
         Stage(th'[p]) = "e_check" => Stage(th[p]) = "e_check",
         Merging(th'[p]) => Merging(th[p]),
         Stage(th'[p]) \in {"e_merge", "e_page", "e_mark"} => Stage(th'[p]) = Stage(th[p]),
         Stage(th'[p]) \in Loaded => Stage(th[p]) \in Loaded,
         th'[p].op = th[p].op, th'[p].page = th[p].page, th'[p].buf = th[p].buf,
         th'[p].todo = th[p].todo
  PROVE  ContentsOK(m)'
<1>1. TablesOK(m)' /\ bm'[p].master = bm[p].master
  BY ActualizedTables DEF ContentsOK
<1>2. AllDirtyOK' /\ FilesCurrent'
  BY SameDirtyPages, SameCurrent DEF ContentsOK
<1>3. AllFetchedOK'
  <2>1. th'[p].page # None /\ Stage(th'[p]) \in Loaded => th'[p].buf.v = latest[th'[p].page]
    BY DEF ContentsOK, AllFetchedOK, FetchedOK
  <2> QED BY <2>1, FetchedByOne DEF ContentsOK
<1>4. MakersOK(m)'
  <2>1. p # m => ~ bm'[p].master /\ Stage(th'[p]) \notin Makers
    BY <1>1, MakerIs DEF ContentsOK, MakersOK
  <2>2. p = m /\ Stage(th'[m]) = "e_check" => th'[m].op # "end3"
    BY DEF ContentsOK, MakersOK
  <2> QED BY <2>1, <2>2, MakersByOne DEF ContentsOK, OnlyManager
<1>5. MergeOK(m)'
  <2>1. CASE p = m
    <3>1. ASSUME Merging(th[m])
          PROVE  /\ Stage(th'[m]) \in {"e_merge", "e_page", "e_mark"} =>
                      \A pg \in Pages \ th'[m].todo : InMain(pg) \/ dirty[m][pg] # None
                 /\ Stage(th'[m]) = "e_page" /\ th'[m].buf.scn = hdr.scn => InMain(th'[m].page)
      BY <2>1, <3>1 DEF ContentsOK, MergeOK, MergedBy
    <3>2. Stage(th'[m]) \in {"e_merge", "e_page", "e_mark"} => Merging(th'[m])
      BY DEF Merging
    <3> QED BY <2>1, <3>1, <3>2, MergeGoesOn DEF ContentsOK
  <2>2. CASE p # m
    BY <2>2, SameMerge DEF ContentsOK
  <2> QED BY <2>1, <2>2
<1> QED BY <1>1, <1>2, <1>3, <1>4, <1>5 DEF ContentsOK

LEMMA lockReadContents ==
  ASSUME Typed, NEW m \in Processes, ContentsOK(m), NEW p \in Processes, lockRead(p)
  PROVE  ContentsOK(m)'
<1>1. /\ OnlyManager(p) /\ SameTable(actualizeState(bm[p]), bm'[p])
      /\ Stage(th'[p]) = Stage(th[p])
      /\ th'[p].op = th[p].op /\ th'[p].page = th[p].page /\ th'[p].buf = th[p].buf
      /\ th'[p].todo = th[p].todo
      /\ \A q \in Processes \ {p} : th'[q] = th[q]
  BY LockReadIs, LockReadThread DEF Typed
<1>2. UNCHANGED <<hdr, main, delta, table, dirty, version, latest>>
  BY DEF lockRead, disk
<1>3. Merging(th'[p]) => Merging(th[p])
  BY <1>1 DEF Merging
<1> QED BY <1>1, <1>2, <1>3, ContentsActualized

\* The thread goes on to place s.
LEMMA WentOnIs ==
  ASSUME ThreadsOK, NEW p \in Processes, NEW s \in PCs, s # "locking",
         th' = [th EXCEPT ![p].pc = s]
  PROVE  /\ Stage(th'[p]) = s /\ th'[p].op = th[p].op /\ th'[p].page = th[p].page
         /\ th'[p].buf = th[p].buf /\ th'[p].todo = th[p].todo
         /\ \A q \in Processes \ {p} : th'[q] = th[q]
<1>1. th[p] \in Thread
  BY DEF ThreadsOK
<1>2. PICK t : t = [th[p] EXCEPT !.pc = s]
  OBVIOUS
<1>3. t.pc = s /\ t.op = th[p].op /\ t.page = th[p].page /\ t.buf = th[p].buf /\ t.todo = th[p].todo
  BY <1>1, <1>2 DEF Thread
<1>4. th'[p] = t /\ \A q \in Processes \ {p} : th'[q] = th[q]
  BY <1>2 DEF ThreadsOK
<1>5. Stage(t) = s
  BY <1>3 DEF Stage
<1> QED BY <1>3, <1>4, <1>5

\* Where the thread is, it is at once.
LEMMA StageIs ==
  ASSUME NEW p \in Processes, NEW s, s # "locking", At(p, s)
  PROVE  Stage(th[p]) = s
BY DEF At, Stage

LEMMA WriteGrantedContents ==
  ASSUME Typed, NEW m \in Processes, ContentsOK(m), NEW p \in Processes, WriteGranted(p)
  PROVE  ContentsOK(m)'
<1>1. OnlyManager(p) /\ bm'[p] = actualizeState(bm[p])
  BY WriteGrantedIs
<1>2. SameTable(actualizeState(bm[p]), bm'[p])
  BY <1>1 DEF SameTable
<1>3. /\ UNCHANGED <<hdr, main, delta, table, dirty, version, latest>>
      /\ th' = [th EXCEPT ![p].pc = "g_locked"] /\ At(p, "g_lock")
  BY DEF WriteGranted, disk
<1>4. /\ Stage(th'[p]) = "g_locked" /\ th'[p].op = th[p].op /\ th'[p].page = th[p].page
      /\ th'[p].buf = th[p].buf /\ th'[p].todo = th[p].todo
      /\ \A q \in Processes \ {p} : th'[q] = th[q]
  BY <1>3, WentOnIs DEF Typed, PCs, LocalWrite
<1>5. Stage(th[p]) = "g_lock"
  BY <1>3, StageIs
<1>6. Stage(th[p]) \in Makers /\ Stage(th[p]) \in Loaded /\ (Merging(th'[p]) => Merging(th[p]))
  BY <1>4, <1>5 DEF Makers, Making, Writing, Loaded, Latched, Merging
<1> QED BY <1>1, <1>2, <1>3, <1>4, <1>5, <1>6, ContentsActualized

LEMMA lockWriteContents ==
  ASSUME Typed, NEW m \in Processes, ContentsOK(m), NEW p \in Processes, lockWrite(p)
  PROVE  ContentsOK(m)'
<1>1. UNCHANGED <<hdr, main, delta, table, dirty, version, latest>> /\ At(p, "g_held")
  BY DEF lockWrite, disk
<1>2. OnlyManager(p) /\ SameTable(bm[p], bm'[p])
  BY LockWriteIs
<1>3. SameContents /\ \A q \in Processes : bm'[q].master => bm[q].master
  BY <1>1, <1>2, SameAllocs DEF SameContents, SameAlloc, SameTable, OnlyManager
<1>4. Stage(th[p]) = "g_held" /\ p = m
  BY <1>1, StageIs, MakerIs DEF ContentsOK, Makers, Making, Writing
<1>5. PICK s \in {"g_locked", "g_lock"} : th' = [th EXCEPT ![p].pc = s]
  BY LockWriteIs
<1>6. /\ Stage(th'[p]) = s /\ th'[p].op = th[p].op /\ th'[p].page = th[p].page
      /\ th'[p].buf = th[p].buf /\ th'[p].todo = th[p].todo
      /\ \A q \in Processes \ {p} : th'[q] = th[q]
  BY <1>5, WentOnIs DEF Typed, PCs, LocalWrite
<1>7. th'[p].page # None => th'[p].buf.v = latest[th'[p].page]
  BY <1>4, <1>6 DEF ContentsOK, AllFetchedOK, FetchedOK, Loaded, Latched, Writing
<1>8. MergeOK(m)'
  <2>1. Merging(th'[m]) => Merging(th[m])
    BY <1>4, <1>6 DEF Merging, Writing
  <2>2. Stage(th'[m]) \notin {"e_merge", "e_page", "e_mark"}
    BY <1>4, <1>6
  <2> QED BY <1>1, <1>4, <1>6, <2>1, <2>2, MergeGoesOn DEF ContentsOK
<1> QED BY <1>3, <1>4, <1>6, <1>7, <1>8, ContentsByOne

\* A thread that has, or asks for, the state lock for reading.
LEMMA ContentsForReading ==
  ASSUME Typed, NEW m \in Processes, ContentsOK(m), NEW p \in Processes,
         NEW t \in Thread, NEW s \in Returns, lockStateRead(p, t, s), SameContents,
         \A q \in Processes \ {p} : bm'[q].master => bm[q].master,
         p # m => ~ bm'[p].master /\ s \notin Makers,
         s = "e_check" => t.op # "end3",
         t.page \in {None, th[p].page} \/ Available(p, t.page),
         t.page # None /\ s \in Loaded => t.buf.v = latest[t.page],
         p = m /\ s \in {"e_alloc", "e_mark"} => Merging(th[m]) /\ t.op = th[m].op,
         p = m /\ s = "g_read" /\ t.op = "end3" => Merging(th[m]) /\ t.op = th[m].op,
         p = m /\ s = "e_mark" => t.todo = th[m].todo
                                  /\ Stage(th[m]) \in {"e_merge", "e_page", "e_mark"}
  PROVE  ContentsOK(m)'
<1>1. PICK u \in Thread : /\ th' = [th EXCEPT ![p] = u]
                          /\ u.op = t.op /\ u.page = t.page /\ u.buf = t.buf /\ u.todo = t.todo
                          /\ Stage(u) = s
  BY LockStateReadIs DEF Typed
<1>2. th'[p] = u /\ \A q \in Processes \ {p} : th'[q] = th[q]
  BY <1>1 DEF Typed, ThreadsOK
<1>3. ASSUME p = m PROVE MergeOK(m)'
  <2>1. Merging(th'[m]) => Merging(th[m]) /\ th'[m].op = th[m].op
    BY <1>1, <1>2, <1>3 DEF Merging, Writing, Returns
  <2>2. Stage(th'[m]) \in {"e_merge", "e_page", "e_mark"} =>
           \A pg \in Pages \ th'[m].todo : InMain(pg) \/ dirty[m][pg] # None
    <3>1. Stage(th'[m]) \in {"e_merge", "e_page", "e_mark"} => s = "e_mark" /\ Merging(th[m])
      BY <1>1, <1>2, <1>3 DEF Returns
    <3>2. s = "e_mark" /\ Merging(th[m]) =>
             \A pg \in Pages \ t.todo : InMain(pg) \/ dirty[m][pg] # None
      BY <1>3 DEF ContentsOK, MergeOK, MergedBy
    <3> QED BY <1>1, <1>2, <1>3, <3>1, <3>2
  <2>3. Stage(th'[m]) # "e_page"
    BY <1>1, <1>2, <1>3 DEF Returns
  <2> QED BY <2>1, <2>2, <2>3, MergeGoesOn DEF ContentsOK, SameContents
<1> QED BY <1>1, <1>2, <1>3, ContentsByOne

\* A thread that has done with its page and its operation.
LEMMA ContentsDone ==
  ASSUME Typed, NEW m \in Processes, ContentsOK(m), NEW p \in Processes, SameContents,
         th' = [th EXCEPT ![p] = NewThread],
         \A q \in Processes : bm'[q].master => bm[q].master
  PROVE  ContentsOK(m)'
<1>1. th'[p] = NewThread /\ \A q \in Processes \ {p} : th'[q] = th[q]
  BY ThreadDone DEF Typed
<1>2. /\ Stage(th'[p]) = "idle" /\ th'[p].page = None
      /\ "idle" \notin Makers /\ ~ Merging(th'[p])
  BY <1>1, NewThreadIs DEF Makers, Making, Writing, Merging
<1>3. p = m => MergeOK(m)'
  BY <1>2 DEF MergeOK
<1>4. p # m => ~ bm'[p].master
  BY DEF ContentsOK, MakersOK
<1> QED BY <1>1, <1>2, <1>3, <1>4, ContentsByOne

LEMMA CCH_releaseContents ==
  ASSUME Typed, NEW m \in Processes, ContentsOK(m), NEW p \in Processes, CCH_release(p)
  PROVE  ContentsOK(m)'
<1>1. UNCHANGED <<hdr, main, delta, table, bm, dirty, version, latest>>
      /\ th' = [th EXCEPT ![p] = NewThread]
  BY DEF CCH_release, disk
<1>2. SameContents
  BY <1>1 DEF SameContents, SameAlloc
<1> QED BY <1>1, <1>2, ContentsDone

\* The operation is refused: the lock is given back, and nothing has changed.
LEMMA RefusedContents ==
  ASSUME Typed, NEW m \in Processes, ContentsOK(m), NEW p \in Processes,
         unlockStateWrite(p, Finish(bm, p)), th' = [th EXCEPT ![p] = NewThread],
         UNCHANGED <<disk, dirty, version, latest>>
  PROVE  ContentsOK(m)'
<1>1. PICK b \in Manager :
           /\ AllocOK(b) /\ ~ b.master
           /\ b.alloc_table = bm[p].alloc_table
           /\ b.alloc_physical = bm[p].alloc_physical /\ b.allocIsValid = bm[p].allocIsValid
           /\ b.current_scn = bm[p].current_scn
           /\ b.stateBlocking = bm[p].stateBlocking
           /\ Finish(bm, p) = [bm EXCEPT ![p] = b]
  BY FinishIs DEF Typed
<1>2. PICK B : B = Finish(bm, p)
  OBVIOUS
<1>3. Changed(B) /\ B[p] = b /\ \A q \in Processes \ {p} : B[q] = bm[q]
  <2>1. /\ Changed([bm EXCEPT ![p] = b]) /\ [bm EXCEPT ![p] = b][p] = b
        /\ \A q \in Processes \ {p} : [bm EXCEPT ![p] = b][q] = bm[q]
    BY <1>1, ChangedOne DEF Typed
  <2> QED BY <1>1, <1>2, <2>1
<1>4. SameTable(b, bm'[p]) /\ \A q \in Processes \ {p} : bm'[q] = bm[q]
  BY <1>2, <1>3, UnlockStateWriteIs
<1>5. SameAlloc(bm[p], bm'[p]) /\ ~ bm'[p].master /\ OnlyManager(p)
  BY <1>1, <1>4 DEF SameTable, SameAlloc, OnlyManager
<1>6. SameContents
  BY <1>5, SameAllocs DEF SameContents, disk
<1>7. \A q \in Processes : bm'[q].master => bm[q].master
  BY <1>4, <1>5
<1> QED BY <1>6, <1>7, ContentsDone

LEMMA BeginRefusedContents ==
  ASSUME Typed, NEW m \in Processes, ContentsOK(m), NEW p \in Processes, BeginRefused(p)
  PROVE  ContentsOK(m)'
BY RefusedContents DEF BeginRefused

LEMMA EndRefusedContents ==
  ASSUME Typed, NEW m \in Processes, ContentsOK(m), NEW p \in Processes, EndRefused(p)
  PROVE  ContentsOK(m)'
BY RefusedContents DEF EndRefused

LEMMA CCH_fetchContents ==
  ASSUME Typed, NEW m \in Processes, ContentsOK(m), NEW p \in Processes, CCH_fetch(p)
  PROVE  ContentsOK(m)'
<1>1. PICK pg \in Pages :
         Available(p, pg) /\ lockStateRead(p, [th[p] EXCEPT !.page = pg], "f_read")
  BY DEF CCH_fetch, FetchPage
<1>2. UNCHANGED <<hdr, main, delta, table, bm, dirty, version, latest>>
  BY DEF CCH_fetch, disk
<1>3. th[p] \in Thread
  BY TypedParts
<1>9. PICK t : t = [th[p] EXCEPT !.page = pg]
  OBVIOUS
<1>4. t \in Thread /\ t.page = pg
  BY <1>3, <1>9 DEF Thread
<1>5. lockStateRead(p, t, "f_read")
  BY <1>1, <1>9
<1>6. "f_read" \in Returns /\ "f_read" \notin Makers /\ "f_read" \notin Loaded
  BY DEF Returns, Makers, Making, Writing, Loaded
<1>7. SameContents
  BY <1>2 DEF SameContents, SameAlloc
<1>8. p # m => ~ bm'[p].master
  BY <1>2 DEF ContentsOK, MakersOK
<1> QED BY <1>1, <1>2, <1>4, <1>5, <1>6, <1>7, <1>8, ContentsForReading

LEMMA CCH_markContents ==
  ASSUME Typed, NEW m \in Processes, ContentsOK(m), NEW p \in Processes, CCH_mark(p)
  PROVE  ContentsOK(m)'
<1>1. UNCHANGED <<hdr, main, delta, table, bm, dirty, version, latest>>
      /\ lockStateRead(p, th[p], "m_mark") /\ At(p, "held")
  BY DEF CCH_mark, disk
<1>2. th[p] \in Thread /\ Stage(th[p]) = "held"
  BY <1>1, TypedParts, StageIs
<1>3. "m_mark" \in Returns /\ "m_mark" \notin Makers
  BY DEF Returns, Makers, Making, Writing
<1>4. SameContents
  BY <1>1 DEF SameContents, SameAlloc
<1>5. p # m => ~ bm'[p].master
  BY <1>1 DEF ContentsOK, MakersOK
<1>6. th[p].page # None => th[p].buf.v = latest[th[p].page]
  BY <1>2 DEF ContentsOK, AllFetchedOK, FetchedOK, Loaded, Latched
<1> QED BY <1>1, <1>2, <1>3, <1>4, <1>5, <1>6, ContentsForReading

LEMMA GuardFetchContents ==
  ASSUME Typed, NEW m \in Processes, ContentsOK(m), NEW p \in Processes, GuardFetch(p)
  PROVE  ContentsOK(m)'
<1>1. UNCHANGED <<hdr, main, delta, table, bm, dirty, version, latest>> /\ At(p, "g_flush")
      /\ Available(p, HeaderPage)
      /\ lockStateRead(p, [th[p] EXCEPT !.page = HeaderPage], "g_read")
  BY DEF GuardFetch, FetchPage, disk
<1>2. th[p] \in Thread /\ Stage(th[p]) = "g_flush"
  BY <1>1, TypedParts, StageIs
<1>9. PICK t : t = [th[p] EXCEPT !.page = HeaderPage]
  OBVIOUS
<1>3. t \in Thread /\ t.page = HeaderPage /\ t.op = th[p].op
  BY <1>2, <1>9, BackupAssumption DEF Thread
<1>4. lockStateRead(p, t, "g_read")
  BY <1>1, <1>9
<1>5. p = m
  BY <1>2, MakerIs DEF ContentsOK, Makers, Making
<1>6. "g_read" \in Returns /\ "g_read" \notin Loaded
  BY DEF Returns, Loaded
<1>7. SameContents
  BY <1>1 DEF SameContents, SameAlloc
<1>8. t.op = "end3" => Merging(th[m])
  BY <1>2, <1>3, <1>5 DEF Merging
<1> QED BY <1>1, <1>3, <1>4, <1>5, <1>6, <1>7, <1>8, ContentsForReading

LEMMA MergeGuardContents ==
  ASSUME Typed, NEW m \in Processes, ContentsOK(m), NEW p \in Processes, MergeGuard(p)
  PROVE  ContentsOK(m)'
<1>1. UNCHANGED <<hdr, main, delta, table, bm, dirty, version, latest>> /\ At(p, "e_guard")
      /\ lockStateRead(p, th[p], "e_alloc")
  BY DEF MergeGuard, disk
<1>2. th[p] \in Thread /\ Stage(th[p]) = "e_guard"
  BY <1>1, TypedParts, StageIs
<1>3. p = m /\ Merging(th[m])
  BY <1>2, MakerIs DEF ContentsOK, Makers, Making, Merging
<1>4. "e_alloc" \in Returns /\ "e_alloc" \notin Loaded
  BY DEF Returns, Loaded, Latched, Writing
<1>5. SameContents
  BY <1>1 DEF SameContents, SameAlloc
<1> QED BY <1>1, <1>2, <1>3, <1>4, <1>5, ContentsForReading

LEMMA MergeMarkContents ==
  ASSUME Typed, NEW m \in Processes, ContentsOK(m), NEW p \in Processes, MergeMark(p)
  PROVE  ContentsOK(m)'
<1>1. UNCHANGED <<hdr, main, delta, table, bm, dirty, version, latest>> /\ At(p, "e_page")
      /\ lockStateRead(p, th[p], "e_mark")
  BY DEF MergeMark, disk
<1>2. th[p] \in Thread /\ Stage(th[p]) = "e_page"
  BY <1>1, TypedParts, StageIs
<1>3. p = m /\ Merging(th[m])
  BY <1>2, MakerIs DEF ContentsOK, Makers, Making, Merging
<1>4. "e_mark" \in Returns
  BY DEF Returns
<1>5. SameContents
  BY <1>1 DEF SameContents, SameAlloc
<1>6. th[p].page # None => th[p].buf.v = latest[th[p].page]
  BY <1>2 DEF ContentsOK, AllFetchedOK, FetchedOK, Loaded, Latched
<1> QED BY <1>1, <1>2, <1>3, <1>4, <1>5, <1>6, ContentsForReading

LEMMA AttachContents ==
  ASSUME Typed, NEW m \in Processes, ContentsOK(m), NEW p \in Processes, Attach(p)
  PROVE  ContentsOK(m)'
<1>1. UNCHANGED <<hdr, main, delta, table, bm, dirty, version, latest>> /\ At(p, "out")
      /\ lockStateRead(p, NewThread, "a_alloc")
  BY DEF Attach, disk
<1>2. p = m
  BY <1>1, StageIs, MakerIs DEF ContentsOK, Makers
<1>3. "a_alloc" \in Returns
  BY DEF Returns
<1>4. SameContents
  BY <1>1 DEF SameContents, SameAlloc
<1> QED BY <1>1, <1>2, <1>3, <1>4, NewThreadIs, ContentsForReading

\* Threads of the maker, between places where it reads nothing.
LEMMA StartBeginContents ==
  ASSUME Typed, NEW m \in Processes, OneMaker(m), ContentsOK(m), NEW p \in Processes,
         StartBegin(p)
  PROVE  ContentsOK(m)'
<1>1. /\ UNCHANGED <<hdr, main, delta, table, dirty, version, latest>>
      /\ bm' = [bm EXCEPT ![p].master = TRUE] /\ th' = [th EXCEPT ![p] = Guard(p, "begin")]
      /\ <<p, hdr.scn>> \in Operators
  BY DEF StartBegin, disk
<1>2. p = m
  BY <1>1 DEF OneMaker
<1>3. PICK b : b = [bm[p] EXCEPT !.master = TRUE]
  OBVIOUS
<1>4. b \in Manager /\ AllocOK(b) /\ SameAlloc(bm[p], b)
  BY <1>3, TypedParts, MasterIs DEF SameAlloc
<1>5. bm'[p] = b /\ \A q \in Processes \ {p} : bm'[q] = bm[q]
  BY <1>1, <1>3, <1>4, OneManager DEF Typed
<1>6. SameContents
  BY <1>1, <1>4, <1>5, SameAllocs DEF SameContents, OnlyManager
<1>9. PICK g : g = Guard(p, "begin")
  OBVIOUS
<1>10. Stage(g) = "g_flush" /\ g.op = "begin" /\ g.page = None
  BY <1>9, GuardIs DEF Typed
<1>7. /\ Stage(th'[p]) = "g_flush" /\ th'[p].op = "begin" /\ th'[p].page = None
      /\ \A q \in Processes \ {p} : th'[q] = th[q]
  BY <1>1, <1>9, <1>10 DEF Typed, ThreadsOK
<1>8. MergeOK(m)'
  BY <1>2, <1>7 DEF MergeOK, Merging
<1> QED BY <1>2, <1>5, <1>6, <1>7, <1>8, ContentsByOne

LEMMA StartEndContents ==
  ASSUME Typed, NEW m \in Processes, OneMaker(m), ContentsOK(m), NEW p \in Processes,
         StartEnd(p, "idle", "end") \/ StartEnd(p, "a_recover", "recover")
  PROVE  ContentsOK(m)'
<1>1. PICK from \in {"idle", "a_recover"}, o \in {"end", "recover"} : StartEnd(p, from, o)
  OBVIOUS
<1>2. /\ UNCHANGED <<hdr, main, delta, table, dirty, version, latest>> /\ At(p, from)
      /\ from = "idle" => <<p, hdr.scn>> \in Operators
  BY <1>1 DEF StartEnd, disk
<1>3. p = m
  <2>1. CASE from = "idle"
    BY <1>2, <2>1 DEF OneMaker
  <2>2. CASE from = "a_recover"
    BY <1>2, <2>2, StageIs, MakerIs DEF ContentsOK, Makers
  <2> QED BY <2>1, <2>2
<1>4. CASE endLock = None
  <2>1. bm' = [bm EXCEPT ![p].master = TRUE]
        /\ lockStateRead(p, [th[p] EXCEPT !.op = o], "e_check")
    BY <1>1, <1>4 DEF StartEnd
  <2>2. PICK b : b = [bm[p] EXCEPT !.master = TRUE]
    OBVIOUS
  <2>3. b \in Manager /\ AllocOK(b) /\ SameAlloc(bm[p], b)
    BY <2>2, TypedParts, MasterIs DEF SameAlloc
  <2>4. bm'[p] = b /\ \A q \in Processes \ {p} : bm'[q] = bm[q]
    BY <2>1, <2>2, <2>3, OneManager DEF Typed
  <2>5. SameContents
    BY <1>2, <2>3, <2>4, SameAllocs DEF SameContents, OnlyManager
  <2>6. PICK t : t = [th[p] EXCEPT !.op = o]
    OBVIOUS
  <2>7. t \in Thread /\ t.op = o /\ t.page = th[p].page
    BY <2>6, TypedParts DEF Thread
  <2>8. lockStateRead(p, t, "e_check")
    BY <2>1, <2>6
  <2>9. "e_check" \in Returns /\ "e_check" \notin Loaded
    BY DEF Returns, Loaded, Latched, Writing
  <2> QED BY <1>3, <2>4, <2>5, <2>7, <2>8, <2>9, ContentsForReading
<1>5. CASE endLock # None
  <2>1. th' = [th EXCEPT ![p] = NewThread] /\ bm' = bm
    BY <1>1, <1>5 DEF StartEnd
  <2>2. SameContents
    BY <1>2, <2>1 DEF SameContents, SameAlloc
  <2> QED BY <2>1, <2>2, ContentsDone
<1> QED BY <1>4, <1>5

\* A page of the merge that needs nothing.
LEMMA MergeSkipContents ==
  ASSUME Typed, LocksOK, NEW m \in Processes, ContentsOK(m), NEW p \in Processes, MergeSkip(p)
  PROVE  ContentsOK(m)'
<1>1. /\ UNCHANGED <<hdr, main, delta, table, bm, dirty, version, latest>> /\ At(p, "e_page")
      /\ th[p].buf.scn = bm[p].current_scn /\ th' = Merged(p)
  BY DEF MergeSkip, disk
<1>2. SameContents
  BY <1>1 DEF SameContents, SameAlloc
<1>3. Stage(th[p]) = "e_page"
  BY <1>1, StageIs
<1>4. p = m /\ Merging(th[m])
  BY <1>3, MakerIs DEF ContentsOK, Makers, Making, Merging
<1>5. bm[p].current_scn = hdr.scn
  BY <1>1 DEF LocksOK, LockOK, LocalReaders, LocalRead, At
<1>6. /\ th'[p].page = None /\ th'[p].op = th[p].op /\ th'[p].todo = th[p].todo \ {th[p].page}
      /\ Stage(th'[p]) = "e_merge" /\ \A q \in Processes \ {p} : th'[q] = th[q]
  BY <1>1, MergedIs DEF Typed
<1>7. \A pg \in Pages \ th'[m].todo : InMain(pg) \/ dirty[m][pg] # None
  BY <1>1, <1>3, <1>4, <1>5, <1>6 DEF ContentsOK, MergeOK, MergedBy
<1>8. MergeOK(m)'
  BY <1>1, <1>4, <1>6, <1>7, MergeGoesOn DEF ContentsOK
<1> QED BY <1>1, <1>2, <1>4, <1>6, <1>8, ContentsByOne

\* All pages have been merged, and written.
LEMMA MergeOverContents ==
  ASSUME Typed, NEW m \in Processes, ContentsOK(m), NEW p \in Processes, MergeOver(p)
  PROVE  ContentsOK(m)'
<1>1. /\ UNCHANGED <<hdr, main, delta, table, bm, dirty, version, latest>> /\ At(p, "e_merge")
      /\ th[p].todo = {} /\ DirtyPages(p) = {} /\ th' = [th EXCEPT ![p] = Guard(p, "end3")]
  BY DEF MergeOver, disk
<1>2. SameContents
  BY <1>1 DEF SameContents, SameAlloc
<1>3. Stage(th[p]) = "e_merge"
  BY <1>1, StageIs
<1>4. p = m /\ Merging(th[m])
  BY <1>3, MakerIs DEF ContentsOK, Makers, Making, Merging
<1>5. \A pg \in Pages : InMain(pg)
  BY <1>1, <1>3, <1>4 DEF ContentsOK, MergeOK, MergedBy, DirtyPages
<1>9. PICK g : g = Guard(p, "end3")
  OBVIOUS
<1>10. Stage(g) = "g_flush" /\ g.op = "end3" /\ g.page = None
  BY <1>9, GuardIs DEF Typed
<1>6. /\ Stage(th'[p]) = "g_flush" /\ th'[p].op = "end3" /\ th'[p].page = None
      /\ \A q \in Processes \ {p} : th'[q] = th[q]
  BY <1>1, <1>9, <1>10 DEF Typed, ThreadsOK
<1>7. \A pg \in Pages : InMain(pg)'
  BY <1>1, <1>5 DEF InMain
<1>8. MergeOK(m)'
  <2>1. MergedBy(m, th[m])
    BY <1>4 DEF ContentsOK, MergeOK
  <2>2. hdr'.mode = "merge"
    BY <1>1, <2>1 DEF MergedBy
  <2> QED BY <1>4, <1>6, <1>7, <2>2 DEF MergeOK, MergedBy
<1> QED BY <1>1, <1>2, <1>4, <1>6, <1>8, ContentsByOne

-----------------------------------------------------------------------------
(* The contents: steps that look at the allocation table or read pages.    *)

\* The files and the buffers are as they were, the managers may know more.
LEMMA ContentsRead ==
  ASSUME NEW m \in Processes, ContentsOK(m), NEW p \in Processes,
         UNCHANGED <<hdr, main, delta, table, dirty, version, latest>>, TablesOK(m)',
         \A q \in Processes \ {p} : th'[q] = th[q] /\ (bm'[q].master => bm[q].master),
         p # m => ~ bm'[p].master /\ Stage(th'[p]) \notin Makers,
         p = m /\ Stage(th'[m]) = "e_check" => th'[m].op # "end3",
         th'[p].page \in {None, th[p].page} \/ Available(p, th'[p].page),
         th'[p].page # None /\ Stage(th'[p]) \in Loaded => th'[p].buf.v = latest[th'[p].page],
         p = m => MergeOK(m)'
  PROVE  ContentsOK(m)'
<1>1. AllDirtyOK' /\ FilesCurrent'
  BY SameDirtyPages, SameCurrent DEF ContentsOK
<1>2. AllFetchedOK'
  BY FetchedByOne DEF ContentsOK
<1>3. MakersOK(m)'
  BY MakersByOne DEF ContentsOK
<1>4. MergeOK(m)'
  <2>1. CASE p = m
    BY <2>1
  <2>2. CASE p # m
    BY <2>2, SameMerge DEF ContentsOK
  <2> QED BY <2>1, <2>2
<1> QED BY <1>1, <1>2, <1>3, <1>4 DEF ContentsOK

\* What the others remember has not changed, and manager p fits the table.
LEMMA TablesByOne ==
  ASSUME NEW m, TablesOK(m), NEW p \in Processes, OnlyManager(p), UNCHANGED <<hdr, table>>,
         TableFor(m, p, bm'[p], hdr, table)
  PROVE  TablesOK(m)'
BY DEF TablesOK, OnlyManager

\* Whoever reads the state knows it.
LEMMA ReaderKnows ==
  ASSUME LocksOK, NEW p \in Processes, LocalReaders(p), ~ At(p, "locking")
  PROVE  bm[p].backup_state = hdr.mode /\ bm[p].current_scn = hdr.scn
BY DEF LocksOK, LockOK

\* extendDatabase does not make a table certain.
LEMMA ExtendedTable ==
  ASSUME NEW m, NEW p, NEW b \in Manager, AllocOK(b), FilesOK, NEW h \in Headers,
         h.mode # "normal", b.current_scn = h.scn, TableFor(m, p, b, h, table)
  PROVE  TableFor(m, p, Extended(b), h, table)
<1>1. PICK c : c = Extended(b)
  OBVIOUS
<1>2. /\ c.current_scn = b.current_scn /\ c.alloc_physical = b.alloc_physical
      /\ Known(c) = Known(b)
      /\ \/ c = b
         \/ b.alloc_table = None /\ ~ c.allocIsValid
  BY <1>1, ExtendedIs DEF SameState
<1>3. CASE c = b
  BY <1>1, <1>3
<1>4. CASE b.alloc_table = None /\ ~ c.allocIsValid
  <2>1. Fresh(c, h) <=> Fresh(b, h)
    BY <1>2 DEF Fresh
  <2> QED BY <1>1, <1>2, <1>4, <2>1 DEF TableFor
<1> QED BY <1>2, <1>3, <1>4

LEMMA CheckStateContents ==
  ASSUME Typed, LocksOK, NEW m \in Processes, ContentsOK(m), NEW p \in Processes, CheckState(p)
  PROVE  ContentsOK(m)'
<1>1. /\ \A q \in Processes \ {p} : th'[q] = th[q] /\ bm'[q] = bm[q]
      /\ bm'[p].current_scn = bm[p].current_scn
      /\ bm'[p].alloc_physical = bm[p].alloc_physical
      /\ UNCHANGED <<hdr, main, delta, table, dirty, version, latest>>
      /\ th'[p].page = None /\ th[p].pc = "e_check" /\ Stage(th[p]) = "e_check"
      /\ \/ /\ Moves(p, "g_flush") /\ th'[p].op = th[p].op
            /\ \/ bm'[p] = bm[p]
               \/ bm[p].backup_state = "stalled" /\ bm'[p] = Extended(bm[p])
         \/ /\ Moves(p, "idle")
            /\ bm'[p].alloc_table = bm[p].alloc_table
            /\ bm'[p].allocIsValid = bm[p].allocIsValid
  BY CheckedIs DEF disk
<1>2. p = m
  BY <1>1, MakerIs DEF ContentsOK, Makers, Making
<1>3. bm[p].backup_state = hdr.mode /\ bm[p].current_scn = hdr.scn
  BY <1>1, ReaderKnows DEF LocalReaders, LocalRead, At
<1>4. TableFor(m, p, bm[p], hdr, table)
  BY DEF ContentsOK, TablesOK
<1>5. TableFor(m, p, bm'[p], hdr, table)
  <2>1. CASE bm[p].backup_state = "stalled" /\ bm'[p] = Extended(bm[p])
    <3>1. bm[p] \in Manager /\ AllocOK(bm[p]) /\ hdr \in Headers /\ FilesOK
      BY TypedParts DEF Typed, FilesOK, Headers
    <3>2. TableFor(m, p, Extended(bm[p]), hdr, table)
      BY <1>3, <1>4, <2>1, <3>1, ExtendedTable
    <3> QED BY <2>1, <3>2
  <2>2. CASE SameAlloc(bm[p], bm'[p])
    BY <1>4, <2>2, TableKept
  <2> QED BY <1>1, <2>1, <2>2 DEF SameAlloc
<1>6. TablesOK(m)'
  BY <1>1, <1>5, TablesByOne DEF ContentsOK, OnlyManager
<1>7. MergeOK(m)'
  <2>1. ~ Merging(th'[p])
    BY <1>1, <1>2 DEF ContentsOK, MakersOK, Merging, Moves, Writing
  <2> QED BY <1>2, <2>1 DEF MergeOK
<1>8. Stage(th'[p]) # "e_check"
  BY <1>1 DEF Moves
<1> QED BY <1>1, <1>2, <1>6, <1>7, <1>8, ContentsRead

LEMMA initializeAllocContents ==
  ASSUME Typed, LocksOK, NEW m \in Processes, ContentsOK(m), NEW p \in Processes,
         initializeAlloc(p)
  PROVE  ContentsOK(m)'
<1>1. /\ OnlyManager(p) /\ SameState(bm[p], bm'[p])
      /\ bm'[p].alloc_physical = bm[p].alloc_physical
      /\ \/ bm'[p] = bm[p] /\ bm[p].backup_state = "normal"
         \/ ~ bm'[p].allocIsValid /\ bm'[p].alloc_table = Known(bm[p])
      /\ Stage(th'[p]) = "a_recover" /\ th'[p].page = None
      /\ \A q \in Processes \ {p} : th'[q] = th[q]
  BY InitializeAllocIs
<1>2. /\ UNCHANGED <<hdr, main, delta, table, dirty, version, latest>> /\ At(p, "a_alloc")
      /\ bm[p].backup_state = "normal" => bm' = bm
  BY DEF initializeAlloc, disk
<1>3. p = m
  BY <1>2, StageIs, MakerIs DEF ContentsOK, Makers
<1>4. bm[p].backup_state = hdr.mode /\ bm[p].current_scn = hdr.scn
  BY <1>2, ReaderKnows DEF LocalReaders, LocalRead, At
<1>5. TableFor(m, p, bm[p], hdr, table)
  BY DEF ContentsOK, TablesOK
<1>6. TableFor(m, p, bm'[p], hdr, table)
  <2>1. CASE bm[p].backup_state = "normal"
    BY <1>2, <1>5, <2>1
  <2>2. CASE bm[p].backup_state # "normal"
    <3>1. PICK b : b = bm[p]
      OBVIOUS
    <3>2. PICK c : c = bm'[p]
      OBVIOUS
    <3>3. b \in Manager /\ AllocOK(b)
      BY <3>1, TypedParts
    <3>4. /\ ~ c.allocIsValid /\ c.alloc_table = Known(b) /\ c.alloc_physical = b.alloc_physical
          /\ c.current_scn = b.current_scn /\ b.current_scn = hdr.scn /\ hdr.mode # "normal"
      BY <1>1, <1>4, <2>2, <3>1, <3>2 DEF SameState
    <3>5. Known(b) # None
      BY <3>3, KnownIs, BackupAssumption
    <3>6. Known(c) = Known(b) /\ (Fresh(c, hdr) <=> Fresh(b, hdr))
      BY <3>4, <3>5 DEF Known, Fresh
    <3>7. TableFor(m, p, b, hdr, table)
      BY <1>5, <3>1
    <3>8. TableFor(m, p, c, hdr, table)
      BY <1>3, <3>4, <3>6, <3>7 DEF TableFor
    <3> QED BY <3>2, <3>8
  <2> QED BY <2>1, <2>2
<1>7. TablesOK(m)'
  BY <1>1, <1>2, <1>6, TablesByOne DEF ContentsOK
<1>8. MergeOK(m)'
  BY <1>1, <1>3 DEF MergeOK, Merging, Writing
<1> QED BY <1>1, <1>2, <1>3, <1>7, <1>8, ContentsRead DEF OnlyManager

LEMMA MergeAllocContents ==
  ASSUME Typed, LocksOK, NEW m \in Processes, ContentsOK(m), NEW p \in Processes, MergeAlloc(p)
  PROVE  ContentsOK(m)'
<1>1. /\ SameState(bm[p], bm'[p]) /\ OnlyManager(p)
      /\ bm'[p].alloc_table = Known(bm[p]) \union table /\ bm'[p].allocIsValid
      /\ bm'[p].alloc_physical = bm[p].alloc_physical
      /\ Stage(th'[p]) = "e_merge" /\ th[p].pc = "e_alloc" /\ Stage(th[p]) = "e_alloc"
      /\ th'[p].page = None /\ th'[p].op = th[p].op /\ th'[p].todo = Known(bm[p]) \union table
      /\ \A q \in Processes \ {p} : th'[q] = th[q]
      /\ UNCHANGED <<hdr, main, delta, table, dirty, version, latest>>
  BY MergeAllocIs DEF disk, Moves
<1>2. p = m /\ Merging(th[m])
  BY <1>1, MakerIs DEF ContentsOK, Makers, Making, Merging
<1>3. hdr.mode = "merge"
  BY <1>2 DEF ContentsOK, MergeOK, MergedBy
<1>4. bm[p].current_scn = hdr.scn
  BY <1>1, ReaderKnows DEF LocalReaders, LocalRead, At
<1>5. PICK b : b = bm[p]
  OBVIOUS
<1>6. PICK c : c = bm'[p]
  OBVIOUS
<1>7. b \in Manager /\ AllocOK(b) /\ hdr.scn \in Nat /\ table \in SUBSET Pages
  BY <1>5, TypedParts DEF Typed, FilesOK
<1>8. TableFor(m, p, b, hdr, table) /\ Fresh(b, hdr)
  BY <1>3, <1>4, <1>5, <1>7 DEF ContentsOK, TablesOK, Fresh
<1>9. Known(b) \union table = table
  BY <1>8 DEF TableFor
<1>10. /\ c.alloc_table = table /\ c.allocIsValid /\ c.alloc_physical = b.alloc_physical
       /\ c.current_scn = hdr.scn
  BY <1>1, <1>4, <1>5, <1>6, <1>9 DEF SameState
<1>11. c.alloc_table # None /\ Known(c) = table
  BY <1>7, <1>10, BackupAssumption DEF Known
<1>12. TableFor(m, p, c, hdr, table)
  BY <1>2, <1>3, <1>7, <1>10, <1>11 DEF TableFor
<1>13. TablesOK(m)'
  BY <1>1, <1>6, <1>12, TablesByOne DEF ContentsOK
<1>14. MergeOK(m)'
  <2>1. \A pg \in Pages \ table : InMain(pg)
    BY DEF ContentsOK, FilesCurrent, DiskCurrent, InMain
  <2>2. \A pg \in Pages \ th'[m].todo : InMain(pg) \/ dirty[m][pg] # None
    BY <1>1, <1>2, <1>5, <1>9, <2>1
  <2> QED BY <1>1, <1>2, <2>2, MergeGoesOn DEF ContentsOK
<1> QED BY <1>1, <1>2, <1>13, <1>14, ContentsRead DEF OnlyManager

\* A page is read by one who knows the state: it is the last version, in one file or
\* the other.
LEMMA ReadIs ==
  ASSUME Typed, NEW m \in Processes, TablesOK(m), DiskCurrent,
         NEW p \in Processes, NEW pg \in Pages,
         bm[p].backup_state = hdr.mode, bm[p].current_scn = hdr.scn
  PROVE  /\ \A q \in Processes : TableFor(m, q, Indexed(p, pg)[q], hdr, table)
         /\ PageRead(Indexed(p, pg), p, pg).v = latest[pg]
         /\ \/ PageRead(Indexed(p, pg), p, pg) = main[pg]
            \/ delta[pg] # None /\ PageRead(Indexed(p, pg), p, pg) = delta[pg]
<1>1. PICK B : B = Indexed(p, pg)
  OBVIOUS
<1>2. CASE hdr.mode = "normal"
  <2>1. B = bm
    BY <1>1, <1>2 DEF Indexed
  <2>2. PageRead(B, p, pg) = main[pg]
    BY <1>2, <2>1 DEF PageRead
  <2> QED BY <1>1, <1>2, <2>1, <2>2 DEF TablesOK, DiskCurrent
<1>3. CASE hdr.mode # "normal"
  <2>1. B = getPageIndex(bm, p, pg)
    BY <1>1, <1>3 DEF Indexed
  <2>2. bm \in Managers /\ (\A q \in Processes : AllocOK(bm[q])) /\ hdr \in Headers
        /\ table \in SUBSET Pages
    BY DEF Typed, ManagersOK, FilesOK, Headers
  <2>3. /\ \A q \in Processes : TableFor(m, q, getPageIndex(bm, p, pg)[q], hdr, table)
        /\ pg \in Known(getPageIndex(bm, p, pg)[p]) <=> pg \in table
    BY <1>3, <2>2, IndexTables DEF TablesOK
  <2>4. B[p].backup_state = bm[p].backup_state
    BY <2>1, <2>2, GetPageIndexIs DEF LookedUp, SameState
  <2>5. PageRead(B, p, pg) = IF pg \in table /\ delta[pg] # None THEN delta[pg] ELSE main[pg]
    BY <1>3, <2>1, <2>3, <2>4 DEF PageRead, Mapped
  <2>6. PageRead(B, p, pg).v = latest[pg]
    BY <1>3, <2>5 DEF DiskCurrent
  <2> QED BY <1>1, <2>1, <2>3, <2>5, <2>6
<1> QED BY <1>2, <1>3

LEMMA CCH_fetch_pageContents ==
  ASSUME Typed, LocksOK, NEW m \in Processes, ContentsOK(m), NEW p \in Processes,
         CCH_fetch_page(p, "f_read", "held") \/ CCH_fetch_page(p, "g_read", "g_held")
  PROVE  ContentsOK(m)'
<1>1. PICK from \in {"f_read", "g_read"}, to \in {"held", "g_held"} :
          CCH_fetch_page(p, from, to) /\ (to = "g_held" <=> from = "g_read")
  OBVIOUS
<1>2. /\ Stage(th'[p]) = to /\ th'[p].page = th[p].page /\ th'[p].op = th[p].op
      /\ th'[p].buf = PageRead(bm', p, th[p].page)
      /\ \A q \in Processes \ {p} : th'[q] = th[q]
      /\ th[p].page \in Pages /\ th[p].pc = from /\ Stage(th[p]) = from
      /\ \A q \in Processes : SameState(bm[q], bm'[q])
  BY <1>1, FetchedIs DEF Moves
<1>3. /\ UNCHANGED <<hdr, main, delta, table, dirty, version, latest>>
      /\ bm' = Indexed(p, th[p].page)
  BY <1>1 DEF CCH_fetch_page, disk
<1>4. bm[p].backup_state = hdr.mode /\ bm[p].current_scn = hdr.scn
  BY <1>2, ReaderKnows DEF LocalReaders, LocalRead, At
<1>5. /\ \A q \in Processes : TableFor(m, q, bm'[q], hdr, table)
      /\ th'[p].buf.v = latest[th[p].page]
  BY <1>2, <1>3, <1>4, ReadIs DEF ContentsOK, FilesCurrent
<1>6. TablesOK(m)'
  BY <1>3, <1>5 DEF TablesOK
<1>7. p # m => ~ bm'[p].master /\ Stage(th'[p]) \notin Makers
  <2>1. to \in Makers => from \in Makers
    BY <1>1 DEF Makers, Making, Writing
  <2>2. p # m => ~ bm[p].master /\ Stage(th[p]) \notin Makers
    BY MakerIs DEF ContentsOK, MakersOK
  <2> QED BY <1>2, <2>1, <2>2 DEF SameState
<1>8. p = m => MergeOK(m)'
  <2>1. Merging(th'[p]) => Merging(th[p])
    BY <1>1, <1>2 DEF Merging, Writing
  <2>2. Stage(th'[p]) \notin {"e_merge", "e_page", "e_mark"}
    BY <1>2
  <2> QED BY <1>2, <1>3, <2>1, <2>2, MergeGoesOn DEF ContentsOK
<1> QED BY <1>2, <1>3, <1>5, <1>6, <1>7, <1>8, ContentsRead DEF SameState

LEMMA MergeFetchContents ==
  ASSUME Typed, LocksOK, NEW m \in Processes, ContentsOK(m), NEW p \in Processes, MergeFetch(p)
  PROVE  ContentsOK(m)'
<1>1. PICK pg \in th[p].todo :
         /\ pg \in Pages /\ Available(p, pg) /\ bm' = Indexed(p, pg)
         /\ Moves(p, "e_page") /\ th[p].pc = "e_merge" /\ Stage(th[p]) = "e_merge"
         /\ th'[p].page = pg /\ th'[p].op = th[p].op /\ th'[p].todo = th[p].todo
         /\ th'[p].buf = PageRead(Indexed(p, pg), p, pg)
         /\ \A q \in Processes \ {p} : th'[q] = th[q]
         /\ \A q \in Processes : SameState(bm[q], bm'[q])
         /\ UNCHANGED <<disk, rw, queue, dirty, ast, unlocking, endLock, version, latest, deaths>>
  BY MergeFetchIs
<1>2. UNCHANGED <<hdr, main, delta, table, dirty, version, latest>> /\ Stage(th'[p]) = "e_page"
  BY <1>1 DEF disk, Moves
<1>3. p = m /\ Merging(th[m])
  BY <1>1, MakerIs DEF ContentsOK, Makers, Making, Merging
<1>4. bm[p].backup_state = hdr.mode /\ bm[p].current_scn = hdr.scn
  BY <1>1, ReaderKnows DEF LocalReaders, LocalRead, At
<1>5. /\ \A q \in Processes : TableFor(m, q, bm'[q], hdr, table)
      /\ th'[p].buf.v = latest[pg]
      /\ th'[p].buf = main[pg] \/ (delta[pg] # None /\ th'[p].buf = delta[pg])
  BY <1>1, <1>4, ReadIs DEF ContentsOK, FilesCurrent
<1>6. TablesOK(m)'
  BY <1>2, <1>5 DEF TablesOK
<1>7. MergedBy(m, th[m])
  BY <1>3 DEF ContentsOK, MergeOK
<1>8. th'[m].buf.scn = hdr.scn => InMain(pg)
  <2>1. pg \in Pages
    BY <1>1
  <2>2. delta[pg] # None /\ delta[pg].scn = hdr.scn => InMain(pg)
    BY <1>7, <2>1 DEF MergedBy
  <2> QED BY <1>3, <1>5, <2>2 DEF InMain
<1>9. \A x \in Pages \ th'[m].todo : InMain(x) \/ dirty[m][x] # None
  BY <1>1, <1>3, <1>7 DEF MergedBy
<1>10. MergeOK(m)'
  BY <1>1, <1>2, <1>3, <1>8, <1>9, MergeGoesOn DEF ContentsOK
<1> QED BY <1>1, <1>2, <1>3, <1>5, <1>6, <1>10, ContentsRead DEF SameState

-----------------------------------------------------------------------------
(* The contents: steps that mark and write pages.                          *)

\* Page pg goes to the difference file when the backup is on, and stays there when
\* it is being merged.
NewTable(pg) == IF hdr.mode = "stalled" THEN table \union {pg} ELSE table

\* The tables after set_diff_page, and what it says of the page.
LEMMA PlacedTables ==
  ASSUME Typed, NEW m \in Processes, TablesOK(m), NEW p \in Processes, NEW pg \in Pages,
         bm[p].backup_state = hdr.mode, bm[p].current_scn = hdr.scn
  PROVE  /\ \A q \in Processes : TableFor(m, q, Placed(p, pg)[q], hdr, NewTable(pg))
         /\ hdr.mode # "normal" => (pg \in Known(Placed(p, pg)[p]) <=> pg \in NewTable(pg))
         /\ hdr.mode = "stalled" =>
               (pg \in Known(getPageIndex(bm, p, pg)[p]) \union table <=> pg \in table)
<1>1. PICK B : B = getPageIndex(bm, p, pg)
  OBVIOUS
<1>2. bm \in Managers /\ (\A q \in Processes : AllocOK(bm[q])) /\ hdr \in Headers
      /\ table \in SUBSET Pages
  BY DEF Typed, ManagersOK, FilesOK, Headers
<1>3. PICK P : P = Placed(p, pg)
  OBVIOUS
<1>4. CASE hdr.mode = "normal"
  <2>1. P = bm /\ NewTable(pg) = table
    BY <1>3, <1>4 DEF Placed, NewTable
  <2> QED BY <1>3, <1>4, <2>1 DEF TablesOK
<1>5. ASSUME hdr.mode # "normal"
      PROVE  /\ \A q \in Processes : TableFor(m, q, B[q], hdr, table)
             /\ pg \in Known(B[p]) <=> pg \in table
  BY <1>1, <1>2, <1>5, IndexTables DEF TablesOK
<1>6. CASE hdr.mode = "merge"
  <2>1. P = B /\ NewTable(pg) = table
    BY <1>1, <1>3, <1>6 DEF Placed, NewTable
  <2> QED BY <1>3, <1>5, <1>6, <2>1
<1>7. CASE hdr.mode = "stalled"
  <2>1. P = allocateDifferencePage(B, p, pg) /\ NewTable(pg) = table \union {pg}
    BY <1>1, <1>3, <1>7 DEF Placed, NewTable
  <2>2. Quiet(bm, B)
    BY <1>1, PlacedQuiet DEF Typed
  <2>3. B \in Managers /\ (\A q \in Processes : AllocOK(B[q])) /\ B[p].current_scn = hdr.scn
    BY <2>2 DEF Quiet, SameState
  <2>4. /\ \A q \in Processes :
              TableFor(m, q, allocateDifferencePage(B, p, pg)[q], hdr, table \union {pg})
        /\ pg \in Known(allocateDifferencePage(B, p, pg)[p])
    BY <1>2, <1>5, <1>7, <2>3, AllocateTables
  <2>5. /\ \A q \in Processes : TableFor(m, q, P[q], hdr, NewTable(pg))
        /\ pg \in Known(P[p]) /\ pg \in NewTable(pg)
    BY <2>1, <2>4
  <2>6. pg \in Known(B[p]) \union table <=> pg \in table
    BY <1>5, <1>7
  <2> QED BY <1>1, <1>3, <1>7, <2>5, <2>6
<1>8. hdr.mode \in {"normal", "merge", "stalled"}
  BY <1>2 DEF Headers, Modes
<1> QED BY <1>4, <1>6, <1>7, <1>8

\* What set_diff_page does to tables, files and buffers.
LEMMA MarkedIs ==
  ASSUME Typed, LocksOK, NEW m \in Processes, TablesOK(m), NEW p \in Processes,
         LocalReaders(p), ~ At(p, "locking"), NEW v \in Nat, set_diff_page(p, v),
         th[p].page \in Pages
  PROVE  LET pg == th[p].page
         IN  /\ TablesOK(m)' /\ hdr' = hdr /\ main' = main /\ table' = NewTable(pg)
             /\ \A x \in Pages \ {pg} : delta'[x] = delta[x]
             /\ delta'[pg] = IF hdr.mode = "stalled" /\ pg \notin table THEN None ELSE delta[pg]
             /\ \A q \in Processes \ {p} : dirty'[q] = dirty[q]
             /\ \A x \in Pages \ {pg} : dirty'[p][x] = dirty[p][x]
             /\ dirty'[p][pg].v = v /\ dirty'[p][pg].scn = hdr.scn
             /\ dirty'[p][pg].diff <=> hdr.mode # "normal" /\ pg \in table'
             /\ dirty'[p][pg] # None
             /\ \A q \in Processes : SameState(bm[q], bm'[q])
<1>1. PICK pg \in Pages : pg = th[p].page
  OBVIOUS
<1>2. bm[p].backup_state = hdr.mode /\ bm[p].current_scn = hdr.scn
  BY ReaderKnows
<1>3. /\ bm' = Placed(p, pg) /\ hdr' = hdr /\ main' = main
      /\ \A q \in Processes : SameState(bm[q], bm'[q])
      /\ \A q \in Processes \ {p} : dirty'[q] = dirty[q]
      /\ \A x \in Pages \ {pg} : dirty'[p][x] = dirty[p][x]
      /\ dirty'[p][pg] = [v |-> v, scn |-> bm[p].current_scn,
                          diff |-> bm[p].backup_state \in {"stalled", "merge"}
                                     /\ pg \in Known(bm'[p])]
  BY <1>1, DiffPageIs
<1>4. /\ \A q \in Processes : TableFor(m, q, bm'[q], hdr, NewTable(pg))
      /\ hdr.mode # "normal" => (pg \in Known(bm'[p]) <=> pg \in NewTable(pg))
      /\ hdr.mode = "stalled" =>
            (pg \in Known(getPageIndex(bm, p, pg)[p]) \union table <=> pg \in table)
  BY <1>2, <1>3, PlacedTables
<1>5. PICK new \in BOOLEAN :
         /\ new <=> hdr.mode = "stalled" /\ pg \notin table
         /\ table' = IF new THEN table \union {pg} ELSE table
         /\ delta' = IF new THEN [delta EXCEPT ![pg] = None] ELSE delta
  <2>1. PICK n : n = (/\ bm[p].backup_state = "stalled"
                      /\ pg \notin Known(getPageIndex(bm, p, pg)[p]) \union table)
    OBVIOUS
  <2>2. n \in BOOLEAN /\ (n <=> hdr.mode = "stalled" /\ pg \notin table)
    BY <1>2, <1>4, <2>1
  <2>3. /\ table' = IF n THEN table \union {pg} ELSE table
        /\ delta' = IF n THEN [delta EXCEPT ![pg] = None] ELSE delta
    BY <1>1, <2>1 DEF set_diff_page
  <2> QED BY <2>2, <2>3
<1>6. table' = NewTable(pg)
  BY <1>5 DEF NewTable
<1>7. /\ \A x \in Pages \ {pg} : delta'[x] = delta[x]
      /\ delta'[pg] = IF hdr.mode = "stalled" /\ pg \notin table THEN None ELSE delta[pg]
  BY <1>5 DEF Typed, FilesOK
<1>8. TablesOK(m)'
  BY <1>3, <1>4, <1>6 DEF TablesOK
<1>9. PICK d : d = dirty'[p][pg]
  OBVIOUS
<1>10. hdr.mode \in {"normal", "merge", "stalled"} /\ bm[p].current_scn \in Nat
  BY TypedParts DEF Typed, FilesOK, Modes, Manager
<1>11. PICK df \in BOOLEAN : df = (bm[p].backup_state \in {"stalled", "merge"}
                                     /\ pg \in Known(bm'[p]))
  OBVIOUS
<1>12. df <=> hdr.mode # "normal" /\ pg \in table'
  BY <1>2, <1>4, <1>6, <1>10, <1>11
<1>13. d = [v |-> v, scn |-> bm[p].current_scn, diff |-> df]
  BY <1>3, <1>9, <1>11
<1>14. d.v = v /\ d.scn = hdr.scn /\ d.diff = df /\ d \in [v : Nat, scn : Nat, diff : BOOLEAN]
  BY <1>2, <1>10, <1>13
<1>15. d # None
  BY <1>14, BackupAssumption
<1> QED BY <1>1, <1>3, <1>6, <1>7, <1>8, <1>9, <1>12, <1>14, <1>15

\* Files, buffers and threads when p has marked its page.
LEMMA MarkedContents ==
  ASSUME Typed, LocksOK, NEW m \in Processes, ContentsOK(m), NEW p \in Processes,
         LocalReaders(p), ~ At(p, "locking"), NEW v \in Nat, set_diff_page(p, v),
         th[p].page \in Pages, latest' = latest, latest[th[p].page] <= v,
         version' \in [Pages -> Nat], v <= version'[th[p].page],
         \A x \in Pages : version[x] <= version'[x],
         th'[p].page = None, \A q \in Processes \ {p} : th'[q] = th[q]
  PROVE  /\ TablesOK(m)' /\ FilesCurrent' /\ AllDirtyOK' /\ AllFetchedOK'
         /\ \A q \in Processes : bm'[q].master = bm[q].master
         /\ p # m => MergeOK(m)'
<1>1. PICK pg \in Pages : pg = th[p].page
  OBVIOUS
<1>2. /\ TablesOK(m)' /\ hdr' = hdr /\ main' = main /\ table' = NewTable(pg)
      /\ \A x \in Pages \ {pg} : delta'[x] = delta[x]
      /\ delta'[pg] = IF hdr.mode = "stalled" /\ pg \notin table THEN None ELSE delta[pg]
      /\ \A q \in Processes \ {p} : dirty'[q] = dirty[q]
      /\ \A x \in Pages \ {pg} : dirty'[p][x] = dirty[p][x]
      /\ dirty'[p][pg].v = v /\ dirty'[p][pg].scn = hdr.scn
      /\ dirty'[p][pg].diff <=> hdr.mode # "normal" /\ pg \in table'
      /\ \A q \in Processes : SameState(bm[q], bm'[q])
  BY <1>1, MarkedIs DEF ContentsOK
<1>3. /\ \A x \in Pages \ {pg} : x \in table' <=> x \in table
      /\ hdr.mode = "stalled" => pg \in table'
      /\ hdr.mode # "stalled" => table' = table
  BY <1>2 DEF NewTable
<1>4. FilesOK /\ FilesCurrent /\ pg # None
  BY <1>1, BackupAssumption DEF Typed, ContentsOK
<1>5. \A x \in Pages : latest'[x] <= version'[x]
  BY <1>4 DEF FilesCurrent, FilesOK
<1>6. \A x \in Pages : delta'[x] # None => delta'[x] = delta[x]
  BY <1>2
<1>7. DiskCurrent'
  <2> SUFFICES ASSUME NEW x \in Pages
               PROVE  latest[x] = IF hdr.mode # "normal" /\ x \in table' /\ delta'[x] # None
                                  THEN delta'[x].v ELSE main[x].v
    BY <1>2 DEF DiskCurrent
  <2>1. latest[x] = IF hdr.mode # "normal" /\ x \in table /\ delta[x] # None
                    THEN delta[x].v ELSE main[x].v
    BY <1>4 DEF FilesCurrent, DiskCurrent
  <2>2. CASE x # pg
    BY <1>2, <1>3, <2>1, <2>2
  <2>3. CASE x = pg /\ hdr.mode = "stalled" /\ pg \notin table
    BY <1>2, <2>1, <2>3
  <2>4. CASE x = pg /\ ~ (hdr.mode = "stalled" /\ pg \notin table)
    <3>1. delta'[pg] = delta[pg] /\ table' = table
      BY <1>2, <2>4 DEF NewTable
    <3> QED BY <2>1, <2>4, <3>1
  <2> QED BY <2>2, <2>3, <2>4
<1>8. FilesCurrent'
  <2>1. \A x \in Pages : delta'[x] # None => delta'[x].scn <= hdr.scn
    BY <1>4, <1>6 DEF FilesCurrent
  <2> QED BY <1>2, <1>5, <1>7, <2>1 DEF FilesCurrent
<1>9. FetchedOK(p)
  BY <1>1, <1>4 DEF ContentsOK, AllFetchedOK
<1>10. /\ \A q \in Processes : dirty[q][pg] = None
       /\ \A q \in Processes \ {p} : th[q].page # pg /\ dirty'[q][pg] = None
  BY <1>1, <1>2, <1>9 DEF FetchedOK
<1>11. \A q \in Processes, x \in Pages \ {pg} : dirty'[q][x] = dirty[q][x]
  BY <1>2
<1>12. AllDirtyOK'
  <2> SUFFICES ASSUME NEW q \in Processes, NEW x \in Pages, dirty'[q][x] # None
               PROVE  DirtyOK(q, x)'
    BY DEF AllDirtyOK
  <2>1. CASE x = pg
    <3>1. q = p
      BY <1>10, <2>1
    <3> QED BY <1>1, <1>2, <1>3, <1>10, <2>1, <3>1 DEF DirtyOK
  <2>2. CASE x # pg
    <3>1. dirty'[q][x] = dirty[q][x] /\ DirtyOK(q, x)
      BY <1>11, <2>2 DEF ContentsOK, AllDirtyOK
    <3>2. \A r \in Processes \ {q} : dirty'[r][x] = None
      BY <1>11, <2>2, <3>1 DEF DirtyOK
    <3>3. dirty[q][x] \in Buffer
      BY <3>1 DEF Typed, DirtyTyped
    <3>4. dirty[q][x].v <= version'[x]
      BY <1>4, <3>1, <3>3 DEF DirtyOK, FilesOK, Buffer
    <3> QED BY <1>2, <1>3, <2>2, <3>1, <3>2, <3>4 DEF DirtyOK
  <2> QED BY <2>1, <2>2
<1>13. AllFetchedOK'
  <2> SUFFICES ASSUME NEW q \in Processes, th'[q].page # None
               PROVE  FetchedOK(q)'
    BY DEF AllFetchedOK
  <2>1. q # p /\ th'[q] = th[q] /\ FetchedOK(q) /\ th[q].page # pg
    BY <1>10 DEF ContentsOK, AllFetchedOK
  <2>2. th[q].page \in Pages
    BY <2>1, TypedParts DEF Thread
  <2>3. \A r \in Processes : dirty'[r][th[q].page] = None
    BY <1>11, <2>1, <2>2 DEF FetchedOK
  <2>4. \A r \in Processes : r # q => th'[r].page # th[q].page
    BY <2>1, <2>2, BackupAssumption DEF FetchedOK
  <2> QED BY <2>1, <2>3, <2>4 DEF FetchedOK
<1>14. ASSUME p # m PROVE MergeOK(m)'
  <2> SUFFICES ASSUME Merging(th[m]) PROVE MergedBy(m, th[m])'
    BY <1>14 DEF MergeOK
  <2>1. MergedBy(m, th[m]) /\ th'[m] = th[m] /\ dirty'[m] = dirty[m]
    BY <1>2, <1>14 DEF ContentsOK, MergeOK
  <2>2. \A x : InMain(x)' <=> InMain(x)
    BY <1>2 DEF InMain
  <2> QED BY <1>2, <1>6, <2>1, <2>2 DEF MergedBy
<1>15. \A q \in Processes : bm'[q].master = bm[q].master
  BY <1>2 DEF SameState
<1> QED BY <1>2, <1>8, <1>12, <1>13, <1>14, <1>15

LEMMA ModifyContents ==
  ASSUME Typed, LocksOK, NEW m \in Processes, ContentsOK(m), NEW p \in Processes, Modify(p)
  PROVE  ContentsOK(m)'
<1>1. th[p] \in Thread /\ ThreadOK(th[p]) /\ th[p].pc = "m_mark"
  BY TypedParts DEF Modify, At
<1>2. th[p].page \in Pages
  BY <1>1 DEF ThreadOK, Stage, Latched, Thread
<1>3. PICK v \in Nat : v = version[th[p].page] + 1
  BY <1>2 DEF Typed, FilesOK
<1>4. /\ set_diff_page(p, v) /\ th' = [th EXCEPT ![p] = NewThread] /\ latest' = latest
      /\ version' = [version EXCEPT ![th[p].page] = v]
  BY <1>3 DEF Modify
<1>5. /\ version' \in [Pages -> Nat] /\ v <= version'[th[p].page]
      /\ \A x \in Pages : version[x] <= version'[x]
  BY <1>2, <1>3, <1>4 DEF Typed, FilesOK
<1>6. latest[th[p].page] <= v
  BY <1>2, <1>3 DEF ContentsOK, FilesCurrent, Typed, FilesOK
<1>7. th'[p] = NewThread /\ \A q \in Processes \ {p} : th'[q] = th[q]
  BY <1>4, ThreadDone DEF Typed
<1>8. Stage(th'[p]) = "idle" /\ th'[p].page = None
  BY <1>7, NewThreadIs
<1>9. LocalReaders(p) /\ ~ At(p, "locking")
  BY <1>1 DEF LocalReaders, LocalRead, At
<1>10. /\ TablesOK(m)' /\ FilesCurrent' /\ AllDirtyOK' /\ AllFetchedOK'
       /\ \A q \in Processes : bm'[q].master = bm[q].master
       /\ p # m => MergeOK(m)'
  BY <1>2, <1>4, <1>5, <1>6, <1>7, <1>8, <1>9, MarkedContents
<1>11. p = m => MergeOK(m)'
  BY <1>8 DEF MergeOK, Merging, Writing
<1>12. MakersOK(m)'
  <2>1. p # m => ~ bm'[p].master /\ Stage(th'[p]) \notin Makers
    BY <1>8, <1>10 DEF ContentsOK, MakersOK, Makers, Making, Writing
  <2> QED BY <1>7, <1>8, <1>10, <2>1, MakersByOne DEF ContentsOK
<1> QED BY <1>10, <1>11, <1>12 DEF ContentsOK

LEMMA MergePageContents ==
  ASSUME Typed, LocksOK, NEW m \in Processes, ContentsOK(m), NEW p \in Processes, MergePage(p)
  PROVE  ContentsOK(m)'
<1>1. th[p] \in Thread /\ ThreadOK(th[p]) /\ th[p].pc = "e_mark"
  BY TypedParts DEF MergePage, At
<1>2. th[p].page \in Pages /\ th[p].buf \in Copy /\ Stage(th[p]) = "e_mark"
  BY <1>1 DEF ThreadOK, Stage, Latched, Loaded, Thread, Writing
<1>3. PICK pg \in Pages : pg = th[p].page
  BY <1>2
<1>4. PICK v \in Nat : v = th[p].buf.v
  BY <1>2 DEF Copy
<1>5. set_diff_page(p, v) /\ th' = Merged(p) /\ latest' = latest /\ version' = version
  BY <1>4 DEF MergePage
<1>6. v = latest[pg]
  BY <1>2, <1>3, <1>4, BackupAssumption DEF ContentsOK, AllFetchedOK, FetchedOK, Loaded, Latched
<1>7. version \in [Pages -> Nat] /\ latest \in [Pages -> Nat] /\ latest[pg] <= version[pg]
  BY DEF ContentsOK, FilesCurrent, Typed, FilesOK
<1>8. /\ latest[pg] <= v /\ v <= version'[pg] /\ version' \in [Pages -> Nat]
      /\ \A x \in Pages : version[x] <= version'[x]
  BY <1>5, <1>6, <1>7
<1>9. /\ th'[p].page = None /\ th'[p].op = th[p].op /\ th'[p].todo = th[p].todo \ {pg}
      /\ Stage(th'[p]) = "e_merge" /\ \A q \in Processes \ {p} : th'[q] = th[q]
  BY <1>3, <1>5, MergedIs DEF Typed
<1>10. LocalReaders(p) /\ ~ At(p, "locking")
  BY <1>1 DEF LocalReaders, LocalRead, At
<1>11. /\ TablesOK(m)' /\ FilesCurrent' /\ AllDirtyOK' /\ AllFetchedOK'
       /\ \A q \in Processes : bm'[q].master = bm[q].master
  BY <1>2, <1>3, <1>5, <1>8, <1>9, <1>10, MarkedContents
<1>12. p = m /\ Merging(th[m])
  BY <1>2, MakerIs DEF ContentsOK, Makers, Making, Merging
<1>13. MergedBy(m, th[m])
  BY <1>12 DEF ContentsOK, MergeOK
<1>14. /\ hdr' = hdr /\ main' = main
       /\ \A x \in Pages \ {pg} : delta'[x] = delta[x]
       /\ delta'[pg] = IF hdr.mode = "stalled" /\ pg \notin table THEN None ELSE delta[pg]
       /\ \A x \in Pages \ {pg} : dirty'[p][x] = dirty[p][x]
       /\ dirty'[p][pg] # None
  BY <1>2, <1>3, <1>5, <1>10, MarkedIs DEF ContentsOK
<1>15. \A x \in Pages : delta'[x] = delta[x]
  BY <1>13, <1>14 DEF MergedBy
<1>16. \A x \in Pages : InMain(x)' <=> InMain(x)
  BY <1>5, <1>14 DEF InMain
<1>17. \A x \in Pages \ th'[m].todo : InMain(x)' \/ dirty'[m][x] # None
  <2> SUFFICES ASSUME NEW x \in Pages \ th'[m].todo PROVE InMain(x)' \/ dirty'[m][x] # None
    OBVIOUS
  <2>1. CASE x = pg
    BY <1>12, <1>14, <2>1
  <2>2. CASE x # pg
    <3>1. InMain(x) \/ dirty[m][x] # None
      BY <1>2, <1>9, <1>12, <1>13, <2>2 DEF MergedBy
    <3> QED BY <1>12, <1>14, <1>16, <2>2, <3>1
  <2> QED BY <2>1, <2>2
<1>18. MergeOK(m)'
  <2>1. hdr'.mode = "merge"
    BY <1>13, <1>14 DEF MergedBy
  <2>2. \A x \in Pages : delta'[x] # None /\ delta'[x].scn = hdr'.scn => InMain(x)'
    BY <1>13, <1>14, <1>15, <1>16 DEF MergedBy
  <2>3. th'[m].op = "end3" => \A x \in Pages : InMain(x)'
    BY <1>9, <1>12, <1>13, <1>16 DEF MergedBy
  <2> QED BY <1>9, <1>12, <1>17, <2>1, <2>2, <2>3 DEF MergeOK, MergedBy
<1>19. MakersOK(m)'
  BY <1>9, <1>11, <1>12, MakersByOne DEF ContentsOK
<1> QED BY <1>11, <1>18, <1>19 DEF ContentsOK

\* A page that is written: its process knows the state, and nobody else has the page.
LEMMA WriterKnows ==
  ASSUME Typed, LocksOK, AllDirtyOK, NEW p \in Processes, NEW pg \in Pages, dirty[p][pg] # None
  PROVE  /\ bm[p].backup_state = hdr.mode /\ DirtyOK(p, pg)
         /\ dirty[p][pg] \in Buffer
         /\ LET d == dirty[p][pg]
            IN  /\ CopyOf(d) \in Copy /\ CopyOf(d) # None
                /\ CopyOf(d).v = d.v /\ CopyOf(d).scn = d.scn
                /\ Latest(pg, d.v)[pg] = d.v
                /\ \A x \in Pages \ {pg} : Latest(pg, d.v)[x] = latest[x]
                /\ Latest(pg, d.v) \in [Pages -> Nat]
                /\ ToDelta(p, d) <=> hdr.mode # "normal" /\ pg \in table
                /\ ToMain(p) <=> hdr.mode # "stalled"
<1>1. pg \in DirtyPages(p)
  BY DEF DirtyPages
<1>2. LocalReaders(p) /\ ~ At(p, "locking")
  BY <1>1 DEF LocalReaders, LocksOK, LockOK
<1>3. bm[p].backup_state = hdr.mode /\ DirtyOK(p, pg)
  BY <1>2, ReaderKnows DEF AllDirtyOK
<1>4. PICK d : d = dirty[p][pg]
  OBVIOUS
<1>5. d \in Buffer
  BY <1>4 DEF Typed, DirtyTyped
<1>6. d.v \in Nat /\ d.scn \in Nat
  BY <1>5 DEF Buffer
<1>7. /\ CopyOf(d) \in Copy /\ CopyOf(d).v = d.v /\ CopyOf(d).scn = d.scn
  BY <1>6 DEF CopyOf, Copy
<1>8. CopyOf(d) # None
  BY <1>7, BackupAssumption DEF Copy
<1>9. latest \in [Pages -> Nat] /\ latest[pg] <= d.v
  BY <1>3, <1>4 DEF Typed, FilesOK, DirtyOK
<1>10. /\ Latest(pg, d.v) \in [Pages -> Nat]
       /\ Latest(pg, d.v)[pg] = d.v /\ \A x \in Pages \ {pg} : Latest(pg, d.v)[x] = latest[x]
  BY <1>6, <1>9 DEF Latest
<1>11. hdr.mode \in {"normal", "merge", "stalled"}
  BY DEF Typed, FilesOK, Modes
<1>12. ToDelta(p, d) <=> hdr.mode # "normal" /\ pg \in table
  <2>1. /\ hdr.mode # "normal" => (d.diff <=> pg \in table)
        /\ hdr.mode = "stalled" => pg \in table
    BY <1>3, <1>4 DEF DirtyOK
  <2> QED BY <1>3, <1>11, <2>1 DEF ToDelta
<1>13. ToMain(p) <=> hdr.mode # "stalled"
  BY <1>3 DEF ToMain
<1> QED BY <1>3, <1>4, <1>5, <1>7, <1>8, <1>10, <1>12, <1>13

\* Page pg, at version and SCN of copy c, has come to the files that it belongs to,
\* or to the difference file alone during a merge.
LEMMA WrittenCurrent ==
  ASSUME FilesOK, FilesCurrent, NEW pg \in Pages, NEW c \in Copy, c # None,
         c.v <= version[pg], c.scn = hdr.scn,
         latest'[pg] = c.v, \A x \in Pages \ {pg} : latest'[x] = latest[x],
         delta' = (IF hdr.mode # "normal" /\ pg \in table THEN [delta EXCEPT ![pg] = c] ELSE delta),
         \/ main' = (IF hdr.mode # "stalled" THEN [main EXCEPT ![pg] = c] ELSE main)
         \/ main' = main /\ hdr.mode # "normal" /\ pg \in table,
         hdr.mode = "stalled" => pg \in table,
         UNCHANGED <<hdr, table, version>>
  PROVE  FilesCurrent'
<1>1. main \in [Pages -> Copy] /\ delta \in [Pages -> Copy \union {None}] /\ hdr.scn \in Nat
  BY DEF FilesOK
<1>2. \A x \in Pages \ {pg} : main'[x] = main[x] /\ delta'[x] = delta[x]
  BY <1>1
<1>3. hdr.mode # "normal" /\ pg \in table => delta'[pg] = c
  BY <1>1
<1>4. ~ (hdr.mode # "normal" /\ pg \in table) => main'[pg] = c
  BY <1>1
<1>5. DiskCurrent'
  <2> SUFFICES ASSUME NEW x \in Pages
               PROVE  latest'[x] = IF hdr.mode # "normal" /\ x \in table /\ delta'[x] # None
                                   THEN delta'[x].v ELSE main'[x].v
    BY DEF DiskCurrent
  <2>1. CASE x = pg
    BY <1>3, <1>4, <2>1
  <2>2. CASE x # pg
    <3>1. latest[x] = IF hdr.mode # "normal" /\ x \in table /\ delta[x] # None
                      THEN delta[x].v ELSE main[x].v
      BY DEF FilesCurrent, DiskCurrent
    <3> QED BY <1>2, <2>2, <3>1
  <2> QED BY <2>1, <2>2
<1>6. \A x \in Pages : latest'[x] <= version'[x]
  BY DEF FilesCurrent
<1>7. \A x \in Pages : delta'[x] # None => delta'[x].scn <= hdr'.scn
  <2> SUFFICES ASSUME NEW x \in Pages, delta'[x] # None PROVE delta'[x].scn <= hdr.scn
    OBVIOUS
  <2>1. CASE delta'[x] = c
    BY <1>1, <2>1
  <2>2. CASE delta'[x] = delta[x]
    BY <2>2 DEF FilesCurrent
  <2> QED BY <1>1, <1>2, <2>1, <2>2
<1> QED BY <1>5, <1>6, <1>7 DEF FilesCurrent

\* Buffers and threads when page pg of p has been written or is gone.
LEMMA WrittenBuffers ==
  ASSUME Typed, AllDirtyOK, AllFetchedOK, NEW p \in Processes, NEW pg \in Pages,
         dirty[p][pg] # None, \A x \in Pages \ {pg} : latest'[x] = latest[x],
         UNCHANGED <<hdr, table, version>>,
         \A q \in Processes, x \in Pages : dirty'[q][x] \in {None, dirty[q][x]},
         dirty'[p][pg] = None,
         \A q \in Processes : th'[q] = th[q] \/ th'[q].page = None
  PROVE  AllDirtyOK' /\ AllFetchedOK'
<1>1. \A q \in Processes \ {p} : dirty[q][pg] = None
  BY DEF AllDirtyOK, DirtyOK
<1>2. AllDirtyOK'
  <2> SUFFICES ASSUME NEW q \in Processes, NEW x \in Pages, dirty'[q][x] # None
               PROVE  DirtyOK(q, x)'
    BY DEF AllDirtyOK
  <2>1. dirty'[q][x] = dirty[q][x] /\ DirtyOK(q, x)
    BY DEF AllDirtyOK
  <2>2. x # pg
    BY <1>1, <2>1
  <2>3. \A r \in Processes \ {q} : dirty'[r][x] = None
    BY <2>1 DEF DirtyOK
  <2> QED BY <2>1, <2>2, <2>3 DEF DirtyOK
<1>3. AllFetchedOK'
  <2> SUFFICES ASSUME NEW q \in Processes, th'[q].page # None
               PROVE  FetchedOK(q)'
    BY DEF AllFetchedOK
  <2>1. th'[q] = th[q] /\ FetchedOK(q)
    BY DEF AllFetchedOK
  <2>2. th[q].page \in Pages \ {pg}
    BY <2>1, TypedParts DEF Thread, FetchedOK
  <2>3. \A r \in Processes : dirty'[r][th[q].page] = None
    BY <2>1, <2>2 DEF FetchedOK
  <2>4. \A r \in Processes : r # q => th'[r].page # th[q].page
    BY <2>1, <2>2, BackupAssumption DEF FetchedOK
  <2> QED BY <2>1, <2>2, <2>3, <2>4 DEF FetchedOK
<1> QED BY <1>2, <1>3

LEMMA write_pageContents ==
  ASSUME Typed, LocksOK, NEW m \in Processes, ContentsOK(m), NEW p \in Processes, write_page(p)
  PROVE  ContentsOK(m)'
<1>1. PICK pg \in Pages, b \in Buffer :
         /\ b = dirty[p][pg] /\ dirty[p][pg] # None
         /\ delta' = (IF ToDelta(p, b) THEN [delta EXCEPT ![pg] = CopyOf(b)] ELSE delta)
         /\ main' = (IF ToMain(p) THEN [main EXCEPT ![pg] = CopyOf(b)] ELSE main)
         /\ latest' = Latest(pg, b.v)
         /\ dirty'[p][pg] = None
         /\ \A x \in Pages \ {pg} : dirty'[p][x] = dirty[p][x]
         /\ \A q \in Processes \ {p} : dirty'[q] = dirty[q]
         /\ UNCHANGED <<hdr, table, rw, queue, bm, th, ast, endLock, version, deaths>>
  BY WrittenIs
<1>2. PICK c : c = CopyOf(b)
  OBVIOUS
<1>3. /\ DirtyOK(p, pg) /\ c \in Copy /\ c # None /\ c.v = b.v /\ c.scn = b.scn
      /\ Latest(pg, b.v)[pg] = b.v /\ \A x \in Pages \ {pg} : Latest(pg, b.v)[x] = latest[x]
      /\ ToDelta(p, b) <=> hdr.mode # "normal" /\ pg \in table
      /\ ToMain(p) <=> hdr.mode # "stalled"
  BY <1>1, <1>2, WriterKnows DEF ContentsOK
<1>4. /\ latest'[pg] = b.v /\ \A x \in Pages \ {pg} : latest'[x] = latest[x]
      /\ delta' = (IF hdr.mode # "normal" /\ pg \in table THEN [delta EXCEPT ![pg] = c] ELSE delta)
      /\ main' = (IF hdr.mode # "stalled" THEN [main EXCEPT ![pg] = c] ELSE main)
  BY <1>1, <1>2, <1>3
<1>5. c.v <= version[pg] /\ c.scn = hdr.scn /\ (hdr.mode = "stalled" => pg \in table)
  BY <1>1, <1>3 DEF DirtyOK
<1>6. FilesCurrent'
  <2>1. FilesOK /\ FilesCurrent /\ UNCHANGED <<hdr, table, version>>
    BY <1>1 DEF ContentsOK, Typed
  <2>2. c \in Copy /\ c # None /\ c.v = b.v
    BY <1>3
  <2>3. latest'[pg] = c.v /\ \A x \in Pages \ {pg} : latest'[x] = latest[x]
    BY <1>4, <2>2
  <2> QED BY <1>4, <1>5, <2>1, <2>2, <2>3, WrittenCurrent
<1>7. AllDirtyOK' /\ AllFetchedOK'
  <2>1. \A q \in Processes, x \in Pages : dirty'[q][x] \in {None, dirty[q][x]}
    BY <1>1
  <2> QED BY <1>1, <1>4, <2>1, WrittenBuffers DEF ContentsOK
<1>8. TablesOK(m)' /\ MakersOK(m)'
  BY <1>1 DEF ContentsOK, TablesOK, MakersOK
<1>9. MergeOK(m)'
  <2> SUFFICES ASSUME Merging(th[m]) PROVE MergedBy(m, th[m])'
    BY <1>1 DEF MergeOK
  <2>1. MergedBy(m, th[m])
    BY DEF ContentsOK, MergeOK
  <2>2. hdr.mode = "merge"
    BY <2>1 DEF MergedBy
  <2>3. InMain(pg)'
    BY <1>3, <1>4, <2>2 DEF InMain, Typed, FilesOK
  <2>4. \A x \in Pages : InMain(x) => InMain(x)'
    BY <1>4, <2>2, <2>3 DEF InMain, Typed, FilesOK
  <2>5. \A x \in Pages \ {pg} : delta'[x] = delta[x] /\ dirty'[m][x] = dirty[m][x]
    BY <1>1, <1>4 DEF Typed, FilesOK
  <2>6. \A x \in Pages : delta'[x] # None /\ delta'[x].scn = hdr.scn => InMain(x)'
    BY <2>1, <2>3, <2>4, <2>5 DEF MergedBy
  <2>7. Stage(th[m]) \in {"e_merge", "e_page", "e_mark"} =>
           \A x \in Pages \ th[m].todo : InMain(x)' \/ dirty'[m][x] # None
    BY <2>1, <2>3, <2>4, <2>5 DEF MergedBy
  <2>8. Stage(th[m]) = "e_page" /\ th[m].buf.scn = hdr.scn => InMain(th[m].page)'
    <3>1. Stage(th[m]) = "e_page" => th[m].page \in Pages
      <4>1. th[m] \in Thread /\ ThreadOK(th[m])
        BY TypedParts
      <4>2. Stage(th[m]) = "e_page" => th[m].page # None
        BY <4>1 DEF ThreadOK, Latched
      <4> QED BY <4>1, <4>2 DEF Thread
    <3>2. Stage(th[m]) = "e_page" /\ th[m].buf.scn = hdr.scn => InMain(th[m].page)
      BY <2>1 DEF MergedBy
    <3> QED BY <1>1, <2>4, <3>1, <3>2 DEF InMain
  <2>9. th[m].op = "end3" => \A x \in Pages : InMain(x)'
    BY <2>1, <2>4 DEF MergedBy
  <2> QED BY <1>1, <2>2, <2>6, <2>7, <2>8, <2>9 DEF MergedBy
<1> QED BY <1>6, <1>7, <1>8, <1>9 DEF ContentsOK

\* The maker dies.
LEMMA GoneContents ==
  ASSUME Typed, NEW m \in Processes, OneMaker(m), ContentsOK(m), NEW p \in Processes, Gone(p),
         UNCHANGED <<hdr, table>>
  PROVE  p = m /\ TablesOK(m)' /\ MakersOK(m)' /\ MergeOK(m)'
<1>1. /\ OnlyManager(p) /\ bm'[p] = NewManager /\ th'[p] = OutThread
      /\ \A q \in Processes \ {p} : th'[q] = th[q] /\ p \in Mortal
  BY GoneIs
<1>2. p = m
  BY DEF Gone, OneMaker
<1>3. TableFor(m, p, NewManager, hdr, table)
  <2>1. hdr.scn \in Nat
    BY DEF Typed, FilesOK
  <2>2. Known(NewManager) = {}
    BY NewIs DEF Known
  <2> QED BY <1>2, <2>1, <2>2, NewIs DEF TableFor
<1>4. TablesOK(m)'
  BY <1>1, <1>3, TablesByOne DEF ContentsOK
<1>5. Stage(th'[m]) = "out" /\ ~ bm'[m].master
  BY <1>1, <1>2, OutThreadIs, NewIs
<1>6. MakersOK(m)'
  BY <1>1, <1>2, <1>5, MakersByOne DEF ContentsOK, OnlyManager
<1>7. MergeOK(m)'
  BY <1>5 DEF MergeOK, Merging, Writing
<1> QED BY <1>2, <1>4, <1>6, <1>7

LEMMA DieContents ==
  ASSUME Typed, NEW m \in Processes, OneMaker(m), ContentsOK(m), NEW p \in Processes, Die(p)
  PROVE  ContentsOK(m)'
<1>1. Gone(p) /\ UNCHANGED <<hdr, main, delta, table, latest>>
  BY DEF Die, disk
<1>2. p = m /\ TablesOK(m)' /\ MakersOK(m)' /\ MergeOK(m)'
  BY <1>1, GoneContents
<1>3. /\ th'[p] = OutThread /\ (\A q \in Processes \ {p} : th'[q] = th[q])
      /\ (\A pg \in Pages : dirty'[p][pg] = None)
      /\ (\A q \in Processes \ {p} : dirty'[q] = dirty[q]) /\ version' = version
  BY <1>1, GoneIs
<1>4. FilesCurrent'
  BY <1>1, <1>3, SameCurrent DEF ContentsOK
<1>5. AllDirtyOK'
  BY <1>1, <1>3 DEF ContentsOK, AllDirtyOK, DirtyOK
<1>6. AllFetchedOK'
  <2> SUFFICES ASSUME NEW q \in Processes, th'[q].page # None
               PROVE  FetchedOK(q)'
    BY DEF AllFetchedOK
  <2>1. q # p /\ th'[q] = th[q] /\ FetchedOK(q)
    BY <1>3, OutThreadIs DEF ContentsOK, AllFetchedOK
  <2>2. th[q].page \in Pages
    BY <2>1, TypedParts DEF Thread
  <2>3. \A r \in Processes : dirty'[r][th[q].page] = None
    BY <1>3, <2>1, <2>2 DEF FetchedOK
  <2>4. \A r \in Processes : r # q => th'[r].page # th[q].page
    BY <1>3, <2>1, <2>2, OutThreadIs, BackupAssumption DEF FetchedOK
  <2> QED BY <1>1, <2>1, <2>3, <2>4 DEF FetchedOK
<1> QED BY <1>2, <1>4, <1>5, <1>6 DEF ContentsOK

\* The maker dies when it has written to the difference file.
LEMMA DieWritingContents ==
  ASSUME Typed, LocksOK, NEW m \in Processes, OneMaker(m), ContentsOK(m), NEW p \in Processes,
         DieWriting(p)
  PROVE  ContentsOK(m)'
<1>1. Gone(p) /\ UNCHANGED <<hdr, main, table>>
  BY DEF DieWriting
<1>2. PICK pg \in DirtyPages(p) :
         LET b == dirty[p][pg]
         IN  /\ ToDelta(p, b) /\ delta' = [delta EXCEPT ![pg] = CopyOf(b)]
             /\ latest' = Latest(pg, b.v)
  BY DEF DieWriting
<1>3. p = m /\ TablesOK(m)' /\ MakersOK(m)' /\ MergeOK(m)'
  BY <1>1, GoneContents
<1>4. /\ th'[p] = OutThread /\ (\A q \in Processes \ {p} : th'[q] = th[q])
      /\ (\A x \in Pages : dirty'[p][x] = None)
      /\ (\A q \in Processes \ {p} : dirty'[q] = dirty[q]) /\ version' = version
  BY <1>1, GoneIs
<1>5. pg \in Pages /\ dirty[p][pg] # None
  BY DEF DirtyPages
<1>6. PICK b : b = dirty[p][pg]
  OBVIOUS
<1>7. PICK c : c = CopyOf(b)
  OBVIOUS
<1>8. /\ DirtyOK(p, pg) /\ c \in Copy /\ c # None /\ c.v = b.v /\ c.scn = b.scn
      /\ Latest(pg, b.v)[pg] = b.v /\ \A x \in Pages \ {pg} : Latest(pg, b.v)[x] = latest[x]
      /\ ToDelta(p, b) <=> hdr.mode # "normal" /\ pg \in table
  BY <1>5, <1>6, <1>7, WriterKnows DEF ContentsOK
<1>9. /\ ToDelta(p, b) /\ delta' = [delta EXCEPT ![pg] = c] /\ latest' = Latest(pg, b.v)
  BY <1>2, <1>6, <1>7
<1>10. /\ hdr.mode # "normal" /\ pg \in table
       /\ latest'[pg] = c.v /\ \A x \in Pages \ {pg} : latest'[x] = latest[x]
       /\ delta' = (IF hdr.mode # "normal" /\ pg \in table THEN [delta EXCEPT ![pg] = c] ELSE delta)
  BY <1>8, <1>9
<1>11. c.v <= version[pg] /\ c.scn = hdr.scn
  BY <1>6, <1>8 DEF DirtyOK
<1>12. FilesCurrent'
  BY <1>1, <1>4, <1>5, <1>8, <1>10, <1>11, WrittenCurrent DEF ContentsOK, Typed
<1>13. AllDirtyOK' /\ AllFetchedOK'
  <2>1. \A q \in Processes, x \in Pages : dirty'[q][x] \in {None, dirty[q][x]}
    BY <1>4
  <2>2. \A q \in Processes : th'[q] = th[q] \/ th'[q].page = None
    BY <1>4, OutThreadIs
  <2> QED BY <1>1, <1>4, <1>5, <1>10, <2>1, <2>2, WrittenBuffers DEF ContentsOK
<1> QED BY <1>3, <1>12, <1>13 DEF ContentsOK

-----------------------------------------------------------------------------
(* The contents: the state is changed.                                     *)

\* Nobody has a dirty page where the state lock is held for writing, and the maker has
\* the header page.
LEMMA LockedIs ==
  ASSUME Typed, LocksOK, NEW m \in Processes, ContentsOK(m), NEW p \in Processes,
         At(p, "g_locked")
  PROVE  /\ p = m /\ Stage(th[p]) = "g_locked"
         /\ bm[p].backup_state = hdr.mode /\ bm[p].current_scn = hdr.scn
         /\ \A q \in Processes : DirtyPages(q) = {}
         /\ th[p].buf \in Copy /\ th[p].buf.v = latest[HeaderPage]
<1>1. Stage(th[p]) = "g_locked"
  BY StageIs
<1>2. p = m
  BY <1>1, MakerIs DEF ContentsOK, Makers, Making, Writing
<1>3. rw[p].lck_physical = "write" /\ rw[p].want \notin {"read", "write"}
  BY DEF LocksOK, LockOK, At
<1>4. rw[p].want = "none"
  BY <1>3, TypedParts DEF RWLock, Levels
<1>5. bm[p].backup_state = hdr.mode /\ bm[p].current_scn = hdr.scn
  BY <1>3, <1>4 DEF LocksOK, LockOK
<1>6. ASSUME NEW q \in Processes PROVE DirtyPages(q) = {}
  <2>1. CASE q = p
    BY <1>1, <2>1 DEF LocksOK, LockOK, Writing
  <2>2. CASE q # p
    <3>1. rw[q].lck_physical = "none"
      BY <1>3, <2>2 DEF LocksOK, Compatible
    <3>2. LocalReaders(q) => At(q, "locking")
      BY <3>1 DEF LocksOK, LockOK
    <3> QED BY <3>2 DEF LocalReaders, LocksOK, LockOK
  <2> QED BY <2>1, <2>2
<1>7. th[p] \in Thread /\ ThreadOK(th[p])
  BY TypedParts
<1>8. th[p].page = HeaderPage /\ th[p].buf # None /\ HeaderPage # None
  BY <1>1, <1>7, BackupAssumption DEF ThreadOK, Writing, Loaded, Latched
<1>9. th[p].buf \in Copy
  BY <1>7, <1>8 DEF Thread
<1>10. th[p].buf.v = latest[HeaderPage]
  BY <1>1, <1>8 DEF ContentsOK, AllFetchedOK, FetchedOK, Loaded, Latched, Writing
<1> QED BY <1>1, <1>2, <1>5, <1>6, <1>9, <1>10

\* Buffers and threads when the maker has given the header page back.
LEMMA ChangedBuffers ==
  ASSUME Typed, LocksOK, NEW m \in Processes, ContentsOK(m), NEW p \in Processes,
         At(p, "g_locked"), UNCHANGED <<dirty, latest>>, th'[p].page = None,
         \A q \in Processes \ {p} : th'[q] = th[q]
  PROVE  AllDirtyOK' /\ AllFetchedOK'
<1>1. \A q \in Processes, pg \in Pages : dirty'[q][pg] = None
  BY LockedIs DEF DirtyPages
<1>2. AllDirtyOK'
  BY <1>1 DEF AllDirtyOK
<1>3. AllFetchedOK'
  BY FetchedByOne DEF ContentsOK
<1> QED BY <1>2, <1>3

\* The operation ends with a change of the state, or fails.
LEMMA ChangedContents ==
  ASSUME Typed, LocksOK, NEW m \in Processes, ContentsOK(m), NEW p \in Processes,
         At(p, "g_locked"), NEW b \in Manager, Finished(bm[p], b),
         unlockStateWrite(p, [bm EXCEPT ![p] = b]), UNCHANGED <<dirty, latest>>,
         th' = [th EXCEPT ![p] = NewThread], FilesCurrent', TableFor(m, p, b, hdr', table'),
         \A q \in Processes \ {p} : TableFor(m, q, bm[q], hdr', table')
  PROVE  ContentsOK(m)'
<1>1. PICK B : B = [bm EXCEPT ![p] = b]
  OBVIOUS
<1>2. AllocOK(b) /\ b.stateBlocking = bm[p].stateBlocking /\ ~ b.master
  BY DEF Finished
<1>3. Changed(B) /\ B[p] = b /\ \A q \in Processes \ {p} : B[q] = bm[q]
  <2>1. /\ Changed([bm EXCEPT ![p] = b]) /\ [bm EXCEPT ![p] = b][p] = b
        /\ \A q \in Processes \ {p} : [bm EXCEPT ![p] = b][q] = bm[q]
    BY <1>2, ChangedOne DEF Typed
  <2> QED BY <1>1, <2>1
<1>4. unlockStateWrite(p, B)
  BY <1>1
<1>5. SameTable(b, bm'[p]) /\ \A q \in Processes \ {p} : bm'[q] = bm[q]
  BY <1>3, <1>4, UnlockStateWriteIs
<1>6. TableFor(m, p, bm'[p], hdr', table')
  <2>1. PICK c : c = bm'[p]
    OBVIOUS
  <2>2. PICK h : h = hdr'
    OBVIOUS
  <2>3. PICK T : T = table'
    OBVIOUS
  <2>4. SameAlloc(b, c) /\ TableFor(m, p, b, h, T)
    BY <1>5, <2>1, <2>2, <2>3 DEF SameTable, SameAlloc
  <2>5. TableFor(m, p, c, h, T)
    BY <2>4, TableKept
  <2> QED BY <2>1, <2>2, <2>3, <2>5
<1>7. TablesOK(m)'
  BY <1>5, <1>6 DEF TablesOK
<1>8. th'[p] = NewThread /\ \A q \in Processes \ {p} : th'[q] = th[q]
  BY ThreadDone DEF Typed
<1>9. Stage(th'[p]) = "idle" /\ th'[p].page = None
  BY <1>8, NewThreadIs
<1>10. AllDirtyOK' /\ AllFetchedOK'
  BY <1>8, <1>9, ChangedBuffers
<1>11. p = m
  BY LockedIs
<1>12. MergeOK(m)'
  BY <1>9, <1>11 DEF MergeOK, Merging, Writing
<1>13. MakersOK(m)'
  BY <1>5, <1>8, <1>9, <1>11, MakersByOne DEF ContentsOK
<1> QED BY <1>7, <1>10, <1>12, <1>13 DEF ContentsOK

\* The difference file is empty and all is in the main file.
LEMMA MainCurrent ==
  ASSUME FilesOK, FilesCurrent, NEW p \in Processes, NEW s \in Modes, NEW n \in Nat,
         WriteHeader(p, s, n), th[p].buf.v = latest[HeaderPage],
         \A pg \in Pages : main[pg].v = latest[pg],
         table' = {}, delta' = Clean, UNCHANGED <<version, latest>>
  PROVE  FilesCurrent'
<1>1. main' = [main EXCEPT ![HeaderPage] = [v |-> th[p].buf.v, scn |-> n]]
  BY DEF WriteHeader
<1>2. \A pg \in Pages : main'[pg].v = latest[pg]
  <2>1. PICK c : c = [v |-> th[p].buf.v, scn |-> n]
    OBVIOUS
  <2>2. c.v = latest[HeaderPage]
    BY <2>1
  <2>3. main' = [main EXCEPT ![HeaderPage] = c]
    BY <1>1, <2>1
  <2> QED BY <2>2, <2>3 DEF FilesOK
<1>3. DiskCurrent'
  BY <1>2 DEF DiskCurrent
<1>4. \A pg \in Pages : delta'[pg] = None
  BY CleanIs
<1> QED BY <1>3, <1>4 DEF FilesCurrent

LEMMA beginBackupContents ==
  ASSUME Typed, LocksOK, NEW m \in Processes, ContentsOK(m), NEW p \in Processes, beginBackup(p)
  PROVE  ContentsOK(m)'
<1>1. PICK n \in Nat : n = hdr.scn + 1
  BY DEF Typed, FilesOK
<1>2. PICK B : B = [Finish(bm, p) EXCEPT ![p].backup_state = "stalled", ![p].current_scn = n]
  OBVIOUS
<1>3. /\ At(p, "g_locked") /\ WriteHeader(p, "stalled", n) /\ table' = {} /\ delta' = Clean
      /\ unlockStateWrite(p, B) /\ th' = [th EXCEPT ![p] = NewThread]
      /\ UNCHANGED <<dirty, version, latest>> /\ bm[p].backup_state = "normal"
  BY <1>1, <1>2 DEF beginBackup
<1>4. PICK b \in Manager :
         /\ Begun(p, n) = [bm EXCEPT ![p] = b]
         /\ Finished(bm[p], b) /\ b.alloc_table = bm[p].alloc_table
         /\ b.alloc_physical = bm[p].alloc_physical /\ b.allocIsValid = bm[p].allocIsValid
         /\ b.backup_state = "stalled" /\ b.current_scn = n
  BY BegunIs DEF Typed
<1>5. unlockStateWrite(p, [bm EXCEPT ![p] = b])
  BY <1>2, <1>3, <1>4 DEF Begun
<1>6. PICK h : h = hdr'
  OBVIOUS
<1>7. h.mode = "stalled" /\ h.scn = n
  BY <1>3, <1>6, HeaderIs
<1>8. /\ p = m /\ hdr.mode = "normal" /\ bm[p].current_scn = hdr.scn
      /\ th[p].buf.v = latest[HeaderPage]
  BY <1>3, LockedIs
<1>9. FilesCurrent'
  <2>1. \A pg \in Pages : main[pg].v = latest[pg]
    BY <1>8 DEF ContentsOK, FilesCurrent, DiskCurrent
  <2> QED BY <1>3, <1>8, <2>1, MainCurrent DEF Typed, ContentsOK, Modes
<1>10. hdr.scn \in Nat /\ \A q \in Processes : TableFor(m, q, bm[q], hdr, table)
  BY DEF Typed, FilesOK, ContentsOK, TablesOK
<1>11. TableFor(m, p, b, h, {})
  <2>1. b.alloc_table = None /\ b.alloc_physical = "none"
    <3>1. bm[p].alloc_table = None
      BY <1>8, <1>10 DEF TableFor
    <3> QED BY <1>4, <3>1 DEF Finished, AllocOK
  <2>2. Known(b) = {}
    BY <2>1 DEF Known
  <2> QED BY <1>4, <1>7, <1>8, <2>1, <2>2 DEF TableFor
<1>12. ASSUME NEW q \in Processes \ {p} PROVE TableFor(m, q, bm[q], h, {})
  <2>1. PICK c : c = bm[q]
    OBVIOUS
  <2>2. c \in Manager /\ AllocOK(c) /\ TableFor(m, q, c, hdr, table)
    BY <1>10, <2>1, TypedParts
  <2>3. c.current_scn \in Nat /\ c.current_scn <= hdr.scn /\ c.current_scn < n
    BY <1>1, <1>10, <2>2 DEF Manager, TableFor
  <2>4. Fresh(c, h) => c.current_scn = hdr.scn
    BY <1>1, <1>7, <1>10, <2>3 DEF Fresh
  <2>5. Fresh(c, h) => c.alloc_table = None
    BY <1>8, <2>2, <2>4 DEF TableFor
  <2>6. Fresh(c, h) => Known(c) = {}
    BY <2>5 DEF Known
  <2>7. q # m => (c.allocIsValid => c.alloc_physical # "none")
    BY <2>2 DEF TableFor
  <2>8. TableFor(m, q, c, h, {})
    BY <1>7, <1>8, <2>3, <2>5, <2>6, <2>7 DEF TableFor
  <2> QED BY <2>1, <2>8
<1>13. TableFor(m, p, b, hdr', table')
  BY <1>3, <1>6, <1>11
<1>14. \A q \in Processes \ {p} : TableFor(m, q, bm[q], hdr', table')
  BY <1>3, <1>6, <1>12
<1> QED BY <1>3, <1>4, <1>5, <1>9, <1>13, <1>14, ChangedContents

LEMMA BeginFailsContents ==
  ASSUME Typed, LocksOK, NEW m \in Processes, ContentsOK(m), NEW p \in Processes, BeginFails(p)
  PROVE  ContentsOK(m)'
<1>1. PICK B : B = [Finish(bm, p) EXCEPT ![p].backup_state = "unknown"]
  OBVIOUS
<1>2. /\ At(p, "g_locked") /\ unlockStateWrite(p, B) /\ th' = [th EXCEPT ![p] = NewThread]
      /\ UNCHANGED <<hdr, main, dirty, version, latest>> /\ table' = {} /\ delta' = Clean
      /\ bm[p].backup_state = "normal"
  BY <1>1 DEF BeginFails
<1>3. PICK b \in Manager :
         /\ B = [bm EXCEPT ![p] = b]
         /\ Finished(bm[p], b) /\ b.alloc_table = bm[p].alloc_table
         /\ b.alloc_physical = bm[p].alloc_physical /\ b.allocIsValid = bm[p].allocIsValid
         /\ b.current_scn = bm[p].current_scn
  BY <1>1, FailedIs DEF Typed
<1>4. unlockStateWrite(p, [bm EXCEPT ![p] = b])
  BY <1>2, <1>3
<1>5. hdr.mode = "normal"
  BY <1>2, LockedIs
<1>6. FilesCurrent'
  <2>1. \A pg \in Pages : delta'[pg] = None
    BY <1>2, CleanIs
  <2> QED BY <1>2, <1>5, <2>1 DEF ContentsOK, FilesCurrent, DiskCurrent
<1>7. \A q \in Processes : TableFor(m, q, bm[q], hdr, {})
  BY <1>5 DEF ContentsOK, TablesOK, TableFor, Fresh
<1>8. TableFor(m, p, b, hdr, {})
  BY <1>3, <1>7, TableKept DEF SameAlloc
<1>9. TableFor(m, p, b, hdr', table') /\ \A q \in Processes \ {p} : TableFor(m, q, bm[q], hdr', table')
  BY <1>2, <1>7, <1>8
<1> QED BY <1>2, <1>3, <1>4, <1>6, <1>9, ChangedContents

LEMMA SetNormalContents ==
  ASSUME Typed, LocksOK, NEW m \in Processes, ContentsOK(m), NEW p \in Processes, SetNormal(p)
  PROVE  ContentsOK(m)'
<1>1. PICK n \in Nat : n = bm[p].current_scn + 1
  BY TypedParts DEF Manager
<1>2. PICK B : B = [Finish(bm, p) EXCEPT ![p] =
                      [DropAlloc(@) EXCEPT !.backup_state = "normal", !.current_scn = n]]
  OBVIOUS
<1>3. /\ At(p, "g_locked") /\ WriteHeader(p, "normal", n) /\ table' = {} /\ delta' = Clean
      /\ unlockStateWrite(p, B) /\ th' = [th EXCEPT ![p] = NewThread]
      /\ UNCHANGED <<dirty, version, latest>> /\ th[p].op = "end3"
  BY <1>1, <1>2 DEF SetNormal
<1>4. PICK b \in Manager :
         /\ Ended(p, n) = [bm EXCEPT ![p] = b] /\ Finished(bm[p], b)
         /\ b.alloc_table = None /\ b.alloc_physical = "none"
         /\ b.backup_state = "normal" /\ b.current_scn = n
  BY EndedIs DEF Typed
<1>5. unlockStateWrite(p, [bm EXCEPT ![p] = b])
  BY <1>2, <1>3, <1>4 DEF Ended
<1>6. PICK h : h = hdr'
  OBVIOUS
<1>7. h.mode = "normal" /\ h.scn = n
  BY <1>3, <1>6, HeaderIs
<1>8. /\ p = m /\ Stage(th[p]) = "g_locked" /\ bm[p].current_scn = hdr.scn
      /\ th[p].buf.v = latest[HeaderPage]
  BY <1>3, LockedIs
<1>9. FilesCurrent'
  <2>1. Merging(th[m])
    BY <1>3, <1>8 DEF Merging, Writing
  <2>2. \A pg \in Pages : main[pg].v = latest[pg]
    BY <1>3, <1>8, <2>1 DEF ContentsOK, MergeOK, MergedBy, InMain
  <2> QED BY <1>3, <1>8, <2>2, MainCurrent DEF Typed, ContentsOK, Modes
<1>10. hdr.scn \in Nat /\ \A q \in Processes : TableFor(m, q, bm[q], hdr, table)
  BY DEF Typed, FilesOK, ContentsOK, TablesOK
<1>11. TableFor(m, p, b, h, {})
  BY <1>1, <1>4, <1>7, <1>8 DEF TableFor, Fresh
<1>12. ASSUME NEW q \in Processes \ {p} PROVE TableFor(m, q, bm[q], h, {})
  <2>1. PICK c : c = bm[q]
    OBVIOUS
  <2>2. c \in Manager /\ TableFor(m, q, c, hdr, table)
    BY <1>10, <2>1, TypedParts
  <2>3. c.current_scn \in Nat /\ c.current_scn <= hdr.scn /\ c.current_scn < n
    BY <1>1, <1>8, <1>10, <2>2 DEF Manager, TableFor
  <2>4. q # m => (c.allocIsValid => c.alloc_physical # "none")
    BY <2>2 DEF TableFor
  <2>5. TableFor(m, q, c, h, {})
    BY <1>7, <1>8, <2>3, <2>4 DEF TableFor, Fresh
  <2> QED BY <2>1, <2>5
<1>13. TableFor(m, p, b, hdr', table')
  BY <1>3, <1>6, <1>11
<1>14. \A q \in Processes \ {p} : TableFor(m, q, bm[q], hdr', table')
  BY <1>3, <1>6, <1>12
<1> QED BY <1>3, <1>4, <1>5, <1>9, <1>13, <1>14, ChangedContents

\* The tables as the merge begins: the SCN is the next one.
LEMMA MergeTables ==
  ASSUME NEW m \in Processes, TablesOK(m), FilesOK, ManagersOK, NEW p \in Processes, p = m,
         NEW h \in Headers, h.mode = "merge", hdr.scn \in Nat, h.scn = hdr.scn + 1,
         hdr.mode # "normal", bm[p].current_scn = hdr.scn, NEW b \in Manager,
         b.current_scn = h.scn, b.alloc_table = Extended(bm[p]).alloc_table,
         b.alloc_physical = bm[p].alloc_physical, b.allocIsValid = Extended(bm[p]).allocIsValid
  PROVE  \A q \in Processes : TableFor(m, q, [bm EXCEPT ![p] = b][q], h, table)
<1>1. PICK a : a = bm[p]
  OBVIOUS
<1>2. a \in Manager /\ AllocOK(a) /\ TableFor(m, p, a, hdr, table) /\ Fresh(a, hdr)
  BY <1>1 DEF TablesOK, ManagersOK, Managers, Fresh
<1>3. PICK e : e = Extended(a)
  OBVIOUS
<1>4. /\ Known(e) = Known(a)
      /\ \/ a.alloc_table # None /\ e = a
         \/ a.alloc_table = None /\ ~ e.allocIsValid
  BY <1>2, <1>3, ExtendedIs
<1>5. Known(b) = Known(a) /\ b.alloc_physical = a.alloc_physical /\ b.allocIsValid = e.allocIsValid
  <2>1. Known(b) = Known(e)
    BY <1>1, <1>3 DEF Known
  <2> QED BY <1>1, <1>3, <1>4, <2>1
<1>6. b.allocIsValid => Known(b) = table
  <2>1. ASSUME b.allocIsValid PROVE a.allocIsValid /\ a.alloc_table # None
    BY <1>4, <1>5, <2>1
  <2>2. hdr.mode \in {"merge", "stalled"}
    BY DEF FilesOK, Modes
  <2> QED BY <1>2, <1>5, <2>1, <2>2 DEF TableFor
<1>7. TableFor(m, p, b, h, table)
  <2>1. Known(b) \subseteq table /\ (b.alloc_physical # "none" => Known(b) = table)
    BY <1>2, <1>5 DEF TableFor
  <2> QED BY <1>6, <2>1 DEF TableFor, Headers
<1>8. ASSUME NEW q \in Processes \ {p} PROVE TableFor(m, q, bm[q], h, table)
  <2>1. PICK c : c = bm[q]
    OBVIOUS
  <2>2. c \in Manager /\ TableFor(m, q, c, hdr, table)
    BY <2>1 DEF TablesOK, ManagersOK, Managers
  <2>3. c.current_scn \in Nat /\ c.current_scn <= hdr.scn
    BY <2>2 DEF Manager, TableFor
  <2>4. Fresh(c, h) => Fresh(c, hdr)
    BY <2>3 DEF Fresh
  <2>5. c.allocIsValid => c.alloc_physical # "none"
    BY <2>2 DEF TableFor
  <2>6. TableFor(m, q, c, h, table)
    BY <2>2, <2>3, <2>4, <2>5 DEF TableFor
  <2> QED BY <2>1, <2>6
<1>9. PICK A : A = [bm EXCEPT ![p] = b]
  OBVIOUS
<1>10. A[p] = b /\ \A q \in Processes \ {p} : A[q] = bm[q]
  BY <1>9 DEF ManagersOK, Managers
<1>11. \A q \in Processes : TableFor(m, q, A[q], h, table)
  BY <1>7, <1>8, <1>10
<1> QED BY <1>9, <1>11

LEMMA SetMergeContents ==
  ASSUME Typed, LocksOK, NEW m \in Processes, ContentsOK(m), NEW p \in Processes,
         At(p, "g_locked"), th[p].op \in {"end", "recover"}, Mergeable(p), SetMerge(p)
  PROVE  ContentsOK(m)'
<1> PICK n \in Nat, b \in Manager, A \in Managers, B \in Managers : MergeSet(p, n, b, A, B)
  BY SetMergeIs
<1>1. /\ n = bm[p].current_scn + 1
      /\ b.backup_state = "merge" /\ b.current_scn = n
      /\ b.alloc_table = Extended(bm[p]).alloc_table
      /\ b.alloc_physical = bm[p].alloc_physical
      /\ b.allocIsValid = Extended(bm[p]).allocIsValid
      /\ B = getPageIndex(A, p, HeaderPage) /\ Changed(A) /\ Changed(B) /\ Quiet(A, B)
      /\ WriteHeader(p, "merge", n)
      /\ delta' = IF HeaderPage \in Known(B[p])
                  THEN [delta EXCEPT ![HeaderPage] = [v |-> th[p].buf.v, scn |-> n]]
                  ELSE delta
      /\ unlockStateWrite(p, B)
      /\ th' = [th EXCEPT ![p].pc = "e_guard", ![p].page = None, ![p].buf = None]
      /\ UNCHANGED <<table, queue, dirty, ast, unlocking, endLock, version, latest, deaths>>
  BY DEF MergeSet
<1>2. A = [bm EXCEPT ![p] = b]
  BY DEF MergeSet
<1>3. A[p] = b /\ \A q \in Processes \ {p} : A[q] = bm[q]
  BY <1>2 DEF Typed, ManagersOK, Managers
<1>4. /\ A \in Managers /\ (\A q \in Processes : AllocOK(A[q])) /\ Changed(B) /\ Quiet(A, B)
      /\ B = getPageIndex(A, p, HeaderPage)
  BY <1>1, <1>2 DEF Changed
<1>5. PICK h : h = hdr'
  OBVIOUS
<1>6. h = [mode |-> "merge", scn |-> n]
  BY <1>1, <1>5 DEF WriteHeader
<1>7. h \in Headers /\ h.mode = "merge" /\ h.scn = n
  BY <1>6 DEF Headers, Modes
<1>8. /\ p = m /\ hdr.mode = bm[p].backup_state /\ bm[p].current_scn = hdr.scn
      /\ th[p].buf \in Copy /\ th[p].buf.v = latest[HeaderPage]
  BY LockedIs
<1>9. hdr.mode # "normal" /\ hdr.scn \in Nat /\ FilesOK /\ ManagersOK /\ TablesOK(m)
      /\ n = hdr.scn + 1
  BY <1>1, <1>8 DEF Mergeable, Typed, FilesOK, ContentsOK
<1>10. \A q \in Processes : TableFor(m, q, A[q], h, table)
  BY <1>1, <1>2, <1>7, <1>8, <1>9, MergeTables
<1>11. table \in SUBSET Pages /\ HeaderPage \in Pages
  BY <1>9, BackupAssumption DEF FilesOK
<1>12. /\ \A q \in Processes : TableFor(m, q, B[q], h, table)
       /\ HeaderPage \in Known(B[p]) <=> HeaderPage \in table
  <2>1. A[p].backup_state = h.mode /\ h.mode # "normal" /\ A[p].current_scn = h.scn
    BY <1>1, <1>3, <1>7
  <2>2. /\ \A q \in Processes : TableFor(m, q, getPageIndex(A, p, HeaderPage)[q], h, table)
        /\ HeaderPage \in Known(getPageIndex(A, p, HeaderPage)[p]) <=> HeaderPage \in table
    BY <1>4, <1>7, <1>10, <1>11, <2>1, IndexTables
  <2> QED BY <1>4, <2>2
<1>13. SameTable(B[p], bm'[p]) /\ \A q \in Processes \ {p} : bm'[q] = B[q]
  BY <1>1, <1>4, UnlockStateWriteIs
<1>14. TablesOK(m)'
  <2>1. PICK c : c = bm'[p]
    OBVIOUS
  <2>2. SameAlloc(B[p], c)
    BY <1>13, <2>1 DEF SameTable, SameAlloc
  <2>3. TableFor(m, p, c, h, table)
    BY <1>12, <2>2, TableKept
  <2>4. \A q \in Processes : TableFor(m, q, bm'[q], h, table)
    BY <1>12, <1>13, <2>1, <2>3
  <2> QED BY <1>1, <1>5, <2>4 DEF TablesOK
<1>15. PICK c : c = [v |-> th[p].buf.v, scn |-> n]
  OBVIOUS
<1>16. c \in Copy /\ c.v = latest[HeaderPage] /\ c.scn = n /\ c # None
  BY <1>8, <1>15, BackupAssumption DEF Copy
<1>17. /\ main' = [main EXCEPT ![HeaderPage] = c]
       /\ delta' = IF HeaderPage \in table THEN [delta EXCEPT ![HeaderPage] = c] ELSE delta
       /\ hdr'.mode = "merge" /\ hdr'.scn = n /\ table' = table /\ latest' = latest
       /\ version' = version /\ dirty' = dirty
  BY <1>1, <1>5, <1>7, <1>12, <1>15 DEF WriteHeader
<1>18. /\ main'[HeaderPage] = c /\ \A x \in Pages \ {HeaderPage} : main'[x] = main[x]
       /\ HeaderPage \in table => delta'[HeaderPage] = c
       /\ HeaderPage \notin table => delta'[HeaderPage] = delta[HeaderPage]
       /\ \A x \in Pages \ {HeaderPage} : delta'[x] = delta[x]
  BY <1>9, <1>11, <1>17 DEF FilesOK
<1>19. \A x \in Pages : delta[x] # None => delta[x].scn \in Nat /\ delta[x].scn < n
  BY <1>9 DEF ContentsOK, FilesCurrent, FilesOK, Copy
<1>20. FilesCurrent'
  <2>1. DiskCurrent'
    <3> SUFFICES ASSUME NEW x \in Pages
                 PROVE  latest[x] = IF x \in table /\ delta'[x] # None
                                    THEN delta'[x].v ELSE main'[x].v
      BY <1>17 DEF DiskCurrent
    <3>1. CASE x = HeaderPage
      BY <1>16, <1>18, <3>1
    <3>2. CASE x # HeaderPage
      <4>1. latest[x] = IF x \in table /\ delta[x] # None THEN delta[x].v ELSE main[x].v
        BY <1>9 DEF ContentsOK, FilesCurrent, DiskCurrent
      <4> QED BY <1>18, <3>2, <4>1
    <3> QED BY <3>1, <3>2
  <2>2. \A x \in Pages : delta'[x] # None => delta'[x].scn <= n
    BY <1>16, <1>18, <1>19
  <2> QED BY <1>17, <2>1, <2>2 DEF ContentsOK, FilesCurrent
<1>21. /\ Stage(th'[p]) = "e_guard" /\ th'[p].op = th[p].op /\ th'[p].page = None
       /\ \A q \in Processes \ {p} : th'[q] = th[q]
  BY <1>1, GuardedIs DEF Typed
<1>22. AllDirtyOK' /\ AllFetchedOK'
  BY <1>17, <1>21, ChangedBuffers
<1>23. MergeOK(m)'
  <2>1. InMain(HeaderPage)'
    BY <1>16, <1>17, <1>18 DEF InMain
  <2>2. \A x \in Pages : delta'[x] # None /\ delta'[x].scn = n => x = HeaderPage
    BY <1>18, <1>19
  <2>3. \A x \in Pages : delta'[x] # None /\ delta'[x].scn = hdr'.scn => InMain(x)'
    BY <1>17, <2>1, <2>2 DEF InMain
  <2> QED BY <1>8, <1>17, <1>21, <2>3 DEF MergeOK, MergedBy
<1>24. MakersOK(m)'
  <2>1. \A q \in Processes \ {p} : bm'[q].master = bm[q].master
    BY <1>3, <1>4, <1>13 DEF Quiet, SameState
  <2> QED BY <1>8, <1>21, <2>1, MakersByOne DEF ContentsOK
<1> QED BY <1>14, <1>20, <1>22, <1>23, <1>24 DEF ContentsOK

LEMMA EndLockedContents ==
  ASSUME Typed, LocksOK, NEW m \in Processes, ContentsOK(m), NEW p \in Processes, EndLocked(p)
  PROVE  ContentsOK(m)'
<1>1. At(p, "g_locked") /\ th[p].op \in {"end", "recover"}
      /\ ((Mergeable(p) /\ SetMerge(p)) \/ EndRefused(p))
  BY DEF EndLocked
<1> QED BY <1>1, SetMergeContents, EndRefusedContents

-----------------------------------------------------------------------------
(* The contents hold in every reachable state.                             *)

\* They are at the beginning.
LEMMA InitContents ==
  ASSUME Init, NEW m \in Processes
  PROVE  ContentsOK(m)
<1>1. ASSUME NEW p \in Processes
      PROVE  /\ bm[p] = NewManager /\ th[p] = NewThread
             /\ \A pg \in Pages : dirty[p][pg] = None
             /\ Stage(th[p]) = "idle" /\ th[p].page = None
  BY NewThreadIs, CleanIs DEF Init
<1>2. hdr.mode = "normal" /\ hdr.scn = 0
  BY DEF Init
<1>3. MakersOK(m)
  BY <1>1, NewIs DEF MakersOK, Makers, Making, Writing
<1>4. TablesOK(m)
  <2>1. Known(NewManager) = {}
    BY NewIs DEF Known
  <2> QED BY <1>1, <1>2, <2>1, NewIs DEF TablesOK, TableFor, Fresh
<1>5. AllDirtyOK /\ AllFetchedOK
  BY <1>1 DEF AllDirtyOK, AllFetchedOK
<1>6. FilesCurrent
  <2>1. \A pg \in Pages : delta[pg] = None /\ main[pg].v = 0 /\ latest[pg] = 0 /\ version[pg] = 0
    BY CleanIs DEF Init
  <2> QED BY <1>2, <2>1 DEF FilesCurrent, DiskCurrent
<1>7. MergeOK(m)
  BY <1>1 DEF MergeOK, Merging, Writing
<1> QED BY <1>3, <1>4, <1>5, <1>6, <1>7 DEF ContentsOK

\* Every step keeps them, when only m makes backups and dies.
LEMMA NextContents ==
  ASSUME Typed, LocksOK, NEW m \in Processes, OneMaker(m), ContentsOK(m), [Next]_vars
  PROVE  ContentsOK(m)'
<1>1. CASE UNCHANGED vars
  <2>1. UNCHANGED <<hdr, main, delta, table, bm, dirty, th, version, latest>>
    BY <1>1 DEF vars, disk
  <2>2. SameContents
    BY <2>1 DEF SameContents, SameAlloc
  <2> QED BY <2>1, <2>2, ContentsSame
<1>2. ASSUME NEW p \in Processes, PageStep(p) PROVE ContentsOK(m)'
  BY <1>2, CCH_fetchContents, CCH_fetch_pageContents, CCH_markContents, CCH_releaseContents,
     ModifyContents, write_pageContents DEF PageStep
<1>3. ASSUME NEW p \in Processes, StateLockStep(p) PROVE ContentsOK(m)'
  BY <1>3, GrantContents, lockReadContents, unlockStateReadContents, blockingAstHandlerContents,
     tryBeginWriteContents, lockWriteContents, WriteGrantedContents DEF StateLockStep
<1>4. ASSUME NEW p \in Processes, BackupStep(p) PROVE ContentsOK(m)'
  BY <1>4, StartBeginContents, StartEndContents, GuardFetchContents, CCH_fetch_pageContents,
     BeginRefusedContents, beginBackupContents, BeginFailsContents, CheckStateContents,
     EndLockedContents, MergeGuardContents, MergeAllocContents, MergeFetchContents,
     MergeMarkContents, MergePageContents, MergeSkipContents, MergeOverContents,
     SetNormalContents DEF BackupStep
<1>5. ASSUME NEW p \in Processes, ProcessStep(p) PROVE ContentsOK(m)'
  BY <1>5, DieContents, DieWritingContents, AttachContents, initializeAllocContents
  DEF ProcessStep
<1> QED BY <1>1, <1>2, <1>3, <1>4, <1>5 DEF Next

\* Nobody else makes a backup then.
LEMMA OneMasterIs ==
  ASSUME NEW m \in Processes, ContentsOK(m)
  PROVE  OneMaster
BY DEF ContentsOK, MakersOK, OneMaster

LEMMA ContentsKept ==
  ASSUME NEW m \in Processes, OneMaker(m)
  PROVE  Spec => [](Typed /\ LocksOK /\ ContentsOK(m))
<1>1. Init => Typed /\ LocksOK /\ ContentsOK(m)
  BY InitTyped, InitLocks, InitContents
<1>2. Typed /\ LocksOK /\ ContentsOK(m) /\ [Next]_vars => Typed' /\ LocksOK' /\ ContentsOK(m)'
  BY NextTyped, NextLocks, NextContents, OneMasterIs
<1> QED BY <1>1, <1>2, PTL DEF Spec

\* When one process makes the backups, and is the only one to die, the files alone have
\* the last version of every page written, at every moment of a backup and of its merge
\* (beginBackup, endBackup, write_page).
THEOREM FilesAreCurrent ==
  ASSUME NEW m \in Processes, OneMaker(m)
  PROVE  Spec => []DiskCurrent
<1>1. ContentsOK(m) => DiskCurrent
  BY DEF ContentsOK, FilesCurrent
<1> QED BY <1>1, ContentsKept, PTL

\* What a process reads under the state lock is the last version then, whatever it
\* remembers of the allocation table (getPageIndex, CCH_fetch_page).
THEOREM ReadersGetLatest ==
  ASSUME NEW m \in Processes, OneMaker(m)
  PROVE  Spec => []ReadsLatest
<1>1. Typed /\ LocksOK /\ ContentsOK(m) => ReadsLatest
  <2> SUFFICES ASSUME Typed, LocksOK, ContentsOK(m), NEW p \in Processes, LocalReaders(p),
                      ~ At(p, "locking"), NEW pg \in Pages
               PROVE  PageRead(Indexed(p, pg), p, pg).v = latest[pg]
    BY DEF ReadsLatest
  <2> QED BY ReaderKnows, ReadIs DEF ContentsOK, FilesCurrent
<1> QED BY <1>1, ContentsKept, PTL

\* A table that is said to be complete during a merge is the one in the difference file
\* (actualizeAlloc, getPageIndex).
THEOREM ValidTableComplete ==
  ASSUME NEW m \in Processes, OneMaker(m)
  PROVE  Spec => []AllocComplete
<1>1. Typed /\ LocksOK /\ ContentsOK(m) => AllocComplete
  <2> SUFFICES ASSUME Typed, LocksOK, ContentsOK(m), NEW p \in Processes, bm[p].allocIsValid,
                      bm[p].backup_state = hdr.mode, hdr.mode = "merge"
               PROVE  Known(bm[p]) = table
    BY DEF AllocComplete
  <2>1. bm[p].current_scn = hdr.scn /\ hdr.scn \in Nat
    BY DEF LocksOK, LockOK, Typed, FilesOK
  <2>2. TableFor(m, p, bm[p], hdr, table)
    BY DEF ContentsOK, TablesOK
  <2> QED BY <2>1, <2>2 DEF TableFor, Fresh
<1> QED BY <1>1, ContentsKept, PTL

\* The state is known to whoever reads or writes pages then, too.
THEOREM StateKnownToAll ==
  ASSUME NEW m \in Processes, OneMaker(m)
  PROVE  Spec => []StateKnown
<1>1. LocksOK => StateKnown
  BY DEF LocksOK, LockOK, StateKnown
<1> QED BY <1>1, ContentsKept, PTL
=============================================================================
