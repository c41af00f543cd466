-------------------------- MODULE PageCacheProofs --------------------------
(***************************************************************************)
(* Invariants of PageCache for any number of threads and pages, with writes*)
(* that fail and page locks given up at any moment.                        *)
(*                                                                         *)
(* Acyclic: only check_precedence adds a block, high above low.  A cycle   *)
(* through it would make low one of the pages above high, which the second *)
(* search has excluded, or which cannot be as no block has low above       *)
(* another page.                                                           *)
(*                                                                         *)
(* DirtyLocked: a page is marked by a worker that has it latched, and its  *)
(* lock is given up by an activation of down_grade that has it latched     *)
(* itself, or by one that could not write the page found in use.  So what  *)
(* has to be known is who owns each latch, that no two activations have    *)
(* taken the same one, and that a page found dirty has been modified       *)
(* (Touched), so that giving it up leaves a trace.                         *)
(***************************************************************************)
EXTENDS PageCache, SequenceTheorems, TLAPS

(* The precedence graph.                                                   *)

\* No block is added.
Shrinks == \A p \in Pages : Higher(p)' \subseteq Higher(p)

\* The pages above x are the least closed set.
LEMMA AboveClosed ==
  ASSUME blocks \in Seq(Precedence), NEW x \in Pages
  PROVE  /\ Above(x) \subseteq Pages
         /\ Higher(x) \subseteq Above(x)
         /\ \A p \in Above(x) : Higher(p) \subseteq Above(x)
<1>1. \A p \in Pages : Higher(p) \subseteq Pages
  BY CacheAssumption DEF Higher, Waits, Linked, Precedence
<1> QED BY <1>1 DEF Above

\* They belong to every closed set,
LEMMA AboveLeast ==
  ASSUME NEW x \in Pages, NEW S \in SUBSET Pages, Higher(x) \subseteq S,
         \A p \in S : Higher(p) \subseteq S
  PROVE  Above(x) \subseteq S
BY DEF Above

\* before and after a step.
LEMMA AboveLeastNext ==
  ASSUME NEW x \in Pages, NEW S \in SUBSET Pages, Higher(x)' \subseteq S,
         \A p \in S : Higher(p)' \subseteq S
  PROVE  Above(x)' \subseteq S
BY DEF Above

\* A step that only takes blocks away makes no cycle.
LEMMA AcyclicKept ==
  ASSUME blocks \in Seq(Precedence), Shrinks, Acyclic
  PROVE  Acyclic'
<1> SUFFICES ASSUME NEW p \in Pages PROVE p \notin Above(p)'
  BY DEF Acyclic
<1> DEFINE S == Above(p)
<1>1. S \subseteq Pages /\ Higher(p) \subseteq S /\ \A q \in S : Higher(q) \subseteq S
  BY AboveClosed
<1>2. p \notin S
  BY DEF Acyclic
<1> HIDE DEF S
<1>3. Higher(p)' \subseteq S /\ \A q \in S : Higher(q)' \subseteq S
  BY <1>1 DEF Shrinks
<1>4. Above(p)' \subseteq S
  BY <1>1, <1>3, AboveLeastNext
<1> QED BY <1>2, <1>4

\* A block with high above low closes no cycle when low is not above high.
LEMMA NoCycle ==
  ASSUME blocks \in Seq(Precedence), Acyclic,
         NEW low \in Pages, NEW high \in Pages, low # high, low \notin Above(high),
         Higher(low)' \subseteq Higher(low) \union {high},
         \A q \in Pages \ {low} : Higher(q)' \subseteq Higher(q)
  PROVE  Acyclic'
<1> SUFFICES ASSUME NEW p \in Pages PROVE p \notin Above(p)'
  BY DEF Acyclic
<1> DEFINE U == Above(high) \union {high}
           P == Above(p)
           S == IF low \in P \union {p} THEN P \union U ELSE P
<1>1. P \subseteq Pages /\ Higher(p) \subseteq P /\ \A q \in P : Higher(q) \subseteq P
  BY AboveClosed
<1>2. U \subseteq Pages /\ high \in U /\ \A q \in U : Higher(q) \subseteq U
  BY AboveClosed
<1>3. p \notin P /\ low \notin U
  BY DEF Acyclic
<1>4. p \in U => P \subseteq U
  BY <1>2, AboveLeast
<1> HIDE DEF U, P
<1>5. S \in SUBSET Pages
  BY <1>1, <1>2
<1>6. Higher(p)' \subseteq S
  BY <1>1, <1>2
<1>7. ASSUME NEW q \in S
      PROVE  Higher(q)' \subseteq S
  BY <1>1, <1>2, <1>3, <1>7
<1>8. p \notin S
  BY <1>3, <1>4
<1> HIDE DEF S
<1>9. Above(p)' \subseteq S
  BY <1>5, <1>6, <1>7, AboveLeastNext
<1> QED BY <1>8, <1>9

\* A page no block has above another is above none.
LEMMA NothingBelow ==
  ASSUME blocks \in Seq(Precedence), NEW x \in Pages, NEW y \in Pages, ~ HasLower(x)
  PROVE  x \notin Above(y)
<1> DEFINE S == Above(y) \ {x}
<1>1. Above(y) \subseteq Pages /\ Higher(y) \subseteq Above(y)
      /\ \A q \in Above(y) : Higher(q) \subseteq Above(y)
  BY AboveClosed
<1>2. \A q \in Pages : x \notin Higher(q)
  BY DEF HasLower, Higher
<1>3. S \in SUBSET Pages /\ Higher(y) \subseteq S /\ \A q \in S : Higher(q) \subseteq S
  BY <1>1, <1>2
<1>4. x \notin S OBVIOUS
<1> HIDE DEF S
<1>5. Above(y) \subseteq S
  BY <1>3, AboveLeast
<1> QED BY <1>4, <1>5

\* clear_precedence and purgePrecedence put blocks into bcb_free.
LEMMA UnlinkShrinks ==
  ASSUME blocks \in Seq(Precedence), NEW S, Unlink(S)
  PROVE  blocks' \in Seq(Precedence) /\ Shrinks
<1> DEFINE new(i) == IF i \in S THEN [blocks[i] EXCEPT !.pre_hi = Nobody, !.pre_low = Nobody]
                     ELSE blocks[i]
<1>1. \A i \in DOMAIN blocks : new(i) \in Precedence /\ (new(i).pre_hi # Nobody => new(i) = blocks[i])
  <2> SUFFICES ASSUME NEW i \in DOMAIN blocks
               PROVE  new(i) \in Precedence /\ (new(i).pre_hi # Nobody => new(i) = blocks[i])
    OBVIOUS
  <2>1. blocks[i] \in Precedence OBVIOUS
  <2> QED BY <2>1 DEF Precedence
<1>2. blocks' = [i \in DOMAIN blocks |-> new(i)]
  BY DEF Unlink
<1> HIDE DEF new
<1>3. blocks' \in Seq(Precedence)
  BY <1>1, <1>2
<1>4. \A i \in DOMAIN blocks' : /\ i \in DOMAIN blocks
                                /\ blocks'[i].pre_hi # Nobody => blocks'[i] = blocks[i]
  BY <1>1, <1>2
<1>5. Shrinks
  BY <1>4 DEF Shrinks, Higher, Waits, Linked
<1> QED BY <1>3, <1>5

\* down_grade marks blocks as cleared.
LEMMA MarkClearedShrinks ==
  ASSUME blocks \in Seq(Precedence), NEW S, MarkCleared(S)
  PROVE  blocks' \in Seq(Precedence) /\ Shrinks
<1> DEFINE new(i) == [blocks[i] EXCEPT !.cleared = @ \/ i \in S]
<1>1. \A i \in DOMAIN blocks : /\ new(i) \in Precedence
                               /\ new(i).pre_hi = blocks[i].pre_hi
                               /\ new(i).pre_low = blocks[i].pre_low
                               /\ blocks[i].cleared => new(i).cleared
  <2> SUFFICES ASSUME NEW i \in DOMAIN blocks
               PROVE  /\ new(i) \in Precedence
                      /\ new(i).pre_hi = blocks[i].pre_hi
                      /\ new(i).pre_low = blocks[i].pre_low
                      /\ blocks[i].cleared => new(i).cleared
    OBVIOUS
  <2>1. blocks[i] \in Precedence OBVIOUS
  <2>2. (blocks[i].cleared \/ i \in S) \in BOOLEAN OBVIOUS
  <2> QED BY <2>1, <2>2 DEF Precedence
<1>2. blocks' = [i \in DOMAIN blocks |-> new(i)]
  BY DEF MarkCleared
<1> HIDE DEF new
<1>3. blocks' \in Seq(Precedence)
  BY <1>1, <1>2
<1>4. \A i \in DOMAIN blocks' : /\ i \in DOMAIN blocks
                                /\ blocks'[i].pre_hi = blocks[i].pre_hi
                                /\ blocks'[i].pre_low = blocks[i].pre_low
                                /\ blocks[i].cleared => blocks'[i].cleared
  BY <1>1, <1>2
<1>5. Shrinks
  BY <1>4 DEF Shrinks, Higher, Waits, Linked
<1> QED BY <1>3, <1>5

\* A block taken from bcb_free, or a new one, puts one page above another.
LEMMA InsertAdds ==
  ASSUME blocks \in Seq(Precedence), NEW high \in Pages, NEW low \in Pages, Insert(high, low)
  PROVE  /\ blocks' \in Seq(Precedence)
         /\ Higher(low)' \subseteq Higher(low) \union {high}
         /\ \A q \in Pages \ {low} : Higher(q)' \subseteq Higher(q)
<1> DEFINE block == [pre_hi |-> high, pre_low |-> low, cleared |-> FALSE]
<1>1. block \in Precedence
  BY DEF Precedence
<1>2. PICK k : /\ \A i \in DOMAIN blocks' : i = k \/ (i \in DOMAIN blocks /\ blocks'[i] = blocks[i])
               /\ blocks'[k] = block
               /\ blocks' \in Seq(Precedence)
  <2>1. CASE {i \in DOMAIN blocks : ~ Linked(i)} = {}
    <3>1. blocks' = Append(blocks, block)
      BY <2>1 DEF Insert
    <3> HIDE DEF block
    <3>2. \A i \in DOMAIN blocks' : i = Len(blocks) + 1 \/ (i \in DOMAIN blocks /\ blocks'[i] = blocks[i])
      BY <3>1, <1>1
    <3> QED BY <3>1, <3>2, <1>1
  <2>2. CASE {i \in DOMAIN blocks : ~ Linked(i)} # {}
    <3>1. PICK k \in DOMAIN blocks : blocks' = [blocks EXCEPT ![k] = block]
      BY <2>2 DEF Insert
    <3> HIDE DEF block
    <3> QED BY <3>1, <1>1
  <2> QED BY <2>1, <2>2
<1>3. Higher(low)' \subseteq Higher(low) \union {high}
  BY <1>2 DEF Higher, Waits, Linked
<1>4. \A q \in Pages \ {low} : Higher(q)' \subseteq Higher(q)
  BY <1>2 DEF Higher, Waits, Linked
<1> QED BY <1>2, <1>3, <1>4

-----------------------------------------------------------------------------
(* Workers, activations of down_grade, and the pages they work on.         *)

\* The pages a thread works on are known while it does.
WorkerOK(t) ==
    /\ t.pc \notin {"idle", "flush"} => t.window \in Pages
    /\ t.pc \in {"precedence", "cycle"} => t.high \in Pages /\ t.high # t.window
    /\ t.write_buffer # Nobody =>
          t.writing \in Pages /\ t.pc \in {"cycle", "ready", "release", "flushing"}

GoodWorker == {t \in Worker : WorkerOK(t)}

\* A thread has latched the page in its window.  Until it is marked the page is under
\* its lock, or its changes have been given up before.
Holds(w, t) ==
    /\ t.pc \notin {"idle", "flush", "repost"} => latch[t.window] = w
    /\ t.pc \in {"window", "precedence", "cycle", "ready"} =>
          t.window \in held \/ lost[t.window] # 0

\* The page has been modified, or has lost modifications.
Touched(p) ==
    \/ lost[p] # 0
    \/ buf[p].ver # 0 /\ (disk[p].ver # 0 \/ p \in dirty \intersect held)

\* An activation of down_grade past its first decision; it has latched the page or,
\* with justWrite, found it latched.
Examined(f) == f.pc \in {"higher", "back", "write", "lower"}
Latching(f) == Examined(f) /\ ~ f.justWrite

\* An activation that has examined its page has it latched, alone, or has found it
\* latched by a worker, and dirty.
FramesOK(D, L, T) ==
    /\ D \in Seq(Frame)
    /\ \A i \in DOMAIN D :
          /\ Latching(D[i]) => L[D[i].page] = Ast
          /\ Examined(D[i]) /\ D[i].justWrite => D[i].page \in T
    /\ \A i, j \in DOMAIN D :
          Latching(D[i]) /\ Latching(D[j]) /\ D[i].page = D[j].page => i = j

TouchedPages == {p \in Pages : Touched(p)}

\* What each thread owns.
Control ==
    /\ th \in [Workers -> GoodWorker]
    /\ \A w \in Workers : Holds(w, th[w])
    /\ FramesOK(down, latch, TouchedPages)

\* What is known of the pages.
DataOK == CleanOnDisk /\ DirtyLocked /\ \A p \in dirty : Touched(p)

\* The inductive invariant.
IInv == TypeOK /\ Control /\ DataOK /\ Acyclic

\* Pages and page locks as they were.
LEMMA QuietData ==
  ASSUME TypeOK, DataOK, UNCHANGED <<disk, buf, dirty, held, lost>>
  PROVE  DataOK' /\ \A p \in Pages : Touched(p)' <=> Touched(p)
BY DEF TypeOK, DataOK, CleanOnDisk, DirtyLocked, Touched

\* Every activation has a page.
LEMMA FramePage ==
  ASSUME NEW f \in Frame
  PROVE  f.page \in Pages
BY DEF Frame

\* Nobody loses a latch of the thread of the ASTs.
LEMMA FramesMono ==
  ASSUME NEW D, NEW L, NEW M, NEW T, NEW U, FramesOK(D, L, T), T \subseteq U,
         \A p \in Pages : L[p] = Ast => M[p] = Ast
  PROVE  FramesOK(D, M, U)
<1>1. \A i \in DOMAIN D : D[i].page \in Pages
  BY FramePage DEF FramesOK
<1> QED BY <1>1 DEF FramesOK

\* The innermost activation goes on, with the latch it has.
LEMMA FramesTop ==
  ASSUME NEW D, NEW L, NEW T, FramesOK(D, L, T), D # <<>>, NEW f \in Frame,
         f.page = Head(D).page, Latching(f) => Latching(Head(D)),
         Examined(f) /\ f.justWrite => f.page \in T
  PROVE  FramesOK(<<f>> \o Tail(D), L, T)
<1> DEFINE E == <<f>> \o Tail(D)
<1>1. D \in Seq(Frame) BY DEF FramesOK
<1>2. /\ E \in Seq(Frame) /\ DOMAIN E = DOMAIN D /\ E[1] = f /\ 1 \in DOMAIN D
      /\ \A i \in DOMAIN D : i # 1 => E[i] = D[i]
      /\ Head(D) = D[1]
  BY <1>1
<1> HIDE DEF E
<1>3. /\ \A i \in DOMAIN E : Latching(E[i]) => Latching(D[i]) /\ E[i].page = D[i].page
      /\ \A i \in DOMAIN E : Examined(E[i]) /\ E[i].justWrite => E[i].page \in T
  BY <1>2 DEF FramesOK
<1>4. FramesOK(E, L, T)
  BY <1>2, <1>3 DEF FramesOK
<1> QED BY <1>4 DEF E

\* The innermost activation takes a latch the thread does not have yet.
LEMMA FramesTake ==
  ASSUME NEW D, NEW L \in [Pages -> Workers \union {Ast, Nobody}], NEW T,
         FramesOK(D, L, T), D # <<>>, NEW f \in Frame,
         f.page = Head(D).page, ~ f.justWrite, L[f.page] # Ast
  PROVE  FramesOK(<<f>> \o Tail(D), [L EXCEPT ![f.page] = Ast], T)
<1> DEFINE E == <<f>> \o Tail(D)
           M == [L EXCEPT ![f.page] = Ast]
<1>1. D \in Seq(Frame) BY DEF FramesOK
<1>2. /\ E \in Seq(Frame) /\ DOMAIN E = DOMAIN D /\ E[1] = f /\ 1 \in DOMAIN D
      /\ \A i \in DOMAIN D : i # 1 => E[i] = D[i]
      /\ Head(D) = D[1]
  BY <1>1
<1>3. f.page \in Pages /\ M[f.page] = Ast /\ \A p \in Pages : L[p] = Ast => M[p] = Ast
  BY DEF Frame
<1>4. \A i \in DOMAIN D : D[i].page \in Pages
  BY <1>1, FramePage
<1> HIDE DEF E, M
<1>5. \A i \in DOMAIN D : Latching(D[i]) => D[i].page # f.page
  BY DEF FramesOK
<1>6. FramesOK(E, M, T)
  BY <1>2, <1>3, <1>4, <1>5 DEF FramesOK
<1> QED BY <1>6 DEF E, M

\* An activation begins.
LEMMA FramesPush ==
  ASSUME NEW D, NEW L, NEW T, FramesOK(D, L, T), NEW g \in Frame, ~ Examined(g)
  PROVE  FramesOK(<<g>> \o D, L, T)
<1> DEFINE E == <<g>> \o D
<1>1. D \in Seq(Frame) BY DEF FramesOK
<1>2. /\ E \in Seq(Frame) /\ E[1] = g
      /\ \A i \in DOMAIN E : i # 1 => i - 1 \in DOMAIN D /\ E[i] = D[i - 1]
      /\ DOMAIN E \subseteq Nat
  BY <1>1
<1> HIDE DEF E
<1>3. ~ Latching(g)
  BY DEF Latching
<1>4. FramesOK(E, L, T)
  BY <1>2, <1>3 DEF FramesOK
<1> QED BY <1>4 DEF E

\* An activation ends.
LEMMA FramesPop ==
  ASSUME NEW D, NEW L, NEW T, FramesOK(D, L, T), D # <<>>
  PROVE  FramesOK(Tail(D), L, T)
<1> DEFINE E == Tail(D)
<1>1. D \in Seq(Frame) BY DEF FramesOK
<1>2. /\ E \in Seq(Frame)
      /\ \A i \in DOMAIN E : i + 1 \in DOMAIN D /\ E[i] = D[i + 1]
      /\ DOMAIN E \subseteq Nat
  BY <1>1
<1> HIDE DEF E
<1>3. FramesOK(E, L, T)
  BY <1>2 DEF FramesOK
<1> QED BY <1>3 DEF E

\* The latch an activation has taken is its own.
LEMMA FramesFree ==
  ASSUME NEW D, NEW L \in [Pages -> Workers \union {Ast, Nobody}], NEW T,
         FramesOK(D, L, T), D # <<>>, Latching(Head(D))
  PROVE  FramesOK(Tail(D), [L EXCEPT ![Head(D).page] = Nobody], T)
<1> DEFINE E == Tail(D)
           M == [L EXCEPT ![Head(D).page] = Nobody]
<1>1. D \in Seq(Frame) BY DEF FramesOK
<1>2. /\ E \in Seq(Frame) /\ Head(D) = D[1] /\ 1 \in DOMAIN D
      /\ \A i \in DOMAIN E : i + 1 \in DOMAIN D /\ E[i] = D[i + 1] /\ i + 1 # 1
      /\ DOMAIN E \subseteq Nat
  BY <1>1
<1>3. \A p \in Pages : p # Head(D).page => M[p] = L[p]
  OBVIOUS
<1>4. \A i \in DOMAIN D : D[i].page \in Pages
  BY <1>1, FramePage
<1> HIDE DEF E, M
<1>5. \A i \in DOMAIN E : Latching(E[i]) => E[i].page # Head(D).page
  BY <1>2 DEF FramesOK
<1>6. FramesOK(E, M, T)
  BY <1>2, <1>3, <1>4, <1>5 DEF FramesOK
<1> QED BY <1>6 DEF E, M

\* A step of a worker.
LEMMA WorkerStep ==
  ASSUME TypeOK, Control, NEW w \in Workers, th' \in [Workers -> GoodWorker],
         \A v \in Workers \ {w} : th'[v] = th[v], Holds(w, th[w])', UNCHANGED down,
         \A v \in Workers \ {w} : \A p \in Pages : latch[p] = v => latch'[p] = v,
         \A p \in Pages : latch[p] = Ast => latch'[p] = Ast,
         \A p \in Pages : Touched(p) => Touched(p)',
         \A p \in Pages : p \in held \/ lost[p] # 0 => p \in held' \/ lost'[p] # 0
  PROVE  Control'
<1>1. ASSUME NEW v \in Workers \ {w}
      PROVE  Holds(v, th[v])'
  <2>1. Holds(v, th[v]) /\ WorkerOK(th[v]) /\ th'[v] = th[v]
    BY DEF Control, GoodWorker
  <2> QED BY <2>1 DEF Holds, WorkerOK
<1>2. FramesOK(down, latch', TouchedPages')
  <2>1. FramesOK(down, latch, TouchedPages)
    BY DEF Control
  <2>2. TouchedPages \subseteq TouchedPages'
    BY DEF TouchedPages
  <2> QED BY <2>1, <2>2, FramesMono
<1>3. FramesOK(down, latch, TouchedPages)'
  BY <1>2
<1> QED BY <1>1, <1>3 DEF Control

\* A step of a worker that changes neither pages nor locks.
LEMMA QuietStep ==
  ASSUME TypeOK, Control, DataOK, NEW w \in Workers, NEW t,
         th' = [th EXCEPT ![w] = t], t \in GoodWorker, Holds(w, t),
         UNCHANGED <<disk, buf, dirty, held, lost, latch, down>>
  PROVE  Control' /\ DataOK'
<1>1. th \in [Workers -> GoodWorker]
  BY DEF Control
<1>2. th' \in [Workers -> GoodWorker] /\ th'[w] = t /\ \A v \in Workers \ {w} : th'[v] = th[v]
  BY <1>1
<1>3. Holds(w, th[w])'
  BY <1>2 DEF Holds
<1>4. DataOK' /\ \A p \in Pages : Touched(p)' <=> Touched(p)
  BY QuietData
<1>5. Control'
  BY <1>2, <1>3, <1>4, WorkerStep
<1> QED BY <1>4, <1>5

\* Precedence blocks as they were.
LEMMA SameBlocks ==
  ASSUME Acyclic, UNCHANGED blocks
  PROVE  Acyclic'
BY DEF Acyclic, Above, Higher, Waits, Linked

\* A page that is not dirty is left alone.
LEMMA StepWriteNothing ==
  ASSUME IInv, NEW w \in Workers, WriteNothing(w)
  PROVE  IInv'
<1> DEFINE t == [th[w] EXCEPT !.write_pc = "clear"]
<1>1. th \in [Workers -> GoodWorker] /\ th' = [th EXCEPT ![w] = t]
  BY DEF WriteNothing, Finished, IInv, Control
<1>2. th[w] \in Worker /\ WorkerOK(th[w]) /\ Holds(w, th[w])
  BY <1>1 DEF GoodWorker, IInv, Control
<1>3. TRUE
  BY <1>2 DEF WorkerOK, Worker, WriteNothing
<1>4. t \in Worker
  BY <1>2, <1>3 DEF Worker
<1>5. WorkerOK(t) /\ Holds(w, t)
  BY <1>2, <1>3 DEF Worker, WorkerOK, Holds
<1>6. UNCHANGED <<disk, buf, dirty, held, lost, latch, down>>
  BY DEF WriteNothing, data, locks, counts
<1> HIDE DEF t
<1>7. Control' /\ DataOK'
  BY <1>1, <1>4, <1>5, <1>6, QuietStep DEF IInv, GoodWorker
<1>8. th' \in [Workers -> Worker]
  BY <1>7 DEF Control, GoodWorker
<1>9. TypeOK'
  BY <1>8 DEF IInv, TypeOK, WriteNothing, data, locks, counts
<1>10. Acyclic'
  BY SameBlocks DEF IInv, WriteNothing
<1> QED BY <1>7, <1>9, <1>10 DEF IInv

\* clear_precedence only takes blocks away.
LEMMA StepWriteClear ==
  ASSUME IInv, NEW w \in Workers, WriteClear(w)
  PROVE  IInv'
<1> DEFINE t == IF th[w].writing = th[w].write_buffer
               THEN [th[w] EXCEPT !.write_buffer = Nobody, !.writing = Nobody, !.write_pc = "start"]
               ELSE [th[w] EXCEPT !.writing = th[w].write_buffer, !.write_pc = "again"]
<1>1. th \in [Workers -> GoodWorker] /\ th' = [th EXCEPT ![w] = t]
  BY DEF WriteClear, IInv, Control
<1>2. th[w] \in Worker /\ WorkerOK(th[w]) /\ Holds(w, th[w])
  BY <1>1 DEF GoodWorker, IInv, Control
<1>3. th[w].writing \in Pages /\ th[w].write_buffer \in Pages
  BY <1>2 DEF Writing, WorkerOK, Worker, WriteClear
<1>4. t \in Worker
  BY <1>2, <1>3 DEF Worker
<1>5. WorkerOK(t) /\ Holds(w, t)
  BY <1>2, <1>3 DEF Worker, WorkerOK, Holds
<1>6. UNCHANGED <<disk, buf, dirty, held, lost, latch, down>>
  BY DEF WriteClear, data, locks, counts
<1> HIDE DEF t
<1>7. Control' /\ DataOK'
  BY <1>1, <1>4, <1>5, <1>6, QuietStep DEF IInv, GoodWorker
<1>8. th' \in [Workers -> Worker]
  BY <1>7 DEF Control, GoodWorker
<1>9. blocks' \in Seq(Precedence) /\ Acyclic'
  BY UnlinkShrinks, AcyclicKept DEF IInv, TypeOK, WriteClear, clear_precedence
<1>10. TypeOK'
  BY <1>8, <1>9 DEF IInv, TypeOK, WriteClear, clear_precedence, Lower, Waits, Linked, Precedence, data, locks, counts
<1> QED BY <1>7, <1>9, <1>10 DEF IInv

\* A page of higher precedence is next; purgePrecedence only takes blocks away.
LEMMA StepWriteHigher ==
  ASSUME IInv, NEW w \in Workers, NEW h \in Pages, WriteHigher(w, h)
  PROVE  IInv'
<1> DEFINE t == [th[w] EXCEPT !.writing = h, !.write_pc = "start"]
<1>1. th \in [Workers -> GoodWorker] /\ th' = [th EXCEPT ![w] = t]
  BY DEF WriteHigher, IInv, Control
<1>2. th[w] \in Worker /\ WorkerOK(th[w]) /\ Holds(w, th[w])
  BY <1>1 DEF GoodWorker, IInv, Control
<1>3. h \in Pages /\ th[w].write_buffer # Nobody
  BY <1>2 DEF Writable, Writing, WorkerOK, Worker, WriteHigher
<1>4. t \in Worker
  BY <1>2, <1>3 DEF Worker
<1>5. WorkerOK(t) /\ Holds(w, t)
  BY <1>2, <1>3 DEF Worker, WorkerOK, Holds
<1>6. UNCHANGED <<disk, buf, dirty, held, lost, latch, down>>
  BY DEF WriteHigher, data, locks, counts
<1> HIDE DEF t
<1>7. Control' /\ DataOK'
  BY <1>1, <1>4, <1>5, <1>6, QuietStep DEF IInv, GoodWorker
<1>8. th' \in [Workers -> Worker]
  BY <1>7 DEF Control, GoodWorker
<1>9. blocks' \in Seq(Precedence) /\ Acyclic'
  BY UnlinkShrinks, AcyclicKept DEF IInv, TypeOK, WriteHigher, Purge
<1>10. TypeOK'
  BY <1>8, <1>9 DEF IInv, TypeOK, WriteHigher, data, locks, counts
<1> QED BY <1>7, <1>9, <1>10 DEF IInv

\* The page in the window will refer to another one.
LEMMA StepCCH_precedence ==
  ASSUME IInv, NEW w \in Workers, NEW h \in Pages, CCH_precedence(w, h)
  PROVE  IInv'
<1> DEFINE t == [th[w] EXCEPT !.high = h, !.need = buf[h].ver,
                          !.pc = IF h \in dirty THEN "precedence" ELSE "ready"]
<1>1. th \in [Workers -> GoodWorker] /\ th' = [th EXCEPT ![w] = t]
  BY DEF CCH_precedence, IInv, Control
<1>2. th[w] \in Worker /\ WorkerOK(th[w]) /\ Holds(w, th[w])
  BY <1>1 DEF GoodWorker, IInv, Control
<1>3. th[w].window \in Pages /\ th[w].pc = "window" /\ h # th[w].window /\ th[w].write_buffer = Nobody /\ buf[h].ver \in Nat
  BY <1>2 DEF At, IInv, TypeOK, Contents, WorkerOK, Worker, CCH_precedence
<1>4. t \in Worker
  BY ZenonT(60), <1>2, <1>3 DEF Worker
<1>5. WorkerOK(t) /\ Holds(w, t)
  BY <1>2, <1>3 DEF Worker, WorkerOK, Holds
<1>6. UNCHANGED <<disk, buf, dirty, held, lost, latch, down>>
  BY DEF CCH_precedence, data, locks, counts
<1> HIDE DEF t
<1>7. Control' /\ DataOK'
  BY <1>1, <1>4, <1>5, <1>6, QuietStep DEF IInv, GoodWorker
<1>8. th' \in [Workers -> Worker]
  BY <1>7 DEF Control, GoodWorker
<1>9. TypeOK'
  BY <1>8 DEF IInv, TypeOK, CCH_precedence, data, locks, counts
<1>10. Acyclic'
  BY SameBlocks DEF IInv, CCH_precedence
<1> QED BY <1>7, <1>9, <1>10 DEF IInv

\* Locks put off are posted again.
LEMMA StepRepost ==
  ASSUME IInv, NEW w \in Workers, Repost(w)
  PROVE  IInv'
<1> DEFINE t == [Idle EXCEPT !.pc = IF th[w].todo = {} THEN "idle" ELSE "flush",
                       !.todo = th[w].todo, !.rest = th[w].rest,
                       !.found = th[w].found, !.writeAll = th[w].writeAll]
<1>1. th \in [Workers -> GoodWorker] /\ th' = [th EXCEPT ![w] = t]
  BY DEF Repost, IInv, Control
<1>2. th[w] \in Worker /\ WorkerOK(th[w]) /\ Holds(w, th[w])
  BY <1>1 DEF GoodWorker, IInv, Control
<1>3. th[w].window \in Pages
  BY <1>2 DEF At, WorkerOK, Worker, Repost
<1>4. t \in Worker
  BY <1>2, <1>3 DEF Worker, Idle
<1>5. WorkerOK(t) /\ Holds(w, t)
  BY <1>2, <1>3 DEF Worker, WorkerOK, Holds, Idle
<1>6. UNCHANGED <<disk, buf, dirty, held, lost, latch, down>>
  BY DEF Repost, data, locks, counts
<1> HIDE DEF t
<1>7. Control' /\ DataOK'
  BY <1>1, <1>4, <1>5, <1>6, QuietStep DEF IInv, GoodWorker
<1>8. th' \in [Workers -> Worker]
  BY <1>7 DEF Control, GoodWorker
<1>9. TypeOK'
  BY <1>8 DEF IInv, TypeOK, Repost, data, locks, counts
<1>10. Acyclic'
  BY SameBlocks DEF IInv, Repost
<1> QED BY <1>7, <1>9, <1>10 DEF IInv

\* A flush begins.
LEMMA StepFlushDirty ==
  ASSUME IInv, NEW w \in Workers, NEW S \in SUBSET Pages, FlushDirty(w, S)
  PROVE  IInv'
<1> DEFINE t == [Idle EXCEPT !.pc = "flush", !.todo = S, !.rest = S]
<1>1. th \in [Workers -> GoodWorker] /\ th' = [th EXCEPT ![w] = t]
  BY DEF FlushDirty, IInv, Control
<1>2. th[w] \in Worker /\ WorkerOK(th[w]) /\ Holds(w, th[w])
  BY <1>1 DEF GoodWorker, IInv, Control
<1>3. S \subseteq Pages
  BY <1>2 DEF IInv, TypeOK, WorkerOK, Worker, FlushDirty
<1>4. t \in Worker
  BY <1>2, <1>3 DEF Worker, Idle
<1>5. WorkerOK(t) /\ Holds(w, t)
  BY <1>2, <1>3 DEF Worker, WorkerOK, Holds, Idle
<1>6. UNCHANGED <<disk, buf, dirty, held, lost, latch, down>>
  BY DEF FlushDirty, data, locks, counts
<1> HIDE DEF t
<1>7. Control' /\ DataOK'
  BY <1>1, <1>4, <1>5, <1>6, QuietStep DEF IInv, GoodWorker
<1>8. th' \in [Workers -> Worker]
  BY <1>7 DEF Control, GoodWorker
<1>9. TypeOK'
  BY <1>8 DEF IInv, TypeOK, FlushDirty, data, locks, counts
<1>10. Acyclic'
  BY SameBlocks DEF IInv, FlushDirty
<1> QED BY <1>7, <1>9, <1>10 DEF IInv

\* A pass of the flush ends.
LEMMA StepFlushPass ==
  ASSUME IInv, NEW w \in Workers, FlushPass(w)
  PROVE  IInv'
<1> DEFINE b == th[w].writeAll \/ ~ th[w].found
           u == [th[w] EXCEPT !.rest = th[w].todo, !.found = FALSE, !.writeAll = b]
           t == IF th[w].todo = {} THEN Idle ELSE u
<1>1. th \in [Workers -> GoodWorker] /\ th' = [th EXCEPT ![w] = t]
  BY DEF FlushPass, IInv, Control
<1>2. th[w] \in Worker /\ WorkerOK(th[w]) /\ Holds(w, th[w])
  BY <1>1 DEF GoodWorker, IInv, Control
<1>3. th[w].pc = "flush" /\ th[w].write_buffer = Nobody /\ b \in BOOLEAN
  BY DEF At, FlushPass
<1> HIDE DEF b
<1>4. Idle \in Worker /\ WorkerOK(Idle) /\ Holds(w, Idle)
  BY DEF Idle, Worker, WorkerOK, Holds
<1>5. u \in Worker
  BY ZenonT(60), <1>2, <1>3 DEF Worker
<1>6. WorkerOK(u) /\ Holds(w, u)
  BY <1>2, <1>3 DEF Worker, WorkerOK, Holds
<1>7. UNCHANGED <<disk, buf, dirty, held, lost, latch, down>>
  BY DEF FlushPass, data, locks, counts
<1> HIDE DEF u
<1>8. Control' /\ DataOK'
  BY <1>1, <1>4, <1>5, <1>6, <1>7, QuietStep DEF IInv, GoodWorker
<1>9. th' \in [Workers -> Worker]
  BY <1>8 DEF Control, GoodWorker
<1>10. TypeOK'
  BY <1>9 DEF IInv, TypeOK, FlushPass, data, locks, counts
<1>11. Acyclic'
  BY SameBlocks DEF IInv, FlushPass
<1> QED BY <1>8, <1>10, <1>11 DEF IInv

\* The searches of check_precedence.  A new block is only made when the page in the
\* window is not above the other one, or is above none.
LEMMA StepCheckPrecedence ==
  ASSUME IInv, NEW w \in Workers, CheckPrecedence(w)
  PROVE  IInv'
<1> DEFINE low == th[w].window
           high == th[w].high
<1>1. th \in [Workers -> GoodWorker]
  BY DEF IInv, Control
<1>2. th[w] \in Worker /\ WorkerOK(th[w]) /\ Holds(w, th[w]) /\ th[w].write_buffer = Nobody
      /\ th[w].pc \in {"precedence", "cycle"}
  BY <1>1 DEF GoodWorker, IInv, Control, CheckPrecedence, At
<1>3. low \in Pages /\ high \in Pages /\ low # high
  BY <1>2 DEF WorkerOK
<1>4. UNCHANGED <<disk, buf, dirty, held, lost, latch, down>>
  BY DEF CheckPrecedence, data, locks, counts
<1>5. PICK t : /\ th' = [th EXCEPT ![w] = t]
               /\ \/ t = [th[w] EXCEPT !.pc = "ready"]
                  \/ \E p \in {low, high} : \E pc \in {"ready", "cycle"} : t = Call(w, p, pc)
  BY DEF CheckPrecedence, Go, WriteLow, Establish
<1>6. t \in GoodWorker /\ Holds(w, t)
  <2>1. CASE t = [th[w] EXCEPT !.pc = "ready"]
    <3>1. t \in Worker
      BY <2>1, <1>2 DEF Worker
    <3>2. WorkerOK(t) /\ Holds(w, t)
      BY <2>1, <1>2, <1>3 DEF Worker, WorkerOK, Holds
    <3> QED BY <3>1, <3>2 DEF GoodWorker
  <2>2. ASSUME NEW p \in {low, high}, NEW pc \in {"ready", "cycle"}, t = Call(w, p, pc)
        PROVE  t \in GoodWorker /\ Holds(w, t)
    <3> p \in Pages
      BY <1>3
    <3> HIDE DEF low, high
    <3>1. t \in Worker
      BY ZenonT(60), <2>2, <1>2 DEF Worker, Call
    <3>2. WorkerOK(t)
      BY <2>2, <1>2, <1>3 DEF Worker, WorkerOK, Call, low, high
    <3>3. Holds(w, t)
      BY <2>2, <1>2 DEF Worker, Holds, Call
    <3> QED BY <3>1, <3>2, <3>3 DEF GoodWorker
  <2> QED BY <1>5, <2>1, <2>2
<1>7. Control' /\ DataOK'
  BY <1>4, <1>5, <1>6, QuietStep DEF IInv
<1>8. th' \in [Workers -> Worker]
  BY <1>7 DEF Control, GoodWorker
<1>9. blocks' \in Seq(Precedence) /\ Acyclic'
  <2>1. CASE UNCHANGED blocks
    BY <2>1, SameBlocks DEF IInv, TypeOK
  <2>2. CASE Establish(w, low, high)
    <3>1. low \notin Above(high)
      BY <2>2, <1>3, NothingBelow DEF Establish, related, IInv, TypeOK
    <3>2. Insert(high, low)
      BY <2>2 DEF Establish
    <3> HIDE DEF low, high
    <3>3. blocks \in Seq(Precedence) /\ Acyclic
      BY DEF IInv, TypeOK
    <3> QED BY <3>1, <3>2, <3>3, <1>3, InsertAdds, NoCycle
  <2> QED BY <2>1, <2>2 DEF CheckPrecedence, WriteLow
<1>10. TypeOK'
  BY <1>8, <1>9 DEF IInv, TypeOK, CheckPrecedence, data, locks, counts
<1> QED BY <1>7, <1>9, <1>10 DEF IInv

\* The mark goes with the IO lock.
LEMMA StepCCH_release ==
  ASSUME IInv, NEW w \in Workers, CCH_release(w)
  PROVE  IInv'
<1>1. th \in [Workers -> GoodWorker]
  BY DEF IInv, Control
<1>2. th[w] \in Worker /\ WorkerOK(th[w]) /\ Holds(w, th[w]) /\ th[w].write_buffer = Nobody
      /\ th[w].pc = "marked"
  BY <1>1 DEF GoodWorker, IInv, Control, CCH_release, At
<1>3. th[w].window \in Pages
  BY <1>2 DEF WorkerOK
<1>4. PICK t : /\ th' = [th EXCEPT ![w] = t]
               /\ \/ t = [th[w] EXCEPT !.pc = "release"]
                  \/ t = Call(w, th[w].window, "release")
  BY DEF CCH_release, Go
<1>5. t \in Worker
  <2>1. CASE t = [th[w] EXCEPT !.pc = "release"]
    BY <2>1, <1>2 DEF Worker
  <2>2. CASE t = Call(w, th[w].window, "release")
    BY <2>2, <1>2, <1>3 DEF Worker, Call
  <2> QED BY <1>4, <2>1, <2>2
<1>6. WorkerOK(t) /\ Holds(w, t)
  BY ZenonT(60), <1>2, <1>3, <1>4 DEF Worker, WorkerOK, Holds, Call
<1>7. UNCHANGED <<disk, buf, dirty, held, lost, latch, down>>
  BY DEF CCH_release, data, locks, counts
<1>8. Control' /\ DataOK'
  BY <1>4, <1>5, <1>6, <1>7, QuietStep DEF IInv, GoodWorker
<1>9. th' \in [Workers -> Worker]
  BY <1>8 DEF Control, GoodWorker
<1>10. io' \in [Pages -> Workers \union {Ast, Nobody}]
  BY DEF IInv, TypeOK, CCH_release
<1>11. TypeOK'
  BY <1>9, <1>10 DEF IInv, TypeOK, CCH_release, data, locks, counts
<1>12. Acyclic'
  BY SameBlocks DEF IInv, CCH_release
<1> QED BY <1>8, <1>11, <1>12 DEF IInv

\* A worker takes a free latch, or gives up the one it has.
LEMMA LatchStep ==
  ASSUME TypeOK, NEW w \in Workers, NEW p \in Pages, NEW u,
         latch[p] \in {w, Nobody}, latch' = [latch EXCEPT ![p] = u]
  PROVE  /\ \A v \in Workers \ {w} : \A q \in Pages : latch[q] = v => latch'[q] = v
         /\ \A q \in Pages : latch[q] = Ast => latch'[q] = Ast
BY CacheAssumption DEF TypeOK

\* The latch is released.
LEMMA StepUnlatch ==
  ASSUME IInv, NEW w \in Workers, Unlatch(w)
  PROVE  IInv'
<1>0. PICK p : p = th[w].window
  OBVIOUS
<1> DEFINE t == [Idle EXCEPT !.pc = "repost", !.window = p]
<1>1. th \in [Workers -> GoodWorker] /\ th' = [th EXCEPT ![w] = t]
  BY <1>0 DEF Unlatch, IInv, Control
<1>2. th[w] \in Worker /\ WorkerOK(th[w]) /\ Holds(w, th[w]) /\ th[w].write_buffer = Nobody
      /\ th[w].pc \in {"window", "ready", "release"}
  BY <1>1 DEF GoodWorker, IInv, Control, Unlatch, At
<1>3. p \in Pages /\ latch[p] = w
  BY <1>0, <1>2 DEF WorkerOK, Holds, Unlatch
<1>4. latch' = [latch EXCEPT ![p] = Nobody]
      /\ UNCHANGED <<disk, buf, dirty, held, lost, down>>
  BY <1>0 DEF Unlatch, data, locks, counts
<1>5. t \in Worker
  <2>1. th[w].todo \ {p} \in SUBSET Pages /\ th[w].rest \ {p} \in SUBSET Pages
    BY <1>2 DEF Worker
  <2>2. p \in Pages
    BY <1>3
  <2>3. th[w] \in Worker
    BY <1>2
  <2> QED BY <2>2 DEF Worker, Idle
<1>6. WorkerOK(t) /\ t.pc = "repost"
  BY <1>2, <1>3 DEF Worker, WorkerOK, Idle
<1> HIDE DEF t
<1>7. t \in GoodWorker
  BY <1>5, <1>6 DEF GoodWorker
<1>8. th' \in [Workers -> GoodWorker] /\ th'[w] = t /\ \A v \in Workers \ {w} : th'[v] = th[v]
  BY <1>1, <1>7
<1>9. latch' \in [Pages -> Workers \union {Ast, Nobody}] /\ latch'[p] = Nobody
  BY <1>3, <1>4 DEF IInv, TypeOK
<1>10. Holds(w, th[w])'
  BY <1>6, <1>8, <1>9 DEF Holds
<1>11. DataOK' /\ \A q \in Pages : Touched(q)' <=> Touched(q)
  BY <1>4, QuietData DEF IInv
<1>12. /\ \A v \in Workers \ {w} : \A q \in Pages : latch[q] = v => latch'[q] = v
       /\ \A q \in Pages : latch[q] = Ast => latch'[q] = Ast
  BY <1>3, <1>4, LatchStep DEF IInv
<1>13. Control'
  BY <1>4, <1>8, <1>10, <1>11, <1>12, WorkerStep DEF IInv
<1>14. th' \in [Workers -> Worker]
  BY <1>8 DEF GoodWorker
<1>15. blocks' \in Seq(Precedence) /\ Acyclic'
  BY SameBlocks DEF IInv, TypeOK, Unlatch
<1>16. TypeOK'
  BY <1>9, <1>14, <1>15 DEF IInv, TypeOK, Unlatch, data, locks, counts
<1> QED BY <1>11, <1>13, <1>15, <1>16 DEF IInv

\* A page is latched, and written or left for the next pass.
LEMMA StepFlushPage ==
  ASSUME IInv, NEW w \in Workers, NEW p \in Pages, FlushPage(w, p)
  PROVE  IInv'
<1> DEFINE t == IF th[w].writeAll \/ Higher(p) = {}
                THEN [Call(w, p, "flushing") EXCEPT !.window = p]
                ELSE [th[w] EXCEPT !.pc = "skip", !.window = p]
<1>1. th \in [Workers -> GoodWorker] /\ th' = [th EXCEPT ![w] = t]
  BY DEF FlushPage, IInv, Control
<1>2. th[w] \in Worker /\ WorkerOK(th[w]) /\ Holds(w, th[w]) /\ th[w].write_buffer = Nobody
      /\ th[w].pc = "flush"
  BY <1>1 DEF GoodWorker, IInv, Control, FlushPage, At
<1>3. p \in Pages /\ latch[p] = Nobody
  BY <1>2 DEF WorkerOK, Holds, FlushPage
<1>4. latch' = [latch EXCEPT ![p] = w]
      /\ UNCHANGED <<disk, buf, dirty, held, lost, down>>
  BY DEF FlushPage, data, locks, counts
<1>5. t \in Worker
  <2>1. th[w].todo \ {p} \in SUBSET Pages /\ th[w].rest \ {p} \in SUBSET Pages
    BY <1>2 DEF Worker
  <2>2. p \in Pages
    BY <1>3
  <2>3. th[w] \in Worker
    BY <1>2
  <2> QED BY <2>1, <2>2, <2>3 DEF Worker, Call
<1>6. WorkerOK(t) /\ t.window = p /\ t.pc \in {"flushing", "skip"}
  BY <1>2, <1>3 DEF Worker, WorkerOK, Call
<1> HIDE DEF t
<1>7. t \in GoodWorker
  BY <1>5, <1>6 DEF GoodWorker
<1>8. th' \in [Workers -> GoodWorker] /\ th'[w] = t /\ \A v \in Workers \ {w} : th'[v] = th[v]
  BY <1>1, <1>7
<1>9. latch' \in [Pages -> Workers \union {Ast, Nobody}] /\ latch'[p] = w
  BY <1>3, <1>4 DEF IInv, TypeOK
<1>10. Holds(w, th[w])'
  BY <1>6, <1>8, <1>9 DEF Holds
<1>11. DataOK' /\ \A q \in Pages : Touched(q)' <=> Touched(q)
  BY <1>4, QuietData DEF IInv
<1>12. /\ \A v \in Workers \ {w} : \A q \in Pages : latch[q] = v => latch'[q] = v
       /\ \A q \in Pages : latch[q] = Ast => latch'[q] = Ast
  BY <1>3, <1>4, LatchStep DEF IInv
<1>13. Control'
  BY <1>4, <1>8, <1>10, <1>11, <1>12, WorkerStep DEF IInv
<1>14. th' \in [Workers -> Worker]
  BY <1>8 DEF GoodWorker
<1>15. blocks' \in Seq(Precedence) /\ Acyclic'
  BY SameBlocks, UnlinkShrinks, AcyclicKept DEF IInv, TypeOK, FlushPage, Purge
<1>16. TypeOK'
  BY <1>9, <1>14, <1>15 DEF IInv, TypeOK, FlushPage, data, locks, counts
<1> QED BY <1>11, <1>13, <1>15, <1>16 DEF IInv

\* The page is on disk, or has been modified again.
LEMMA StepFlushWritten ==
  ASSUME IInv, NEW w \in Workers, FlushWritten(w)
  PROVE  IInv'
<1>0. PICK p : p = th[w].window
  OBVIOUS
<1> DEFINE t == [th[w] EXCEPT !.pc = IF p \in dirty THEN "flush" ELSE "repost",
                   !.window = IF p \in dirty THEN Nobody ELSE p,
                   !.todo = @ \ {p}, !.rest = @ \ {p}, !.found = TRUE]
<1>1. th \in [Workers -> GoodWorker] /\ th' = [th EXCEPT ![w] = t]
  BY <1>0 DEF FlushWritten, IInv, Control
<1>2. th[w] \in Worker /\ WorkerOK(th[w]) /\ Holds(w, th[w]) /\ th[w].write_buffer = Nobody
      /\ th[w].pc = "flushing"
  BY <1>1 DEF GoodWorker, IInv, Control, FlushWritten, At
<1>3. p \in Pages /\ latch[p] = w
  BY <1>0, <1>2 DEF WorkerOK, Holds, FlushWritten
<1>4. latch' = [latch EXCEPT ![p] = Nobody]
      /\ UNCHANGED <<disk, buf, dirty, held, lost, down>>
  BY <1>0 DEF FlushWritten, data, locks, counts
<1>5. t \in Worker
  <2>1. th[w].todo \ {p} \in SUBSET Pages /\ th[w].rest \ {p} \in SUBSET Pages
    BY <1>2 DEF Worker
  <2>2. p \in Pages
    BY <1>3
  <2>3. th[w] \in Worker
    BY <1>2
  <2>4. CASE p \in dirty
    BY <2>1, <2>2, <2>3, <2>4 DEF Worker
  <2>5. CASE p \notin dirty
    BY <2>1, <2>2, <2>3, <2>5 DEF Worker
  <2> QED BY <2>4, <2>5
<1>6. WorkerOK(t) /\ t.pc \in {"flush", "repost"}
  BY <1>2, <1>3 DEF Worker, WorkerOK
<1> HIDE DEF t
<1>7. t \in GoodWorker
  BY <1>5, <1>6 DEF GoodWorker
<1>8. th' \in [Workers -> GoodWorker] /\ th'[w] = t /\ \A v \in Workers \ {w} : th'[v] = th[v]
  BY <1>1, <1>7
<1>9. latch' \in [Pages -> Workers \union {Ast, Nobody}] /\ latch'[p] = Nobody
  BY <1>3, <1>4 DEF IInv, TypeOK
<1>10. Holds(w, th[w])'
  BY <1>6, <1>8, <1>9 DEF Holds
<1>11. DataOK' /\ \A q \in Pages : Touched(q)' <=> Touched(q)
  BY <1>4, QuietData DEF IInv
<1>12. /\ \A v \in Workers \ {w} : \A q \in Pages : latch[q] = v => latch'[q] = v
       /\ \A q \in Pages : latch[q] = Ast => latch'[q] = Ast
  BY <1>3, <1>4, LatchStep DEF IInv
<1>13. Control'
  BY <1>4, <1>8, <1>10, <1>11, <1>12, WorkerStep DEF IInv
<1>14. th' \in [Workers -> Worker]
  BY <1>8 DEF GoodWorker
<1>15. blocks' \in Seq(Precedence) /\ Acyclic'
  BY SameBlocks DEF IInv, TypeOK, FlushWritten
<1>16. TypeOK'
  BY <1>9, <1>14, <1>15 DEF IInv, TypeOK, FlushWritten, data, locks, counts
<1> QED BY <1>11, <1>13, <1>15, <1>16 DEF IInv

\* The page waits for the next pass.
LEMMA StepFlushSkip ==
  ASSUME IInv, NEW w \in Workers, FlushSkip(w)
  PROVE  IInv'
<1>0. PICK p : p = th[w].window
  OBVIOUS
<1> DEFINE t == [th[w] EXCEPT !.pc = "flush", !.window = Nobody, !.rest = @ \ {p}]
<1>1. th \in [Workers -> GoodWorker] /\ th' = [th EXCEPT ![w] = t]
  BY <1>0 DEF FlushSkip, IInv, Control
<1>2. th[w] \in Worker /\ WorkerOK(th[w]) /\ Holds(w, th[w]) /\ th[w].write_buffer = Nobody
      /\ th[w].pc = "skip"
  BY <1>1 DEF GoodWorker, IInv, Control, FlushSkip, At
<1>3. p \in Pages /\ latch[p] = w
  BY <1>0, <1>2 DEF WorkerOK, Holds, FlushSkip
<1>4. latch' = [latch EXCEPT ![p] = Nobody]
      /\ UNCHANGED <<disk, buf, dirty, held, lost, down>>
  BY <1>0 DEF FlushSkip, data, locks, counts
<1>5. t \in Worker
  <2>1. th[w].todo \ {p} \in SUBSET Pages /\ th[w].rest \ {p} \in SUBSET Pages
    BY <1>2 DEF Worker
  <2>2. p \in Pages
    BY <1>3
  <2>3. th[w] \in Worker
    BY <1>2
  <2> QED BY <2>1, <2>2, <2>3 DEF Worker
<1>6. WorkerOK(t) /\ t.pc = "flush"
  BY <1>2, <1>3 DEF Worker, WorkerOK
<1> HIDE DEF t
<1>7. t \in GoodWorker
  BY <1>5, <1>6 DEF GoodWorker
<1>8. th' \in [Workers -> GoodWorker] /\ th'[w] = t /\ \A v \in Workers \ {w} : th'[v] = th[v]
  BY <1>1, <1>7
<1>9. latch' \in [Pages -> Workers \union {Ast, Nobody}] /\ latch'[p] = Nobody
  BY <1>3, <1>4 DEF IInv, TypeOK
<1>10. Holds(w, th[w])'
  BY <1>6, <1>8, <1>9 DEF Holds
<1>11. DataOK' /\ \A q \in Pages : Touched(q)' <=> Touched(q)
  BY <1>4, QuietData DEF IInv
<1>12. /\ \A v \in Workers \ {w} : \A q \in Pages : latch[q] = v => latch'[q] = v
       /\ \A q \in Pages : latch[q] = Ast => latch'[q] = Ast
  BY <1>3, <1>4, LatchStep DEF IInv
<1>13. Control'
  BY <1>4, <1>8, <1>10, <1>11, <1>12, WorkerStep DEF IInv
<1>14. th' \in [Workers -> Worker]
  BY <1>8 DEF GoodWorker
<1>15. blocks' \in Seq(Precedence) /\ Acyclic'
  BY SameBlocks DEF IInv, TypeOK, FlushSkip
<1>16. TypeOK'
  BY <1>9, <1>14, <1>15 DEF IInv, TypeOK, FlushSkip, data, locks, counts
<1> QED BY <1>11, <1>13, <1>15, <1>16 DEF IInv

\* A page is written, or is not dirty; its lock may be given up.
LEMMA WrittenData ==
  ASSUME TypeOK, DataOK, NEW p \in Pages, p \notin dirty => UNCHANGED disk,
         p \in dirty => disk' = [disk EXCEPT ![p] = buf[p]],
         dirty' = dirty \ {p}, UNCHANGED <<buf, lost>>, held' \subseteq held, held \ {p} \subseteq held'
  PROVE  DataOK' /\ \A q \in Pages : Touched(q) => Touched(q)'
<1>1. \A q \in Pages : /\ q # p => disk'[q] = disk[q]
                       /\ q = p /\ q \in dirty => disk'[q] = buf[q]
                       /\ q = p /\ q \notin dirty => disk'[q] = disk[q]
  BY DEF TypeOK
<1>2. \A q \in Pages : Touched(q) => Touched(q)'
  BY <1>1 DEF Touched
<1>3. CleanOnDisk'
  BY <1>1 DEF DataOK, CleanOnDisk, TypeOK
<1>4. DirtyLocked'
  BY DEF DataOK, DirtyLocked
<1>5. \A q \in dirty' : Touched(q)'
  BY <1>2 DEF DataOK, TypeOK
<1> QED BY <1>2, <1>3, <1>4, <1>5 DEF DataOK

\* The changes of a page are given up with its lock.
LEMMA GivenUpData ==
  ASSUME TypeOK, DataOK, NEW p \in Pages,
         disk' \in {disk, [disk EXCEPT ![p] = buf[p]]},
         dirty' = dirty \ {p}, held' = held \ {p}, UNCHANGED buf,
         lost' = [lost EXCEPT ![p] = IF @ < buf[p].ver THEN buf[p].ver ELSE @]
  PROVE  /\ DataOK' /\ \A q \in Pages : Touched(q) => Touched(q)'
         /\ \A q \in Pages : lost[q] # 0 => lost'[q] # 0
         /\ Touched(p) => lost'[p] # 0
<1>1. /\ \A q \in Pages \ {p} : disk'[q] = disk[q] /\ lost'[q] = lost[q]
      /\ lost'[p] = IF lost[p] < buf[p].ver THEN buf[p].ver ELSE lost[p]
      /\ lost[p] \in Nat /\ buf[p].ver \in Nat
  BY DEF TypeOK, Contents
<1>2. (lost[p] # 0 => lost'[p] # 0) /\ (Touched(p) => lost'[p] # 0)
  BY <1>1 DEF Touched
<1>3. \A q \in Pages : Touched(q) => Touched(q)'
  BY <1>1, <1>2 DEF Touched
<1>4. CleanOnDisk'
  BY <1>1 DEF DataOK, CleanOnDisk, TypeOK
<1>5. DirtyLocked'
  BY <1>1 DEF DataOK, DirtyLocked, TypeOK
<1>6. \A q \in dirty' : Touched(q)'
  BY <1>3 DEF DataOK, TypeOK
<1> QED BY <1>1, <1>2, <1>3, <1>4, <1>5, <1>6 DEF DataOK

\* write_buffer: the page is written, unless this fails.
LEMMA StepWriteBuffer ==
  ASSUME IInv, NEW w \in Workers, WriteBuffer(w)
  PROVE  IInv'
<1>0. PICK p : p = th[w].writing
  OBVIOUS
<1>1. th \in [Workers -> GoodWorker]
  BY DEF IInv, Control
<1>2. th[w] \in Worker /\ WorkerOK(th[w]) /\ Holds(w, th[w]) /\ th[w].write_buffer # Nobody
  BY <1>1 DEF GoodWorker, IInv, Control, WriteBuffer, Writable, Writing
<1>3. p \in Pages /\ th[w].window \in Pages /\ th[w].pc \notin {"idle", "flush", "repost"}
  BY <1>0, <1>2 DEF WorkerOK
<1>4. UNCHANGED <<buf, not_valid, held, lost, latch, down>>
  BY DEF WriteBuffer, locks
<1> DEFINE u == [th[w] EXCEPT !.write_pc = "clear"]
           r == [Idle EXCEPT !.pc = "release", !.window = th[w].window]
<1>5. \/ th' = [th EXCEPT ![w] = u] /\ WritePage(p) /\ dirty' = dirty \ {p}
      \/ th' = [th EXCEPT ![w] = r] /\ WriteFails(p) /\ UNCHANGED dirty
  BY <1>0 DEF WriteBuffer, Finished
<1>6. u \in GoodWorker /\ Holds(w, u)
  <2>1. u \in Worker
    BY <1>2 DEF Worker
  <2>2. WorkerOK(u) /\ Holds(w, u)
    BY <1>2 DEF Worker, WorkerOK, Holds
  <2> QED BY <2>1, <2>2 DEF GoodWorker
<1>7. r \in GoodWorker /\ Holds(w, r)
  <2>1. latch[th[w].window] = w
    BY <1>2, <1>3 DEF Holds
  <2>2. r \in Worker
    BY <1>3 DEF Worker, Idle
  <2>3. r.pc = "release" /\ r.window = th[w].window /\ r.write_buffer = Nobody
    BY DEF Idle
  <2> HIDE DEF r
  <2> QED BY <1>3, <2>1, <2>2, <2>3 DEF GoodWorker, WorkerOK, Holds
<1> HIDE DEF u, r
<1>8. PICK t : th' = [th EXCEPT ![w] = t] /\ t \in GoodWorker /\ Holds(w, t)
  BY <1>5, <1>6, <1>7
<1>9. th' \in [Workers -> GoodWorker] /\ th'[w] = t /\ \A v \in Workers \ {w} : th'[v] = th[v]
  BY <1>1, <1>8
<1>10. Holds(w, th[w])'
  BY <1>4, <1>8, <1>9 DEF Holds
<1>11. DataOK' /\ \A q \in Pages : Touched(q) => Touched(q)'
  <2>1. CASE WritePage(p) /\ dirty' = dirty \ {p}
    BY <2>1, <1>3, <1>4, WrittenData DEF IInv, WritePage, WriteSucceeds
  <2>2. CASE WriteFails(p) /\ UNCHANGED dirty
    BY <2>2, <1>4, QuietData DEF IInv, WriteFails
  <2> QED BY <1>5, <2>1, <2>2
<1>12. Control'
  BY <1>4, <1>9, <1>10, <1>11, WorkerStep DEF IInv
<1>13. th' \in [Workers -> Worker]
  BY <1>9 DEF GoodWorker
<1>14. blocks' \in Seq(Precedence) /\ Acyclic'
  BY UnlinkShrinks, AcyclicKept DEF IInv, TypeOK, WriteBuffer, Purge
<1>15. disk' \in [Pages -> Contents] /\ dirty' \subseteq Pages
  BY ZenonT(60), <1>3, <1>5 DEF IInv, TypeOK, WritePage, WriteSucceeds, WriteFails
<1>16. failures' \in 0 .. MaxChanges - incarnation
  BY <1>5, CacheAssumption DEF IInv, TypeOK, WritePage, WriteSucceeds, WriteFails
<1>17. TypeOK'
  BY <1>13, <1>14, <1>15, <1>16 DEF IInv, TypeOK, WriteBuffer, locks
<1> QED BY <1>11, <1>12, <1>14, <1>17 DEF IInv

\* CCH_mark: the page is under its lock, or its changes are given up anyway.
LEMMA StepCCH_mark ==
  ASSUME IInv, NEW w \in Workers, CCH_mark(w)
  PROVE  IInv'
<1>0. PICK p : p = th[w].window
  OBVIOUS
<1> DEFINE t == [th[w] EXCEPT !.pc = "marked", !.high = Nobody, !.need = 0]
<1>1. th \in [Workers -> GoodWorker] /\ th' = [th EXCEPT ![w] = t]
  BY DEF CCH_mark, IInv, Control
<1>2. th[w] \in Worker /\ WorkerOK(th[w]) /\ Holds(w, th[w]) /\ th[w].write_buffer = Nobody
      /\ th[w].pc \in {"window", "ready"}
  BY <1>1 DEF GoodWorker, IInv, Control, CCH_mark, At
<1>3. p \in Pages /\ latch[p] = w /\ (p \in held \/ lost[p] # 0)
  BY <1>0, <1>2 DEF WorkerOK, Holds
<1>4. UNCHANGED <<disk, not_valid, held, lost, latch, down>> /\ dirty' = dirty \union {p}
  BY <1>0 DEF CCH_mark, locks
<1>5. t \in Worker
  BY ZenonT(60), <1>2 DEF Worker
<1>6. t.pc = "marked" /\ t.window = p /\ t.write_buffer = Nobody
  BY <1>0, <1>2 DEF Worker
<1> HIDE DEF t
<1>7. t \in GoodWorker
  BY <1>3, <1>5, <1>6 DEF GoodWorker, WorkerOK
<1>8. th' \in [Workers -> GoodWorker] /\ th'[w] = t /\ \A v \in Workers \ {w} : th'[v] = th[v]
  BY <1>1, <1>7
<1>9. Holds(w, th[w])'
  BY <1>3, <1>4, <1>6, <1>8 DEF Holds
<1>10. PICK n \in [Pages -> Nat] : buf' = [buf EXCEPT ![p] = [ver |-> incarnation + 1, needs |-> n]]
  <2>1. buf[p].needs \in [Pages -> Nat] /\ th[w].need \in Nat /\ th[w].high \in Pages \union {Nobody}
    BY <1>2, <1>3 DEF IInv, TypeOK, Contents, Worker
  <2>2. [buf[p].needs EXCEPT ![th[w].high] = th[w].need] \in [Pages -> Nat]
    BY <2>1
  <2> QED BY <1>0, <2>1, <2>2 DEF CCH_mark
<1>11. incarnation \in Nat /\ incarnation + 1 \in Nat /\ incarnation + 1 # 0
  BY DEF IInv, TypeOK
<1>12. buf' \in [Pages -> Contents] /\ buf'[p].ver # 0 /\ \A q \in Pages \ {p} : buf'[q] = buf[q]
  BY <1>3, <1>10, <1>11 DEF IInv, TypeOK, Contents
<1>13. \A q \in Pages : Touched(q) => Touched(q)'
  BY <1>4, <1>12 DEF Touched
<1>14. DataOK'
  <2>1. CleanOnDisk' /\ DirtyLocked'
    BY <1>3, <1>4, <1>12 DEF IInv, TypeOK, DataOK, CleanOnDisk, DirtyLocked
  <2>2. Touched(p)'
    BY <1>3, <1>4, <1>12 DEF Touched
  <2> QED BY <1>4, <1>13, <2>1, <2>2 DEF DataOK, IInv, TypeOK
<1>15. Control'
  BY <1>4, <1>8, <1>9, <1>13, WorkerStep DEF IInv
<1>16. th' \in [Workers -> Worker]
  BY <1>8 DEF GoodWorker
<1>17. io' \in [Pages -> Workers \union {Ast, Nobody}] /\ dirty' \subseteq Pages
  BY <1>3, <1>4 DEF IInv, TypeOK, CCH_mark
<1>18. incarnation' \in 0 .. MaxChanges /\ failures' \in 0 .. MaxChanges - incarnation'
  BY CacheAssumption DEF IInv, TypeOK, CCH_mark
<1>19. TypeOK'
  BY <1>12, <1>16, <1>17, <1>18 DEF IInv, TypeOK, CCH_mark, locks
<1>20. Acyclic'
  BY SameBlocks DEF IInv, CCH_mark
<1> QED BY <1>14, <1>15, <1>19, <1>20 DEF IInv

\* CCH_fetch: the latch, then the lock, and a page whose lock had been given up is
\* read again.
LEMMA StepCCH_fetch ==
  ASSUME IInv, NEW w \in Workers, NEW p \in Pages, CCH_fetch(w, p)
  PROVE  IInv'
<1> DEFINE t == [th[w] EXCEPT !.pc = "window", !.window = p]
<1>1. th \in [Workers -> GoodWorker] /\ th' = [th EXCEPT ![w] = t]
  BY DEF CCH_fetch, IInv, Control
<1>2. th[w] \in Worker /\ th[w].write_buffer = Nobody /\ latch[p] = Nobody
  BY <1>1 DEF GoodWorker, IInv, Control, CCH_fetch, At
<1>3. latch' = [latch EXCEPT ![p] = w] /\ held' = held \union {p}
      /\ UNCHANGED <<disk, dirty, lost, down, blocks>>
  BY DEF CCH_fetch, counts
<1>4. t \in Worker
  BY <1>2 DEF Worker
<1>5. t.pc = "window" /\ t.window = p /\ t.write_buffer = Nobody
  BY <1>2 DEF Worker
<1> HIDE DEF t
<1>6. t \in GoodWorker
  BY <1>4, <1>5 DEF GoodWorker, WorkerOK
<1>7. th' \in [Workers -> GoodWorker] /\ th'[w] = t /\ \A v \in Workers \ {w} : th'[v] = th[v]
  BY <1>1, <1>6
<1>8. latch' \in [Pages -> Workers \union {Ast, Nobody}] /\ latch'[p] = w
  BY <1>3 DEF IInv, TypeOK
<1>9. Holds(w, th[w])'
  BY <1>3, <1>5, <1>7, <1>8 DEF Holds
<1>10. /\ \A v \in Workers \ {w} : \A q \in Pages : latch[q] = v => latch'[q] = v
       /\ \A q \in Pages : latch[q] = Ast => latch'[q] = Ast
  BY <1>2, <1>3, LatchStep DEF IInv
<1>11. /\ buf' \in [Pages -> Contents] /\ not_valid' \subseteq Pages
       /\ \A q \in Pages : buf'[q] = IF q = p /\ p \notin held THEN disk[q] ELSE buf[q]
  BY DEF CCH_fetch, IInv, TypeOK
<1>12. \A q \in Pages : Touched(q) => Touched(q)'
  BY <1>3, <1>11 DEF Touched
<1>13. DataOK'
  BY <1>3, <1>11, <1>12 DEF IInv, TypeOK, DataOK, CleanOnDisk, DirtyLocked
<1>14. Control'
  BY <1>3, <1>7, <1>9, <1>10, <1>12, WorkerStep DEF IInv
<1>15. th' \in [Workers -> Worker]
  BY <1>7 DEF GoodWorker
<1>16. TypeOK'
  BY <1>8, <1>11, <1>15 DEF IInv, TypeOK, CCH_fetch, counts
<1>17. Acyclic'
  BY <1>3, SameBlocks DEF IInv
<1> QED BY <1>13, <1>14, <1>16, <1>17 DEF IInv

-----------------------------------------------------------------------------
(* Other processes, and the thread of the blocking ASTs.                   *)

\* Another process waits for a page lock.
LEMMA StepRequest ==
  ASSUME IInv, NEW p \in Pages, Request(p)
  PROVE  IInv'
<1>1. DataOK' /\ \A q \in Pages : Touched(q)' <=> Touched(q)
  BY QuietData DEF IInv, Request, data, counts
<1>2. TouchedPages' = TouchedPages
  BY <1>1 DEF TouchedPages
<1>3. Control'
  BY <1>2 DEF IInv, Control, Holds, Request, data, counts
<1>4. TypeOK'
  BY CacheAssumption DEF IInv, TypeOK, Request, data, counts
<1>5. Acyclic'
  BY SameBlocks DEF IInv, Request
<1> QED BY <1>1, <1>3, <1>4, <1>5 DEF IInv

\* It modifies a page whose lock this process does not hold.
LEMMA StepOtherUpdate ==
  ASSUME IInv, NEW p \in Pages, OtherUpdate(p)
  PROVE  IInv'
<1>1. /\ disk' = [disk EXCEPT ![p].ver = incarnation + 1] /\ p \notin held
      /\ UNCHANGED <<buf, dirty, held, lost, latch, th, down, blocks>>
  BY DEF OtherUpdate, locks
<1>2. incarnation \in Nat /\ incarnation + 1 \in Nat /\ incarnation + 1 # 0
  BY DEF IInv, TypeOK
<1>3. /\ disk' \in [Pages -> Contents]
      /\ disk'[p].ver # 0 /\ \A q \in Pages \ {p} : disk'[q] = disk[q]
  <2>1. disk \in [Pages -> Contents] /\ disk[p] \in Contents
    BY DEF IInv, TypeOK
  <2>2. [disk[p] EXCEPT !.ver = incarnation + 1] \in Contents
        /\ [disk[p] EXCEPT !.ver = incarnation + 1].ver = incarnation + 1
    BY <1>2, <2>1 DEF Contents
  <2>3. disk' = [disk EXCEPT ![p] = [disk[p] EXCEPT !.ver = incarnation + 1]]
    BY <1>1
  <2> QED BY <1>2, <2>1, <2>2, <2>3
<1>4. \A q \in Pages : Touched(q) => Touched(q)'
  BY <1>1, <1>3 DEF Touched
<1>5. DataOK'
  BY <1>1, <1>3, <1>4 DEF IInv, TypeOK, DataOK, CleanOnDisk, DirtyLocked
<1>6. TouchedPages \subseteq TouchedPages'
  BY <1>4 DEF TouchedPages
<1>7. FramesOK(down, latch, TouchedPages')
  BY <1>6, FramesMono DEF IInv, Control
<1>8. Control'
  BY <1>1, <1>7 DEF IInv, Control, Holds
<1>9. incarnation' \in 0 .. MaxChanges /\ failures' \in 0 .. MaxChanges - incarnation'
  BY CacheAssumption DEF IInv, TypeOK, OtherUpdate
<1>10. TypeOK'
  BY <1>3, <1>9 DEF IInv, TypeOK, OtherUpdate, locks
<1>11. Acyclic'
  BY <1>1, SameBlocks DEF IInv
<1> QED BY <1>5, <1>8, <1>10, <1>11 DEF IInv

\* A call of down_grade.
LEMMA FrameMade ==
  ASSUME NEW p \in Pages, NEW high \in BOOLEAN
  PROVE  down_grade(p, high) \in Frame /\ ~ Examined(down_grade(p, high))
BY DEF down_grade, Frame, Examined

\* The activation at work.
LEMMA TopOK ==
  ASSUME TypeOK, Control, down # <<>>
  PROVE  /\ Head(down) \in Frame /\ bdb \in Pages /\ down \in Seq(Frame)
         /\ Latching(Head(down)) => latch[bdb] = Ast
         /\ Examined(Head(down)) /\ justWrite => Touched(bdb)
<1>1. FramesOK(down, latch, TouchedPages) /\ down \in Seq(Frame)
  BY DEF TypeOK, Control
<1>2. Head(down) = down[1] /\ 1 \in DOMAIN down /\ Head(down) \in Frame
  BY <1>1
<1> QED BY <1>1, <1>2, FramePage DEF FramesOK, bdb, justWrite, TouchedPages

\* A step of the thread of the ASTs.
LEMMA AstControl ==
  ASSUME TypeOK, Control, UNCHANGED th, FramesOK(down', latch', TouchedPages'),
         \A v \in Workers : \A p \in Pages :
            latch[p] = v => /\ latch'[p] = v
                            /\ p \in held \/ lost[p] # 0 => p \in held' \/ lost'[p] # 0
  PROVE  Control' /\ down' \in Seq(Frame)
<1>1. ASSUME NEW v \in Workers
      PROVE  Holds(v, th[v])'
  <2>1. Holds(v, th[v]) /\ WorkerOK(th[v])
    BY DEF Control, GoodWorker
  <2> QED BY <2>1 DEF Holds, WorkerOK
<1>2. FramesOK(down, latch, TouchedPages)'
  OBVIOUS
<1> QED BY <1>1, <1>2 DEF Control, FramesOK

\* One that changes neither pages nor page locks nor latches.
LEMMA AstQuiet ==
  ASSUME TypeOK, Control, DataOK, FramesOK(down', latch, TouchedPages),
         UNCHANGED <<disk, buf, dirty, held, lost, latch, th>>
  PROVE  Control' /\ DataOK' /\ down' \in Seq(Frame)
<1>1. DataOK' /\ \A q \in Pages : Touched(q)' <=> Touched(q)
  BY QuietData
<1>2. TouchedPages' = TouchedPages
  BY <1>1 DEF TouchedPages
<1> QED BY <1>1, <1>2, AstControl

\* A blocking AST is delivered.
LEMMA StepBlockingAst ==
  ASSUME IInv, NEW p \in Pages, BlockingAst(p)
  PROVE  IInv'
<1>1. down' = <<down_grade(p, FALSE)>> \o down
  BY DEF BlockingAst, down_grade, Frame
<1>2. FramesOK(down', latch, TouchedPages)
  BY <1>1, FrameMade, FramesPush DEF IInv, Control
<1>3. Control' /\ DataOK' /\ down' \in Seq(Frame)
  BY <1>2, AstQuiet DEF IInv, BlockingAst, data, locks, counts
<1>4. TypeOK'
  BY <1>3 DEF IInv, TypeOK, BlockingAst, data, locks, counts
<1>5. Acyclic'
  BY SameBlocks DEF IInv, BlockingAst
<1> QED BY <1>3, <1>4, <1>5 DEF IInv

\* A page in use, a page that is dirty, and one that is given up quietly.
LEMMA StepDownLatch ==
  ASSUME IInv, DownLatch
  PROVE  IInv'
<1>1. down # <<>> /\ FramesOK(down, latch, TouchedPages)
  BY DEF DownLatch, DownAt, IInv, Control
<1>2. Head(down) \in Frame /\ bdb \in Pages /\ bdb = Head(down).page
  BY <1>1, TopOK DEF IInv, bdb
<1>3. Acyclic' /\ blocks' \in Seq(Precedence)
  BY SameBlocks DEF IInv, TypeOK, DownLatch
<1>4. Control' /\ DataOK' /\ down' \in Seq(Frame)
  <2>1. CASE UNCHANGED <<blocking, locks, latch>> /\ Head(down).high /\ DownGo("io")
    <3>1. PICK f : f = [Head(down) EXCEPT !.pc = "io"]
      OBVIOUS
    <3>2. f \in Frame /\ f.page = Head(down).page /\ f.pc = "io"
      BY <1>2, <3>1 DEF Frame
    <3>3. FramesOK(down', latch, TouchedPages)
      BY <1>1, <2>1, <3>1, <3>2, FramesTop DEF DownGo, Latching, Examined
    <3> QED BY <2>1, <3>3, AstQuiet DEF IInv, DownLatch, data, locks, counts
  <2>2. CASE UNCHANGED <<blocking, locks, latch>> /\ DownReturn
    <3>1. FramesOK(down', latch, TouchedPages)
      BY <1>1, <2>2, FramesPop DEF DownReturn
    <3> QED BY <2>2, <3>1, AstQuiet DEF IInv, DownLatch, data, locks, counts
  <2>3. CASE latch[bdb] = Nobody /\ latch' = [latch EXCEPT ![bdb] = Ast]
             /\ Examine(FALSE) /\ UNCHANGED <<blocking, locks>>
    <3> DEFINE b == bdb \in not_valid
    <3>0. b \in BOOLEAN
      OBVIOUS
    <3>1. PICK f : f = [Head(down) EXCEPT !.pc = "higher", !.invalid = b, !.justWrite = FALSE]
      OBVIOUS
    <3> HIDE DEF b
    <3>2. f \in Frame /\ f.page = bdb /\ ~ f.justWrite
      BY <1>2, <3>0, <3>1 DEF Frame
    <3>3. down' = <<f>> \o Tail(down)
      BY <2>3, <3>1 DEF Examine, b
    <3>4. latch \in [Pages -> Workers \union {Ast, Nobody}] /\ Ast # Nobody
      BY CacheAssumption DEF IInv, TypeOK
    <3>5. FramesOK(down', latch', TouchedPages)
      BY <1>1, <1>2, <2>3, <3>2, <3>3, <3>4, FramesTake
    <3>6. UNCHANGED <<disk, buf, dirty, held, lost, th>>
      BY <2>3 DEF DownLatch, data, locks, counts
    <3>7. DataOK' /\ \A q \in Pages : Touched(q)' <=> Touched(q)
      BY <3>6, QuietData DEF IInv
    <3>8. TouchedPages' = TouchedPages
      BY <3>7 DEF TouchedPages
    <3>9. \A v \in Workers : \A p \in Pages : latch[p] = v => latch'[p] = v
      BY <2>3, <3>4, CacheAssumption
    <3> QED BY <3>5, <3>6, <3>7, <3>8, <3>9, AstControl DEF IInv
  <2>4. CASE latch[bdb] = Nobody /\ bdb \notin dirty /\ LCK_downgrade(bdb) /\ DownReturn
             /\ UNCHANGED latch
    <3>1. PICK p \in Pages : p = bdb
      BY <1>2
    <3>2. UNCHANGED <<disk, buf, dirty, lost, th>> /\ dirty' = dirty \ {p} /\ p \notin dirty
          /\ held' \subseteq held /\ held \ {p} \subseteq held'
      BY <2>4, <3>1 DEF DownLatch, data, counts, LCK_downgrade
    <3>3. DataOK' /\ \A q \in Pages : Touched(q) => Touched(q)'
      BY <3>2, WrittenData DEF IInv
    <3>4. TouchedPages \subseteq TouchedPages'
      BY <3>3 DEF TouchedPages
    <3>5. FramesOK(down', latch', TouchedPages')
      BY <1>1, <2>4, <3>4, FramesPop, FramesMono DEF DownReturn
    <3>6. \A v \in Workers : \A q \in Pages : latch[q] = v => q # p
      BY <2>4, <3>1, CacheAssumption
    <3> QED BY <2>4, <3>2, <3>3, <3>5, <3>6, AstControl DEF IInv
  <2> QED BY <2>1, <2>2, <2>3, <2>4 DEF DownLatch
<1>5. /\ latch' \in [Pages -> Workers \union {Ast, Nobody}] /\ blocking' \subseteq Pages
      /\ held' \subseteq Pages /\ wanted' \subseteq Pages /\ requests' = requests
  BY <1>2 DEF IInv, TypeOK, DownLatch, locks, LCK_downgrade
<1>6. th' \in [Workers -> Worker]
  BY DEF DownLatch, IInv, TypeOK
<1>7. TypeOK'
  BY <1>3, <1>4, <1>5, <1>6 DEF IInv, TypeOK, DownLatch, data, counts
<1> QED BY <1>3, <1>4, <1>7 DEF IInv

\* A dirty page in use is examined all the same.
LEMMA StepDownIO ==
  ASSUME IInv, DownIO
  PROVE  IInv'
<1>1. down # <<>> /\ FramesOK(down, latch, TouchedPages)
  BY DEF DownIO, DownAt, IInv, Control
<1>2. Head(down) \in Frame /\ bdb \in Pages /\ bdb = Head(down).page
  BY <1>1, TopOK DEF IInv, bdb
<1>3. FramesOK(down', latch, TouchedPages)
  <2>1. CASE bdb \in dirty
    <3> DEFINE b == bdb \in not_valid
    <3>0. b \in BOOLEAN
      OBVIOUS
    <3>1. PICK f : f = [Head(down) EXCEPT !.pc = "higher", !.invalid = b, !.justWrite = TRUE]
      OBVIOUS
    <3> HIDE DEF b
    <3>2. f \in Frame /\ f.page = Head(down).page /\ f.justWrite
      BY <1>2, <3>0, <3>1 DEF Frame
    <3>3. Head(down).page \in TouchedPages
      BY <1>2, <2>1 DEF IInv, DataOK, TouchedPages
    <3>4. down' = <<f>> \o Tail(down)
      BY <2>1, <3>1 DEF DownIO, Examine, b
    <3> QED BY <1>1, <3>2, <3>3, <3>4, FramesTop DEF Latching
  <2>2. CASE bdb \notin dirty
    BY <1>1, <2>2, FramesPop DEF DownIO, DownReturn
  <2> QED BY <2>1, <2>2
<1>4. Control' /\ DataOK' /\ down' \in Seq(Frame)
  BY <1>3, AstQuiet DEF IInv, DownIO, data, locks, counts
<1>5. io' \in [Pages -> Workers \union {Ast, Nobody}] /\ blocking' \subseteq Pages
  BY <1>2 DEF IInv, TypeOK, DownIO
<1>6. TypeOK'
  BY <1>4, <1>5 DEF IInv, TypeOK, DownIO, data, locks, counts
<1>7. Acyclic'
  BY SameBlocks DEF IInv, DownIO
<1> QED BY <1>4, <1>6, <1>7 DEF IInv

\* Two activations are put in front one after the other.
LEMMA TwoFrames ==
  ASSUME NEW f \in Frame, NEW g \in Frame, NEW D \in Seq(Frame)
  PROVE  <<g, f>> \o D = <<g>> \o (<<f>> \o D)
<1> DEFINE C == <<f>> \o D
           E == <<g, f>> \o D
           F == <<g>> \o C
<1>1. C \in Seq(Frame) /\ Len(C) = Len(D) + 1 /\ C[1] = f /\ \A i \in 1 .. Len(D) : C[i + 1] = D[i]
  OBVIOUS
<1>2. E \in Seq(Frame) /\ Len(E) = Len(D) + 2 /\ E[1] = g /\ E[2] = f
      /\ \A i \in 1 .. Len(D) : E[i + 2] = D[i]
  OBVIOUS
<1> HIDE DEF C
<1>3. F \in Seq(Frame) /\ Len(F) = Len(C) + 1 /\ F[1] = g /\ \A i \in 1 .. Len(C) : F[i + 1] = C[i]
  BY <1>1
<1> HIDE DEF E, F
<1>4. Len(D) \in Nat
  OBVIOUS
<1>5. ASSUME NEW i \in 1 .. Len(E)
      PROVE  E[i] = F[i]
  <2>1. CASE i = 1
    BY <2>1, <1>2, <1>3
  <2>2. CASE i = 2
    BY <2>2, <1>1, <1>2, <1>3, <1>4
  <2>3. CASE i > 2
    <3>1. i - 2 \in 1 .. Len(D) /\ i - 1 \in 1 .. Len(C) /\ i = (i - 2) + 2 /\ i = (i - 1) + 1
          /\ i - 1 = (i - 2) + 1
      BY <2>3, <1>1, <1>2, <1>4
    <3> QED BY <3>1, <1>1, <1>2, <1>3
  <2> QED BY <2>1, <2>2, <2>3, <1>2, <1>4
<1>6. E = F
  BY <1>1, <1>2, <1>3, <1>4, <1>5, SeqEqual
<1> QED BY <1>6 DEF C, E, F

\* A higher page is down graded first, or there is none to wait for.
LEMMA StepDownHigher ==
  ASSUME IInv, DownHigher
  PROVE  IInv'
<1>1. down # <<>> /\ FramesOK(down, latch, TouchedPages) /\ Head(down).pc = "higher"
  BY DEF DownHigher, DownAt, IInv, Control
<1>2. Head(down) \in Frame /\ bdb \in Pages /\ bdb = Head(down).page
      /\ (Examined(Head(down)) /\ justWrite => bdb \in TouchedPages)
  BY <1>1, TopOK DEF IInv, bdb, TouchedPages
<1>3. FramesOK(down', latch, TouchedPages) /\ blocking' \subseteq Pages
  <2>1. CASE DownGo("write") /\ UNCHANGED blocking
    <3>1. PICK f : f = [Head(down) EXCEPT !.pc = "write"]
      OBVIOUS
    <3>2. f \in Frame /\ f.page = Head(down).page /\ f.justWrite = Head(down).justWrite
      BY <1>2, <3>1 DEF Frame
    <3>3. FramesOK(down', latch, TouchedPages)
      BY <1>1, <1>2, <2>1, <3>1, <3>2, FramesTop DEF DownGo, Latching, Examined, justWrite
    <3> QED BY <2>1, <3>3 DEF IInv, TypeOK
  <2>2. ASSUME NEW i \in DOMAIN blocks, NEW h, h = blocks[i].pre_hi, Waits(i),
               blocking' = blocking \union {h},
               down' = <<down_grade(h, TRUE),
                         [Head(down) EXCEPT !.pc = "back", !.precedence = i,
                                            !.blocking_bdb = h]>> \o Tail(down)
        PROVE  FramesOK(down', latch, TouchedPages) /\ blocking' \subseteq Pages
    <3>1. h \in Pages /\ i \in Nat
      <4>1. blocks \in Seq(Precedence) /\ blocks[i] \in Precedence
        BY DEF IInv, TypeOK
      <4> QED BY <4>1, <2>2 DEF Waits, Linked, Precedence
    <3>2. PICK f : f = [Head(down) EXCEPT !.pc = "back", !.precedence = i, !.blocking_bdb = h]
      OBVIOUS
    <3>3. f \in Frame /\ f.page = Head(down).page /\ f.justWrite = Head(down).justWrite
      BY <1>2, <3>1, <3>2 DEF Frame
    <3>4. FramesOK(<<f>> \o Tail(down), latch, TouchedPages)
      BY <1>1, <1>2, <3>2, <3>3, FramesTop DEF Latching, Examined, justWrite
    <3>5. PICK g \in Frame : g = down_grade(h, TRUE) /\ ~ Examined(g)
      BY <3>1, FrameMade
    <3>6. down' = <<g>> \o (<<f>> \o Tail(down))
      <4>1. Tail(down) \in Seq(Frame)
        BY <1>1 DEF IInv, TypeOK
      <4>2. <<g, f>> \o Tail(down) = <<g>> \o (<<f>> \o Tail(down))
        BY <3>3, <3>5, <4>1, TwoFrames
      <4> QED BY <2>2, <3>2, <3>5, <4>2
    <3>7. FramesOK(down', latch, TouchedPages)
      BY <3>4, <3>5, <3>6, FramesPush
    <3> QED BY <2>2, <3>1, <3>7 DEF IInv, TypeOK
  <2> QED BY <2>1, <2>2 DEF DownHigher
<1>4. Control' /\ DataOK' /\ down' \in Seq(Frame)
  BY <1>3, AstQuiet DEF IInv, DownHigher, data, locks, counts
<1>5. blocks' \in Seq(Precedence) /\ Acyclic'
  BY SameBlocks, MarkClearedShrinks, AcyclicKept DEF IInv, TypeOK, DownHigher
<1>6. TypeOK'
  BY <1>3, <1>4, <1>5 DEF IInv, TypeOK, DownHigher, data, locks, counts
<1> QED BY <1>4, <1>5, <1>6 DEF IInv

\* The end of an activation: the latch it has taken is free again.
LEMMA LeaveOK ==
  ASSUME TypeOK, Control, down # <<>>, Examined(Head(down)), Leave
  PROVE  /\ FramesOK(down', latch', TouchedPages)
         /\ latch' \in [Pages -> Workers \union {Ast, Nobody}]
         /\ io' \in [Pages -> Workers \union {Ast, Nobody}]
         /\ \A v \in Workers : \A p \in Pages : latch[p] = v => latch'[p] = v
<1>1. FramesOK(down, latch, TouchedPages) /\ latch \in [Pages -> Workers \union {Ast, Nobody}]
  BY DEF TypeOK, Control
<1>2. bdb = Head(down).page /\ justWrite = Head(down).justWrite
  BY DEF bdb, justWrite
<1>3. CASE justWrite
  BY <1>1, <1>3, FramesPop DEF Leave, DownReturn, UnlockIO, TypeOK
<1>4. CASE ~ justWrite
  <2>1. Latching(Head(down)) /\ latch[bdb] = Ast
    BY <1>2, <1>4, TopOK DEF Latching
  <2>2. latch' = [latch EXCEPT ![bdb] = Nobody] /\ UNCHANGED io /\ down' = Tail(down)
    BY <1>4 DEF Leave, DownReturn
  <2>3. FramesOK(down', latch', TouchedPages)
    BY <1>1, <1>2, <2>1, <2>2, FramesFree
  <2>4. \A v \in Workers : \A p \in Pages : latch[p] = v => latch'[p] = v
    BY <1>1, <2>1, <2>2, CacheAssumption
  <2> QED BY <1>1, <2>2, <2>3, <2>4 DEF TypeOK
<1> QED BY <1>3, <1>4

\* Nothing else changes.
LEMMA LeaveControl ==
  ASSUME TypeOK, Control, DataOK, down # <<>>, Examined(Head(down)), Leave,
         UNCHANGED <<disk, buf, dirty, held, lost, th>>
  PROVE  Control' /\ DataOK' /\ down' \in Seq(Frame)
<1>1. DataOK' /\ \A q \in Pages : Touched(q)' <=> Touched(q)
  BY QuietData
<1>2. TouchedPages' = TouchedPages
  BY <1>1 DEF TouchedPages
<1> QED BY <1>1, <1>2, LeaveOK, AstControl

\* Back from a higher page.
LEMMA StepDownBack ==
  ASSUME IInv, DownBack
  PROVE  IInv'
<1>1. down # <<>> /\ FramesOK(down, latch, TouchedPages) /\ Head(down).pc = "back"
      /\ Examined(Head(down))
  BY DEF DownBack, DownAt, IInv, Control, Examined
<1>2. Head(down) \in Frame /\ bdb \in Pages /\ bdb = Head(down).page
      /\ (Examined(Head(down)) /\ justWrite => bdb \in TouchedPages)
  BY <1>1, TopOK DEF IInv, bdb, TouchedPages
<1>3. UNCHANGED <<disk, buf, dirty, held, lost, th>>
  BY DEF DownBack, data, locks
<1>4. /\ Control' /\ DataOK' /\ down' \in Seq(Frame)
      /\ latch' \in [Pages -> Workers \union {Ast, Nobody}]
      /\ io' \in [Pages -> Workers \union {Ast, Nobody}]
  <2>1. CASE Leave
    BY <1>1, <1>3, <2>1, LeaveOK, LeaveControl DEF IInv
  <2>2. ASSUME NEW b \in BOOLEAN, UNCHANGED <<latch, io>>,
               down' = <<[Head(down) EXCEPT !.pc = "higher", !.precedence = 0,
                              !.blocking_bdb = Nobody, !.invalid = b]>> \o Tail(down)
        PROVE  /\ Control' /\ DataOK' /\ down' \in Seq(Frame)
               /\ latch' \in [Pages -> Workers \union {Ast, Nobody}]
               /\ io' \in [Pages -> Workers \union {Ast, Nobody}]
    <3>1. PICK f : f = [Head(down) EXCEPT !.pc = "higher", !.precedence = 0,
                              !.blocking_bdb = Nobody, !.invalid = b]
      OBVIOUS
    <3>2. f \in Frame /\ f.page = Head(down).page /\ f.justWrite = Head(down).justWrite
      BY <1>2, <3>1 DEF Frame
    <3>3. FramesOK(down', latch, TouchedPages)
      BY <1>1, <1>2, <2>2, <3>1, <3>2, FramesTop DEF Latching, Examined, justWrite
    <3> QED BY <1>3, <2>2, <3>3, AstQuiet DEF IInv, TypeOK
  <2>3. Head(down).invalid \in BOOLEAN
    BY <1>2 DEF Frame
  <2>4. (Head(down).invalid \/ Head(down).blocking_bdb \in not_valid) \in BOOLEAN
    OBVIOUS
  <2> QED BY <2>1, <2>2, <2>4 DEF DownBack
<1>5. misled' \subseteq Pages
  BY <1>2 DEF DownBack, IInv, TypeOK
<1>6. TypeOK'
  BY <1>4, <1>5 DEF IInv, TypeOK, DownBack, data, locks
<1>7. Acyclic'
  BY SameBlocks DEF IInv, DownBack
<1> QED BY <1>4, <1>6, <1>7 DEF IInv

\* down_grade returns.
LEMMA StepDownLeave ==
  ASSUME IInv, DownLeave
  PROVE  IInv'
<1>1. down # <<>> /\ Head(down).pc = "lower" /\ Examined(Head(down))
  BY DEF DownLeave, DownAt, Examined
<1>2. UNCHANGED <<disk, buf, dirty, held, lost, th>> /\ Leave
  BY DEF DownLeave, locks, counts
<1>3. Control' /\ DataOK' /\ down' \in Seq(Frame)
  BY <1>1, <1>2, LeaveControl DEF IInv
<1>4. /\ latch' \in [Pages -> Workers \union {Ast, Nobody}]
      /\ io' \in [Pages -> Workers \union {Ast, Nobody}]
  BY <1>1, <1>2, LeaveOK DEF IInv
<1>5. TypeOK'
  BY <1>3, <1>4 DEF IInv, TypeOK, DownLeave, locks, counts
<1>6. Acyclic'
  BY SameBlocks DEF IInv, DownLeave
<1> QED BY <1>3, <1>5, <1>6 DEF IInv

\* The pages below are marked, and down graded in turn.
LEMMA StepDownLower ==
  ASSUME IInv, NEW l \in Pages, DownLower(l)
  PROVE  IInv'
<1>1. FramesOK(down', latch, TouchedPages) /\ blocking' \subseteq Pages
  <2>1. PICK g \in Frame : g = down_grade(l, FALSE) /\ ~ Examined(g)
    BY FrameMade
  <2>2. down' = <<g>> \o down \/ down' = down
    BY <2>1 DEF DownLower
  <2>3. FramesOK(down', latch, TouchedPages)
    BY <2>1, <2>2, FramesPush DEF IInv, Control
  <2> QED BY <2>3 DEF IInv, TypeOK, DownLower
<1>2. Control' /\ DataOK' /\ down' \in Seq(Frame)
  BY <1>1, AstQuiet DEF IInv, DownLower, locks, counts
<1>3. blocks' \in Seq(Precedence) /\ Acyclic'
  BY MarkClearedShrinks, AcyclicKept DEF IInv, TypeOK, DownLower
<1>4. not_valid' \subseteq Pages
  BY DEF IInv, TypeOK, DownLower
<1>5. TypeOK'
  BY <1>1, <1>2, <1>3, <1>4 DEF IInv, TypeOK, DownLower, locks, counts
<1> QED BY <1>2, <1>3, <1>5 DEF IInv

\* The page is written and its lock reduced, or it is given up.  No worker has it
\* latched, unless the activation only writes it: then its lock stays, or its changes
\* are lost.
LEMMA StepDownWrite ==
  ASSUME IInv, DownWrite
  PROVE  IInv'
<1>1. down # <<>> /\ FramesOK(down, latch, TouchedPages) /\ Head(down).pc = "write"
      /\ Examined(Head(down))
  BY DEF DownWrite, DownAt, IInv, Control, Examined
<1>2. Head(down) \in Frame /\ bdb \in Pages /\ bdb = Head(down).page
      /\ justWrite = Head(down).justWrite /\ justWrite \in BOOLEAN
      /\ (justWrite => Touched(bdb)) /\ (~ justWrite => latch[bdb] = Ast)
  <2>1. justWrite = Head(down).justWrite /\ bdb = Head(down).page
    BY DEF justWrite, bdb
  <2>2. Head(down) \in Frame
    BY <1>1, TopOK DEF IInv
  <2>3. Head(down).justWrite \in BOOLEAN
    BY <2>2 DEF Frame
  <2> QED BY <1>1, <2>1, <2>2, <2>3, TopOK DEF IInv, Latching
<1>3. PICK p \in Pages : p = bdb
  BY <1>2
<1>4. dirty' = dirty \ {p} /\ UNCHANGED <<buf, posted, latch, io, blocks, th, incarnation, misled>>
  BY <1>3 DEF DownWrite
<1>5. \/ WritePage(p) /\ Reduce
      \/ /\ disk' \in {disk, [disk EXCEPT ![p] = buf[p]]} /\ GiveUp
         /\ WriteFails(p) \/ WritePage(p)
  BY <1>3 DEF DownWrite, WritePage, WriteSucceeds, WriteFails
<1>6. /\ DataOK' /\ \A q \in Pages : Touched(q) => Touched(q)'
      /\ \A v \in Workers : \A q \in Pages :
            latch[q] = v /\ (q \in held \/ lost[q] # 0) => q \in held' \/ lost'[q] # 0
  <2>0. ~ justWrite => \A v \in Workers : latch[p] # v
    BY <1>2, <1>3, CacheAssumption
  <2>1. CASE WritePage(p) /\ Reduce
    <3>1. held' \subseteq held /\ held \ {p} \subseteq held' /\ UNCHANGED lost
          /\ (justWrite => UNCHANGED held)
      BY <1>3, <2>1 DEF Reduce, LCK_downgrade, locks
    <3>2. DataOK' /\ \A q \in Pages : Touched(q) => Touched(q)'
      BY <1>4, <2>1, <3>1, WrittenData DEF IInv, WritePage, WriteSucceeds
    <3> QED BY <2>0, <3>1, <3>2
  <2>2. CASE disk' \in {disk, [disk EXCEPT ![p] = buf[p]]} /\ GiveUp
    <3>1. held' = held \ {p}
          /\ lost' = [lost EXCEPT ![p] = IF @ < buf[p].ver THEN buf[p].ver ELSE @]
      BY <1>3, <2>2 DEF GiveUp, PAGE_LOCK_RELEASE
    <3>2. /\ DataOK' /\ \A q \in Pages : Touched(q) => Touched(q)'
          /\ \A q \in Pages : lost[q] # 0 => lost'[q] # 0
          /\ Touched(p) => lost'[p] # 0
      BY <1>4, <2>2, <3>1, GivenUpData DEF IInv
    <3> QED BY <1>2, <1>3, <2>0, <3>1, <3>2
  <2> QED BY <1>5, <2>1, <2>2
<1>7. TouchedPages \subseteq TouchedPages'
  BY <1>6 DEF TouchedPages
<1>8. FramesOK(down', latch, TouchedPages)
  <2>1. PICK f : f = [Head(down) EXCEPT !.pc = "lower"]
    OBVIOUS
  <2>2. f \in Frame /\ f.page = Head(down).page /\ f.justWrite = Head(down).justWrite
    BY <1>2, <2>1 DEF Frame
  <2>3. down' = <<f>> \o Tail(down)
    BY <2>1 DEF DownWrite, DownGo
  <2>4. f.justWrite => f.page \in TouchedPages
    BY <1>2, <2>2 DEF TouchedPages
  <2> QED BY <1>1, <2>2, <2>3, <2>4, FramesTop DEF Latching, Examined
<1>9. FramesOK(down', latch', TouchedPages')
  BY <1>4, <1>7, <1>8, FramesMono
<1>10. Control' /\ down' \in Seq(Frame)
  BY <1>4, <1>6, <1>9, AstControl DEF IInv
<1>11. disk' \in [Pages -> Contents] /\ failures' \in 0 .. MaxChanges - incarnation
  <2>1. disk' \in [Pages -> Contents]
    BY <1>5 DEF IInv, TypeOK, WritePage, WriteSucceeds
  <2>2. failures' = failures \/ (incarnation + failures < MaxChanges /\ failures' = failures + 1)
    BY <1>5 DEF WritePage, WriteSucceeds, WriteFails
  <2>3. MaxChanges \in Nat /\ incarnation \in Nat /\ failures \in 0 .. MaxChanges - incarnation
    BY CacheAssumption DEF IInv, TypeOK
  <2> QED BY <2>1, <2>2, <2>3
<1>12. /\ not_valid' \subseteq Pages /\ blocking' \subseteq Pages /\ held' \subseteq Pages
       /\ wanted' \subseteq Pages /\ requests' = requests
  BY <1>3, <1>5 DEF IInv, TypeOK, Reduce, GiveUp, LCK_downgrade, PAGE_LOCK_RELEASE, locks
<1>13. lost' \in [Pages -> Nat]
  <2>1. CASE Reduce
    BY <2>1 DEF IInv, TypeOK, Reduce
  <2>2. CASE GiveUp
    <3>1. lost \in [Pages -> Nat] /\ buf[p].ver \in Nat
      BY DEF IInv, TypeOK, Contents
    <3> QED BY <1>3, <2>2, <3>1 DEF GiveUp
  <2> QED BY <1>5, <2>1, <2>2
<1>14. TypeOK'
  BY <1>4, <1>10, <1>11, <1>12, <1>13 DEF IInv, TypeOK
<1>15. Acyclic'
  BY <1>4, SameBlocks DEF IInv
<1> QED BY <1>6, <1>10, <1>14, <1>15 DEF IInv

\* The invariant holds when the cache is empty,
LEMMA Initially ==
  ASSUME Init
  PROVE  IInv
<1>1. Blank \in [Pages -> Contents] /\ \A p \in Pages : Blank[p].ver = 0
  BY DEF Blank, Contents
<1>2. Idle \in GoodWorker
  <2>1. Idle \in Worker
    BY DEF Worker, Idle
  <2> QED BY <2>1 DEF GoodWorker, WorkerOK, Idle
<1>3. TypeOK
  <2>1. th \in [Workers -> Worker]
    BY <1>2 DEF Init, GoodWorker
  <2>2. /\ disk \in [Pages -> Contents] /\ buf \in [Pages -> Contents]
        /\ dirty \subseteq Pages /\ not_valid \subseteq Pages /\ blocking \subseteq Pages
        /\ held \subseteq Pages /\ wanted \subseteq Pages /\ posted \subseteq Pages
        /\ misled \subseteq Pages
    BY <1>1 DEF Init
  <2>3. /\ latch \in [Pages -> Workers \union {Ast, Nobody}]
        /\ io \in [Pages -> Workers \union {Ast, Nobody}]
        /\ lost \in [Pages -> Nat]
    BY DEF Init
  <2>4. blocks \in Seq(Precedence) /\ down \in Seq(Frame)
    BY DEF Init
  <2>5. /\ incarnation \in 0 .. MaxChanges /\ failures \in 0 .. MaxChanges - incarnation
        /\ requests \in 0 .. MaxRequests
    BY CacheAssumption DEF Init
  <2> QED BY <2>1, <2>2, <2>3, <2>4, <2>5 DEF TypeOK
<1>4. Control
  <2>1. th \in [Workers -> GoodWorker]
    BY <1>2 DEF Init
  <2>2. \A w \in Workers : Holds(w, th[w])
    BY DEF Init, Holds, Idle
  <2>3. FramesOK(down, latch, TouchedPages)
    BY DEF Init, FramesOK
  <2> QED BY <2>1, <2>2, <2>3 DEF Control
<1>5. DataOK
  BY DEF Init, DataOK, CleanOnDisk, DirtyLocked
<1>6. Acyclic
  <2> SUFFICES ASSUME NEW p \in Pages PROVE p \notin Above(p)
    BY DEF Acyclic
  <2>1. \A q \in Pages : Higher(q) = {}
    BY DEF Init, Higher
  <2>2. Above(p) \subseteq {}
    BY <2>1, AboveLeast
  <2> QED BY <2>2
<1> QED BY <1>3, <1>4, <1>5, <1>6 DEF IInv

\* is kept by the threads of the process,
LEMMA WorkerSteps ==
  ASSUME IInv, NEW w \in Workers, WriteStep(w) \/ ClientStep(w) \/ FlushStep(w)
  PROVE  IInv'
<1>1. CASE WriteStep(w)
  BY <1>1, StepWriteNothing, StepWriteBuffer, StepWriteClear, StepWriteHigher DEF WriteStep
<1>2. CASE ClientStep(w)
  BY <1>2, StepCCH_fetch, StepCCH_precedence, StepCheckPrecedence, StepCCH_mark,
     StepCCH_release, StepUnlatch, StepRepost DEF ClientStep
<1>3. CASE FlushStep(w)
  BY <1>3, StepFlushDirty, StepFlushPage, StepFlushWritten, StepFlushSkip, StepFlushPass
     DEF FlushStep
<1> QED BY <1>1, <1>2, <1>3

\* by the thread of the blocking ASTs,
LEMMA AstSteps ==
  ASSUME IInv, AstStep
  PROVE  IInv'
BY StepBlockingAst, StepDownLatch, StepDownIO, StepDownHigher, StepDownBack, StepDownWrite,
   StepDownLeave, StepDownLower DEF AstStep

\* and when nothing happens.
LEMMA Stuttering ==
  ASSUME IInv, UNCHANGED vars
  PROVE  IInv'
<1>1. UNCHANGED <<data, blocking, locks, posted, latch, io, blocks, th, down, counts>>
  BY DEF vars
<1>2. DataOK' /\ \A q \in Pages : Touched(q)' <=> Touched(q)
  BY <1>1, QuietData DEF IInv, data, locks, counts
<1>3. TouchedPages' = TouchedPages
  BY <1>2 DEF TouchedPages
<1>4. Control'
  BY <1>1, <1>3 DEF IInv, Control, Holds, data, locks, counts
<1>5. TypeOK'
  BY <1>1 DEF IInv, TypeOK, data, locks, counts
<1>6. Acyclic'
  BY <1>1, SameBlocks DEF IInv
<1> QED BY <1>2, <1>4, <1>5, <1>6 DEF IInv

\* The inductive invariant holds in every reachable state.
LEMMA Invariant == Spec => []IInv
<1>1. Init => IInv
  BY Initially
<1>2. IInv /\ [Next]_vars => IInv'
  BY WorkerSteps, AstSteps, StepRequest, StepOtherUpdate, Stuttering DEF Next, OtherStep
<1> QED BY <1>1, <1>2, PTL DEF Spec

\* Every variable of the cache keeps its type: among others, no block is half in a
\* queue and no thread goes on with a page it does not have.
THEOREM TypeCorrect == Spec => []TypeOK
<1>1. IInv => TypeOK
  BY DEF IInv
<1> QED BY <1>1, Invariant, PTL

\* A buffer that is not dirty, and whose page lock is held, has the contents of the page
\* on disk, whichever thread wrote it, fetched it again or gave its lock up and failed.
THEOREM CleanOnDiskAlways == Spec => []CleanOnDisk
<1>1. IInv => CleanOnDisk
  BY DEF IInv, DataOK
<1> QED BY <1>1, Invariant, PTL

\* down_grade never gives a page lock up over changes that are not on disk, while other
\* threads fetch, mark and release the page, except after a failed write.
THEOREM DirtyLockedAlways == Spec => []DirtyLocked
<1>1. IInv => DirtyLocked
  BY DEF IInv, DataOK
<1> QED BY <1>1, Invariant, PTL

\* check_precedence never closes a cycle of the precedence graph, with any number of
\* threads that add, clear and purge blocks between its searches.
THEOREM AcyclicAlways == Spec => []Acyclic
<1>1. IInv => Acyclic
  BY DEF IInv
<1> QED BY <1>1, Invariant, PTL
=============================================================================
