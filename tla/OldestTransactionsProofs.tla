---------------------- MODULE OldestTransactionsProofs ----------------------
(***************************************************************************)
(* The three invariants of OldestTransactions, for any attachments with    *)
(* transactions of any kind, any of which may die between two steps, and   *)
(* any number of transactions.                                             *)
(*                                                                         *)
(* A counter says something of every transaction below it, and what it     *)
(* says stays true however long the counter is kept: of an oldest active,  *)
(* that none of them runs; of an oldest snapshot, also that no snapshot in *)
(* use misses one; of an oldest interesting, that all are decided.  The    *)
(* inductive invariant gathers the values of all processes, the header     *)
(* page and the transactions under way in three sets, and says this of     *)
(* each member.                                                            *)
(***************************************************************************)
EXTENDS OldestTransactions, FiniteSetTheorems, WellFoundedInduction, TLAPS

States == {"active", "limbo", "dead", "committed"}

\* What decides of transactions, apart from counters and attachments.
Now == [state |-> state, cn |-> cn, lock_data |-> lock_data, next |-> hdr.next_transaction,
        latest |-> latest_commit_number, left |-> swept \union late]

Worlds == [state : [Transactions -> States], cn : [Transactions -> Numbers],
           lock_data : [Transactions -> Numbers], next : 0 .. MaxTransactions,
           latest : 1 .. MaxTransactions + 1, left : SUBSET Transactions]

\* The transaction does not run any more, or never held its lock.
Over(W, t) == W.state[t] # "active" \/ W.lock_data[t] = 0

\* The snapshot s does not miss the transaction, now or later.
Seen(W, s, t) ==
    \/ W.state[t] = "dead"
    \/ W.state[t] = "active" /\ W.lock_data[t] = 0
    \/ W.state[t] = "committed" /\ W.cn[t] <= s

Decided(W, t) == W.state[t] = "committed" \/ t \in W.left

\* No transaction below x runs.
Floor(W, x) == x \in 0 .. W.next + 1 /\ \A t \in 1 .. x - 1 : Over(W, t)

\* No transaction below x has a lock.
Gone(W, x) == x \in 0 .. W.next + 1 /\ \A t \in 1 .. x - 1 : W.lock_data[t] = 0

\* Every transaction below x is decided.
Settles(W, x) == x \in 0 .. W.next + 1 /\ \A t \in 1 .. x - 1 : Decided(W, t)

\* The snapshot of transaction r misses none below x but those in M.
Safe(W, r, M, x) ==
    r.snapshot # 0 => \A t \in 1 .. x - 1 : t \in M \/ Seen(W, r.snapshot, t)

\* Transactions not started yet have no state and no lock; a lock carries no number
\* above its own.
WorldOK(W) ==
    /\ W \in Worlds
    /\ \A t \in Transactions :
        /\ t > W.next => W.state[t] = "active" /\ W.lock_data[t] = 0
        /\ W.lock_data[t] <= t
        /\ W.state[t] = "committed" => W.cn[t] <= W.latest
        /\ t \in W.left => W.state[t] = "dead"

Running == {"begin", "active", "write", "query", "oldest", "precommit", "ready"}
Sweeping == {"sweep", "limbo", "advance"}

\* The state and the lock of its number, from start to end.
NumberOK(W, r) ==
    /\ r.pc = "idle" => r = NoTransaction
    /\ r.pc # "idle" => r.number \in 1 .. W.next /\ r.kind # "none"
    /\ r.pc \in Running => W.state[r.number] = "active" /\ W.lock_data[r.number] # 0
    /\ r.pc = "prepared" => W.state[r.number] # "active" /\ W.lock_data[r.number] # 0
    /\ r.pc \in Sweeping \union {"release"} => W.state[r.number] # "active"
    /\ r.pc \in Sweeping \union {"precommit"} => r.kind = "sweep"
    /\ r.pc = "begin" => r.kind = "snapshot"
    /\ r.pc # "idle" /\ r.kind = "snapshot" => W.lock_data[r.number] # 0
    /\ r.snapshot # 0 => r.pc \notin {"idle", "begin"} /\ r.kind = "snapshot"

\* What it found out about the oldest active transaction and the oldest snapshot.
SearchOK(W, r) ==
    /\ r.pc # "idle" => r.tra_oldest >= 1
    /\ r.pc \in {"begin", "active"} => r.active >= 1 /\ Floor(W, r.active)
    /\ r.pc = "begin" => W.lock_data[r.number] = r.active
    /\ r.pc = "write" => r.oldest_active >= 1 /\ r.oldest_active <= r.number
    /\ r.tra_oldest_active <= r.number
    /\ r.pc \in Sweeping \union {"oldest", "precommit"} => r.tra_oldest_active >= 1
    /\ Gone(W, r.tra_oldest_active)

\* A sweep visits the versions of all that were dead below its oldest snapshot,
\* and then looks which of the others are still in limbo.
Visited(W, x) ==
    \A t \in 1 .. x - 1 : W.state[t] \in {"committed", "limbo"} \/ t \in W.left

SweepOK(W, r) ==
    /\ r.pc = "limbo" => Visited(W, r.tra_oldest_active)
    /\ r.pc = "advance" =>
        r.active >= 1 /\ Settles(W, Smaller(r.active, r.tra_oldest_active - 1))

\* What a snapshot relies on: its own lock holds back the others.
ReadOK(W, r, M) ==
    /\ r.snapshot # 0 => Safe(W, r, M, W.lock_data[r.number])
    /\ r.pc = "write" => Safe(W, r, M, r.oldest_active)
    /\ Safe(W, r, {}, r.tra_oldest)

\* The oldest interesting transactions, oldest active ones and oldest snapshots
\* somebody remembers.
Oldests == {hdr.oldest_transaction} \union {dbb[b].oldest_transaction : b \in Attachments}
               \union {tra[b].tra_oldest : b \in Attachments}
Actives == {hdr.oldest_active} \union {dbb[b].oldest_active : b \in Attachments}
               \union {tra[b].oldest_active : b \in Attachments}
Snapshots == {hdr.oldest_snapshot} \union {dbb[b].oldest_snapshot : b \in Attachments}
                 \union {tra[b].tra_oldest_active : b \in Attachments}

CountersOK ==
    /\ hdr.oldest_transaction >= 1
    /\ \A b \in Attachments : dbb[b].oldest_transaction >= 1
    /\ \A x \in Oldests : Settles(Now, x)
    /\ \A x \in Actives : Floor(Now, x)
    /\ \A x \in Snapshots : Floor(Now, x)

SafeOK == \A a \in Attachments : \A x \in Snapshots : Safe(Now, tra[a], missed[a], x)

Committed(W) == {t \in Transactions : W.state[t] = "committed"}

\* Every commit draws the next number.
Counted(W) == Cardinality(Committed(W)) + 1 = W.latest

Numbered ==
    \A a, b \in Attachments :
        a # b /\ tra[a].pc # "idle" /\ tra[b].pc # "idle" => tra[a].number # tra[b].number

TransactionOK(W, r) == NumberOK(W, r) /\ SearchOK(W, r) /\ SweepOK(W, r)

IInv ==
    /\ TypeOK /\ WorldOK(Now) /\ Counted(Now) /\ Numbered /\ CountersOK /\ SafeOK
    /\ \A a \in Attachments : TransactionOK(Now, tra[a]) /\ ReadOK(Now, tra[a], missed[a])

-----------------------------------------------------------------------------
(* What no step undoes.                                                    *)

\* What a step of any attachment may do to transactions: ends are final, locks are
\* only taken for new numbers.
Progress(W, U) ==
    /\ W.next <= U.next /\ W.latest <= U.latest /\ W.left \subseteq U.left
    /\ \A t \in 1 .. W.next :
        /\ W.lock_data[t] = 0 => U.lock_data[t] = 0
        /\ W.state[t] # "active" => U.state[t] # "active"
        /\ W.state[t] = "active" /\ W.lock_data[t] = 0 => U.state[t] \in {"active", "dead"}
        /\ W.state[t] = "dead" => U.state[t] = "dead"
        /\ W.state[t] = "committed" => U.state[t] = "committed" /\ U.cn[t] = W.cn[t]

\* The other transactions that run, or are prepared by an attachment, are left alone.
Apart(W, U, n) ==
    \A t \in 1 .. W.next : t # n /\ W.lock_data[t] # 0 =>
        /\ U.lock_data[t] = W.lock_data[t]
        /\ W.state[t] = "active" => U.state[t] = "active"

\* While a sweep looks for transactions in limbo, none without a lock dies unnoticed.
LimboKept(W, U) ==
    \A t \in 1 .. W.next : W.state[t] = "limbo" /\ W.lock_data[t] = 0 =>
        U.state[t] \in {"limbo", "committed"} \/ t \in U.left

\* A counter below which nothing runs stays one.
LEMMA FloorKept ==
    ASSUME NEW W, NEW U, Progress(W, U), W.next \in Nat, U.next \in Nat, NEW x, Floor(W, x)
    PROVE  Floor(U, x)
  BY DEF Floor, Over, Progress

\* A counter below which nothing has a lock stays one.
LEMMA GoneKept ==
    ASSUME NEW W, NEW U, Progress(W, U), W.next \in Nat, U.next \in Nat, NEW x, Gone(W, x)
    PROVE  Gone(U, x)
  BY DEF Gone, Progress

\* Below a counter without locks nothing runs.
LEMMA GoneFloor ==
    ASSUME NEW W, NEW x, Gone(W, x)
    PROVE  Floor(W, x)
  BY DEF Gone, Floor, Over

\* What is decided stays so.
LEMMA SettlesKept ==
    ASSUME NEW W, NEW U, Progress(W, U), W.next \in Nat, U.next \in Nat, NEW x, Settles(W, x)
    PROVE  Settles(U, x)
  BY DEF Settles, Decided, Progress

\* Nothing that is decided runs.
LEMMA SettlesFloor ==
    ASSUME NEW W, WorldOK(W), NEW x, Settles(W, x)
    PROVE  Floor(W, x)
<1>1. \A t \in 1 .. x - 1 : t \in Transactions
  BY OldestAssumption DEF Settles, WorldOK, Worlds, Transactions
<1>. QED  BY <1>1 DEF Settles, Floor, Decided, Over, WorldOK

\* A snapshot that misses nothing below a counter goes on so.
LEMMA SafeKept ==
    ASSUME NEW W, NEW U, Progress(W, U), W.next \in Nat, NEW r, NEW q, NEW M, NEW K,
           q.snapshot \in {0, r.snapshot}, M \subseteq K,
           NEW x \in 0 .. W.next + 1, Safe(W, r, M, x)
    PROVE  Safe(U, q, K, x)
<1>1. \A t \in 1 .. x - 1 : t \in 1 .. W.next
  OBVIOUS
<1>2. \A t \in 1 .. W.next : Seen(W, r.snapshot, t) => Seen(U, r.snapshot, t)
  BY DEF Seen, Progress
<1>. QED  BY <1>1, <1>2 DEF Safe

\* A snapshot just taken misses none but transactions in limbo, wherever nothing runs.
LEMMA SafeBegins ==
    ASSUME NEW W, WorldOK(W), NEW x, Floor(W, x), NEW r, r.snapshot = W.latest, NEW M,
           \A t \in Transactions : W.state[t] = "limbo" => t \in M
    PROVE  Safe(W, r, M, x)
<1>1. \A t \in 1 .. x - 1 : t \in Transactions
  BY OldestAssumption DEF Floor, WorldOK, Worlds, Transactions
<1>2. \A t \in Transactions : W.state[t] \in States
  BY DEF WorldOK, Worlds
<1>. QED  BY <1>1, <1>2 DEF Safe, Seen, Floor, Over, WorldOK, States

\* The transactions of others are none of a step's business.
LEMMA OthersNumber ==
    ASSUME NEW W, NEW U, Progress(W, U), W.next \in Nat, U.next \in Nat, NEW n, Apart(W, U, n),
           NEW r, NumberOK(W, r), r.pc # "idle" => r.number # n
    PROVE  /\ NumberOK(U, r)
           /\ r.pc # "idle" /\ W.lock_data[r.number] # 0 => U.lock_data[r.number] = W.lock_data[r.number]
<1>1. CASE r.pc = "idle"
  BY <1>1 DEF NumberOK, NoTransaction, Running, Sweeping
<1>2. CASE r.pc # "idle"
  <2>1. /\ r.number \in 1 .. W.next /\ r.number \in 1 .. U.next /\ r.number # n
        /\ r.kind # "none"
    BY <1>2 DEF NumberOK, Progress
  <2>2. W.lock_data[r.number] # 0 => U.lock_data[r.number] = W.lock_data[r.number]
    BY <2>1 DEF Apart
  <2>3. W.lock_data[r.number] # 0 /\ W.state[r.number] = "active" => U.state[r.number] = "active"
    BY <2>1 DEF Apart
  <2>4. W.state[r.number] # "active" => U.state[r.number] # "active"
    BY <2>1 DEF Progress
  <2>. QED  BY <1>2, <2>1, <2>2, <2>3, <2>4 DEF NumberOK
<1>. QED  BY <1>1, <1>2

\* Nor what others found out,
LEMMA OthersSearch ==
    ASSUME NEW W, NEW U, Progress(W, U), W.next \in Nat, U.next \in Nat, NEW n, Apart(W, U, n),
           NEW r, NumberOK(W, r), r.pc # "idle" => r.number # n, SearchOK(W, r)
    PROVE  SearchOK(U, r)
<1>1. r.pc \in {"begin", "active"} => Floor(U, r.active)
  BY FloorKept DEF SearchOK
<1>2. Gone(U, r.tra_oldest_active)
  BY GoneKept DEF SearchOK
<1>3. r.pc = "begin" => U.lock_data[r.number] = r.active
  BY OthersNumber DEF SearchOK, NumberOK, Running
<1>. QED  BY <1>1, <1>2, <1>3 DEF SearchOK

\* what their sweeps have done,
LEMMA OthersSweep ==
    ASSUME NEW W, NEW U, Progress(W, U), W.next \in Nat, U.next \in Nat,
           NEW r, r.pc = "limbo" => LimboKept(W, U), SearchOK(W, r), SweepOK(W, r)
    PROVE  SweepOK(U, r)
<1>1. r.pc = "limbo" => Visited(U, r.tra_oldest_active)
  <2>1. \A t \in 1 .. r.tra_oldest_active - 1 : t \in 1 .. W.next /\ W.lock_data[t] = 0
    BY DEF SearchOK, Gone
  <2>. QED  BY <2>1 DEF SweepOK, Visited, LimboKept, Progress
<1>2. r.pc = "advance" => Settles(U, Smaller(r.active, r.tra_oldest_active - 1))
  BY SettlesKept DEF SweepOK
<1>. QED  BY <1>1, <1>2 DEF SweepOK

\* or what their snapshots rely on.
LEMMA OthersRead ==
    ASSUME NEW W, NEW U, WorldOK(W), Progress(W, U), W.next \in Nat, U.next \in Nat, NEW n,
           Apart(W, U, n), NEW r, NumberOK(W, r), r.pc # "idle" => r.number # n, SearchOK(W, r),
           r.tra_oldest \in 0 .. W.next + 1, r.oldest_active \in Nat, NEW M, ReadOK(W, r, M)
    PROVE  ReadOK(U, r, M)
<1>0. ASSUME r.pc # "idle"
      PROVE  r.number \in 1 .. W.next /\ W.lock_data[r.number] \in 0 .. W.next + 1
  <2>1. r.number \in 1 .. W.next /\ r.number \in Transactions
    BY <1>0, OldestAssumption DEF NumberOK, WorldOK, Worlds, Transactions
  <2>2. W.lock_data[r.number] \in Numbers /\ W.lock_data[r.number] <= r.number
    BY <2>1 DEF WorldOK, Worlds
  <2>. QED  BY <2>1, <2>2, OldestAssumption DEF Numbers
<1>1. ASSUME r.snapshot # 0
      PROVE  Safe(U, r, M, U.lock_data[r.number])
  <2>1. r.pc # "idle" /\ W.lock_data[r.number] # 0
    BY <1>1 DEF NumberOK
  <2>2. U.lock_data[r.number] = W.lock_data[r.number]
    BY <2>1, OthersNumber
  <2>3. Safe(W, r, M, W.lock_data[r.number]) /\ W.lock_data[r.number] \in 0 .. W.next + 1
    BY <1>1, <2>1, <1>0 DEF ReadOK
  <2>4. Safe(U, r, M, W.lock_data[r.number])
    BY <2>3, SafeKept
  <2>. QED  BY <2>2, <2>4
<1>2. ASSUME r.pc = "write"
      PROVE  Safe(U, r, M, r.oldest_active)
  <2>1. r.oldest_active \in 0 .. W.next + 1 /\ Safe(W, r, M, r.oldest_active)
    BY <1>2, <1>0 DEF SearchOK, ReadOK
  <2>. QED  BY <2>1, SafeKept
<1>3. Safe(U, r, {}, r.tra_oldest)
  BY SafeKept DEF ReadOK
<1>. QED  BY <1>1, <1>2, <1>3 DEF ReadOK
-----------------------------------------------------------------------------
(* A step keeps the invariant.                                             *)

\* Of the others nothing changes, and a new transaction has a new number.
OthersStay(a) ==
    /\ \A b \in Attachments \ {a} : tra'[b] = tra[b] /\ missed'[b] = missed[b]
    /\ tra'[a].pc # "idle" =>
        \/ tra[a].pc # "idle" /\ tra'[a].number = tra[a].number
        \/ tra'[a].number > hdr.next_transaction

\* What the step does to transactions.
WorldMoves(a) ==
    /\ WorldOK(Now') /\ Counted(Now')
    /\ Progress(Now, Now')
    /\ Apart(Now, Now', IF tra[a].pc = "idle" THEN 0 ELSE tra[a].number)
    /\ \A b \in Attachments : tra[b].pc = "limbo" => LimboKept(Now, Now')

\* Counters remembered now were remembered before, or say what they should.
CountersMove ==
    /\ hdr'.oldest_transaction >= 1
    /\ \A b \in Attachments : dbb'[b].oldest_transaction >= 1
    /\ \A x \in Oldests' : x \in Oldests \/ Settles(Now', x)
    /\ \A x \in Actives' : x \in Actives \/ Floor(Now', x)
    /\ \A x \in Snapshots' : x \in Snapshots \/
        (Floor(Now', x) /\ \A b \in Attachments : Safe(Now', tra'[b], missed'[b], x))

\* The transaction of the attachment itself.
OwnOK(a) ==
    /\ TransactionOK(Now', tra'[a]) /\ ReadOK(Now', tra'[a], missed'[a])
    /\ \A x \in Snapshots : Safe(Now', tra'[a], missed'[a], x)

\* The invariant in words for one attachment.
LEMMA Facts ==
    ASSUME IInv, NEW a \in Attachments
    PROVE  /\ TypeOK /\ WorldOK(Now) /\ tra[a] \in Transaction /\ dbb[a] \in Counters
           /\ NumberOK(Now, tra[a]) /\ SearchOK(Now, tra[a]) /\ SweepOK(Now, tra[a])
           /\ ReadOK(Now, tra[a], missed[a])
           /\ Now.next = hdr.next_transaction /\ Now.next \in Nat
           /\ tra[a].tra_oldest \in 0 .. Now.next + 1
           /\ tra[a].oldest_active \in 0 .. Now.next + 1
           /\ tra[a].tra_oldest_active \in 0 .. Now.next + 1
<1>1. TypeOK /\ WorldOK(Now) /\ TransactionOK(Now, tra[a]) /\ ReadOK(Now, tra[a], missed[a])
  BY DEF IInv
<1>2. tra[a] \in Transaction /\ dbb[a] \in Counters
  BY <1>1 DEF TypeOK
<1>3. Now.next = hdr.next_transaction /\ Now.next \in Nat
  BY <1>1, OldestAssumption DEF WorldOK, Worlds, Now
<1>4. Settles(Now, tra[a].tra_oldest) /\ Floor(Now, tra[a].oldest_active)
  BY DEF IInv, CountersOK, Oldests, Actives
<1>5. Floor(Now, tra[a].tra_oldest_active)
  BY DEF IInv, CountersOK, Snapshots
<1>. QED  BY <1>1, <1>2, <1>3, <1>4, <1>5 DEF TransactionOK, Settles, Floor

\* The next number is a natural, after every step that moves as it may.
LEMMA NextNumber ==
    ASSUME NEW W, WorldOK(W)
    PROVE  W.next \in Nat /\ W.next <= MaxTransactions
  BY OldestAssumption DEF WorldOK, Worlds

\* So much for the others.
LEMMA OthersKeep ==
    ASSUME IInv, NEW a \in Attachments, OthersStay(a), WorldMoves(a),
           NEW b \in Attachments \ {a}
    PROVE  TransactionOK(Now', tra'[b]) /\ ReadOK(Now', tra'[b], missed'[b])
<1> DEFINE n == IF tra[a].pc = "idle" THEN 0 ELSE tra[a].number
           r == tra[b]
<1>1. /\ NumberOK(Now, r) /\ SearchOK(Now, r) /\ SweepOK(Now, r)
      /\ ReadOK(Now, r, missed[b]) /\ Now.next \in Nat /\ WorldOK(Now)
      /\ r.tra_oldest \in 0 .. Now.next + 1 /\ r.oldest_active \in Nat
  BY Facts
<1>2. WorldOK(Now') /\ Progress(Now, Now') /\ Apart(Now, Now', n)
  BY DEF WorldMoves
<1>3. Now'.next \in Nat
  BY <1>2, NextNumber
<1>4. r.pc = "limbo" => LimboKept(Now, Now')
  BY DEF WorldMoves
<1>5. r.pc # "idle" => r.number # n
  BY <1>1 DEF IInv, Numbered, NumberOK
<1>6. tra'[b] = r /\ missed'[b] = missed[b]
  BY DEF OthersStay
<1> HIDE DEF n, r
<1>7. NumberOK(Now', r)
  BY <1>1, <1>2, <1>3, <1>5, OthersNumber
<1>8. SearchOK(Now', r)
  BY <1>1, <1>2, <1>3, <1>5, OthersSearch
<1>9. SweepOK(Now', r)
  BY <1>1, <1>2, <1>3, <1>4, OthersSweep
<1>10. ReadOK(Now', r, missed[b])
  BY <1>1, <1>2, <1>3, <1>5, OthersRead
<1>. QED  BY <1>6, <1>7, <1>8, <1>9, <1>10 DEF TransactionOK

\* Snapshots go on being safe from counters that were there before.
LEMMA OthersSafe ==
    ASSUME IInv, NEW a \in Attachments, OthersStay(a), WorldMoves(a), OwnOK(a),
           NEW b \in Attachments, NEW x \in Snapshots
    PROVE  Safe(Now', tra'[b], missed'[b], x)
<1>1. CASE b = a
  BY <1>1 DEF OwnOK
<1>2. CASE b # a
  <2>1. Progress(Now, Now') /\ Now.next \in Nat /\ tra'[b] = tra[b] /\ missed'[b] = missed[b]
    BY <1>2, Facts DEF WorldMoves, OthersStay
  <2>2. x \in 0 .. Now.next + 1 /\ Safe(Now, tra[b], missed[b], x)
    BY DEF IInv, CountersOK, SafeOK, Floor
  <2>3. Safe(Now', tra[b], missed[b], x)
    BY <2>1, <2>2, SafeKept
  <2>. QED  BY <2>1, <2>3
<1>. QED  BY <1>1, <1>2

\* Whatever moves as it may keeps the invariant.
LEMMA StepKeeps ==
    ASSUME IInv, NEW a \in Attachments, TypeOK', OthersStay(a), WorldMoves(a), CountersMove,
           OwnOK(a)
    PROVE  IInv'
<1>1. WorldOK(Now') /\ Counted(Now') /\ Progress(Now, Now')
  BY DEF WorldMoves
<1>2. Now.next \in Nat /\ Now'.next \in Nat
  BY <1>1, NextNumber, Facts
<1>3. Numbered'
  <2>1. ASSUME NEW b \in Attachments \ {a}, tra'[b].pc # "idle", tra'[a].pc # "idle"
        PROVE  tra'[b].number # tra'[a].number
    <3>1. tra'[b] = tra[b] /\ tra[b].number \in 1 .. hdr.next_transaction
      BY <2>1, Facts DEF OthersStay, NumberOK
    <3>2. \/ tra[a].pc # "idle" /\ tra'[a].number = tra[a].number
          \/ tra'[a].number > hdr.next_transaction
      BY <2>1 DEF OthersStay
    <3>. QED  BY <2>1, <3>1, <3>2, <1>2, Facts DEF IInv, Numbered
  <2>2. ASSUME NEW b \in Attachments \ {a}, NEW c \in Attachments \ {a}, b # c,
               tra'[b].pc # "idle", tra'[c].pc # "idle"
        PROVE  tra'[b].number # tra'[c].number
    BY <2>2 DEF OthersStay, IInv, Numbered
  <2>. QED  BY <2>1, <2>2 DEF Numbered
<1>4. \A x \in Oldests' : Settles(Now', x)
  <2>1. \A x \in Oldests : Settles(Now', x)
    BY <1>1, <1>2, SettlesKept DEF IInv, CountersOK
  <2>. QED  BY <2>1 DEF CountersMove
<1>5. \A x \in Actives' : Floor(Now', x)
  <2>1. \A x \in Actives : Floor(Now', x)
    BY <1>1, <1>2, FloorKept DEF IInv, CountersOK
  <2>. QED  BY <2>1 DEF CountersMove
<1>6. \A x \in Snapshots' : Floor(Now', x)
  <2>1. \A x \in Snapshots : Floor(Now', x)
    BY <1>1, <1>2, FloorKept DEF IInv, CountersOK
  <2>. QED  BY <2>1 DEF CountersMove
<1>7. CountersOK'
  BY <1>4, <1>5, <1>6 DEF CountersOK, CountersMove
<1>8. \A b \in Attachments : \A x \in Snapshots' : Safe(Now', tra'[b], missed'[b], x)
  BY OthersSafe DEF CountersMove
<1>9. SafeOK'
  BY <1>8 DEF SafeOK
<1>10. \A b \in Attachments : TransactionOK(Now', tra'[b]) /\ ReadOK(Now', tra'[b], missed'[b])
  BY OthersKeep DEF OwnOK
<1>. QED  BY <1>1, <1>3, <1>7, <1>9, <1>10 DEF IInv
-----------------------------------------------------------------------------
(* Kinds of moves.                                                         *)

\* A set of naturals that is not empty has a least element.
LEMMA LeastOf ==
    ASSUME NEW S \in SUBSET Nat, S # {}
    PROVE  \E m \in S : \A k \in S : m <= k
<1>1. PICK m \in S : \A k \in S : <<k, m>> \notin OpToRel(<, Nat)
  BY WFMin, NatLessThanWellFounded
<1>2. \A k \in S : ~(k < m)
  BY <1>1 DEF OpToRel
<1>. QED  BY <1>2

\* What findStates finds is the first in one of the states.
LEMMA Found ==
    ASSUME TypeOK, NEW m \in Nat, NEW n \in Nat, NEW S
    PROVE  LET f == findStates(m, n, S)
           IN  /\ f \in 0 .. n /\ (m <= n => m <= f)
               /\ f < n => f \in Transactions /\ m <= f /\ state[f] \in S
               /\ \A t \in Transactions : m <= t /\ t < f => state[t] \notin S
<1> DEFINE found == {t \in m .. n - 1 : t \in Transactions /\ state[t] \in S}
<1>1. CASE found = {}
  <2>1. findStates(m, n, S) = n
    BY <1>1 DEF findStates
  <2>. QED  BY <1>1, <2>1 DEF Transactions
<1>2. CASE found # {}
  <2>1. PICK f \in found : \A u \in found : f <= u
    <3>1. found \in SUBSET Nat
      OBVIOUS
    <3>. QED  BY <1>2, <3>1, LeastOf
  <2>2. findStates(m, n, S) = CHOOSE t \in found : \A u \in found : t <= u
    BY <1>2 DEF findStates
  <2>3. /\ findStates(m, n, S) \in found
        /\ \A u \in found : findStates(m, n, S) <= u
    <3> HIDE DEF found
    <3>. QED  BY <2>1, <2>2
  <2>. QED  BY <2>3 DEF Transactions
<1>. QED  BY <1>1, <1>2

\* Nothing is remembered that was not before.
LEMMA CountersStay ==
    ASSUME IInv, hdr' = [hdr EXCEPT !.next_transaction = hdr'.next_transaction], dbb' = dbb,
           \A b \in Attachments :
               /\ tra'[b].tra_oldest = tra[b].tra_oldest
               /\ tra'[b].oldest_active = tra[b].oldest_active
               /\ tra'[b].tra_oldest_active = tra[b].tra_oldest_active
    PROVE  CountersMove
<1>1. /\ hdr'.oldest_transaction = hdr.oldest_transaction
      /\ hdr'.oldest_active = hdr.oldest_active
      /\ hdr'.oldest_snapshot = hdr.oldest_snapshot
  BY DEF IInv, TypeOK, Header
<1>2. Oldests' = Oldests
  BY <1>1 DEF Oldests
<1>3. Actives' = Actives
  BY <1>1 DEF Actives
<1>4. Snapshots' = Snapshots
  BY <1>1 DEF Snapshots
<1>5. hdr'.oldest_transaction >= 1 /\ \A b \in Attachments : dbb'[b].oldest_transaction >= 1
  BY <1>1 DEF IInv, CountersOK
<1>. QED  BY <1>2, <1>3, <1>4, <1>5 DEF CountersMove

\* Transactions are left alone.
LEMMA WorldStays ==
    ASSUME IInv, NEW a \in Attachments, Now' = Now
    PROVE  WorldMoves(a)
<1>1. WorldOK(Now') /\ Counted(Now') /\ Now.next \in Nat /\ Now.latest \in Nat
  BY OldestAssumption DEF IInv, WorldOK, Worlds
<1>2. Progress(Now, Now')
  BY <1>1 DEF Progress
<1>3. Apart(Now, Now', IF tra[a].pc = "idle" THEN 0 ELSE tra[a].number)
  BY DEF Apart
<1>4. LimboKept(Now, Now')
  BY DEF LimboKept
<1>. QED  BY <1>1, <1>2, <1>3, <1>4 DEF WorldMoves

\* The snapshot of the attachment stays, or goes.
LEMMA OwnSafe ==
    ASSUME IInv, NEW a \in Attachments, Progress(Now, Now'),
           tra'[a].snapshot \in {0, tra[a].snapshot}, missed[a] \subseteq missed'[a],
           tra'[a].tra_oldest = tra[a].tra_oldest
    PROVE  /\ \A x \in Snapshots : Safe(Now', tra'[a], missed'[a], x)
           /\ Safe(Now', tra'[a], {}, tra'[a].tra_oldest)
           /\ \A x \in 0 .. Now.next + 1 :
                Safe(Now, tra[a], missed[a], x) => Safe(Now', tra'[a], missed'[a], x)
<1>1. Now.next \in Nat /\ tra[a].tra_oldest \in 0 .. Now.next + 1
  BY Facts
<1>2. \A x \in 0 .. Now.next + 1 :
        Safe(Now, tra[a], missed[a], x) => Safe(Now', tra'[a], missed'[a], x)
  BY <1>1, SafeKept
<1>3. \A x \in Snapshots : x \in 0 .. Now.next + 1 /\ Safe(Now, tra[a], missed[a], x)
  BY DEF IInv, CountersOK, Floor, SafeOK
<1>4. Safe(Now, tra[a], {}, tra[a].tra_oldest)
  BY Facts DEF ReadOK
<1>5. Safe(Now', tra'[a], {}, tra[a].tra_oldest)
  BY <1>1, <1>4, SafeKept
<1>. QED  BY <1>2, <1>3, <1>5

\* The fields of the world, which only TypeOK says something of.
LEMMA NowFields ==
    /\ Now.state = state /\ Now.cn = cn /\ Now.lock_data = lock_data
    /\ Now.next = hdr.next_transaction /\ Now.latest = latest_commit_number
    /\ Now.left = swept \union late
    /\ Now'.state = state' /\ Now'.cn = cn' /\ Now'.lock_data = lock_data'
    /\ Now'.next = hdr'.next_transaction /\ Now'.latest = latest_commit_number'
    /\ Now'.left = swept' \union late'
  BY DEF Now

\* Commit numbers are drawn one by one.
LEMMA CountCommit ==
    ASSUME NEW W \in Worlds, Counted(W), NEW U, NEW t \in Transactions,
           W.state[t] # "committed", NEW s \in States,
           U.state = [W.state EXCEPT ![t] = s],
           U.latest = IF s = "committed" THEN W.latest + 1 ELSE W.latest
    PROVE  Counted(U) /\ U.latest \in 1 .. MaxTransactions + 1
<1>1. IsFiniteSet(Transactions) /\ Cardinality(Transactions) = MaxTransactions
  BY OldestAssumption, FS_Interval DEF Transactions
<1>2. IsFiniteSet(Committed(W)) /\ Cardinality(Committed(W)) \in Nat
  BY <1>1, FS_Subset, FS_CardinalityType DEF Committed
<1>3. /\ s = "committed" => Committed(U) = Committed(W) \union {t}
      /\ s # "committed" => Committed(U) = Committed(W)
      /\ t \notin Committed(W)
  BY DEF Committed, Worlds
<1>4. Cardinality(Committed(U)) =
        IF s = "committed" THEN Cardinality(Committed(W)) + 1 ELSE Cardinality(Committed(W))
  BY <1>2, <1>3, FS_AddElement
<1>5. Counted(U)
  BY <1>2, <1>4 DEF Counted
<1>6. Committed(U) \subseteq Transactions
  BY DEF Committed
<1>7. Cardinality(Committed(U)) <= MaxTransactions /\ Cardinality(Committed(U)) \in Nat
  BY <1>1, <1>6, FS_Subset, FS_CardinalityType
<1>. QED  BY <1>5, <1>7, OldestAssumption DEF Counted

\* A transaction comes to an end: its own attachment ends it, or somebody ends one in
\* limbo, or one that has no lock is found to be dead.
LEMMA EndMoves ==
    ASSUME IInv, NEW a \in Attachments, NEW t \in Transactions, NEW s \in States \ {"active"},
           t <= hdr.next_transaction, state[t] \in {"active", "limbo"},
           state' = [state EXCEPT ![t] = s],
           hdr'.next_transaction = hdr.next_transaction, swept' = swept,
           late' \in {late, late \union {t}}, s # "dead" => late' = late,
           cn' = IF s = "committed" THEN [cn EXCEPT ![t] = latest_commit_number + 1] ELSE cn,
           latest_commit_number' =
             IF s = "committed" THEN latest_commit_number + 1 ELSE latest_commit_number,
           lock_data' \in {lock_data, [lock_data EXCEPT ![t] = 0]},
           state[t] = "active" /\ lock_data[t] = 0 => s = "dead",
           state[t] = "active" \/ lock_data' # lock_data =>
             lock_data[t] = 0 \/ (tra[a].pc # "idle" /\ t = tra[a].number),
           state[t] = "limbo" /\ lock_data[t] = 0 /\ (\E b \in Attachments : tra[b].pc = "limbo")
             => s = "committed" \/ t \in late'
    PROVE  /\ WorldMoves(a)
           /\ state' \in [Transactions -> States] /\ cn' \in [Transactions -> Numbers]
           /\ latest_commit_number' \in 1 .. MaxTransactions + 1
           /\ lock_data' \in [Transactions -> Numbers]
           /\ late' \subseteq Transactions /\ swept' \subseteq Transactions
<1>1. /\ WorldOK(Now) /\ Counted(Now) /\ Now \in Worlds
      /\ state \in [Transactions -> States] /\ cn \in [Transactions -> Numbers]
      /\ lock_data \in [Transactions -> Numbers]
      /\ latest_commit_number \in 1 .. MaxTransactions + 1 /\ late \subseteq Transactions
      /\ hdr.next_transaction \in 0 .. MaxTransactions /\ MaxTransactions \in Nat
      /\ swept \subseteq Transactions /\ t \in 1 .. hdr.next_transaction
  <2>1. WorldOK(Now) /\ Counted(Now) /\ Now \in Worlds /\ TypeOK
    BY DEF IInv, WorldOK
  <2>2. hdr.next_transaction \in 0 .. MaxTransactions /\ MaxTransactions \in Nat
    BY <2>1, NowFields, OldestAssumption DEF Worlds
  <2>3. t \in 1 .. hdr.next_transaction
    BY <2>2 DEF Transactions
  <2>. QED  BY <2>1, <2>2, <2>3 DEF TypeOK, States
<1>2. Counted(Now') /\ latest_commit_number' \in 1 .. MaxTransactions + 1
  <2>1. Now.state[t] # "committed" /\ Now'.state = [Now.state EXCEPT ![t] = s]
        /\ Now'.latest = IF s = "committed" THEN Now.latest + 1 ELSE Now.latest
    BY NowFields
  <2>2. Counted(Now') /\ Now'.latest \in 1 .. MaxTransactions + 1
    BY <1>1, <2>1, CountCommit
  <2>. QED  BY <2>2, NowFields
<1>3. state' \in [Transactions -> States] /\ lock_data' \in [Transactions -> Numbers]
  BY <1>1 DEF Numbers
<1>4. cn' \in [Transactions -> Numbers]
  BY <1>1, <1>2 DEF Numbers
<1>5. late' \subseteq Transactions /\ swept' \union late' \subseteq Transactions
  BY <1>1
<1>6. WorldOK(Now')
  <2>1. Now' \in Worlds
    BY <1>1, <1>2, <1>3, <1>4, <1>5 DEF Now, Worlds
  <2>2. ASSUME NEW u \in Transactions
        PROVE  /\ u > hdr.next_transaction => state'[u] = "active" /\ lock_data'[u] = 0
               /\ lock_data'[u] <= u
               /\ state'[u] = "committed" => cn'[u] <= latest_commit_number'
               /\ u \in swept' \union late' => state'[u] = "dead"
    <3>1. /\ u > hdr.next_transaction => state[u] = "active" /\ lock_data[u] = 0
          /\ lock_data[u] <= u /\ u \in Nat \ {0}
          /\ state[u] = "committed" => cn[u] <= latest_commit_number
          /\ u \in swept \union late => state[u] = "dead"
      BY <1>1, NowFields DEF WorldOK, Transactions
    <3>2. CASE u # t
      BY <1>1, <3>1, <3>2 DEF Numbers
    <3>3. CASE u = t
      BY <1>1, <3>1, <3>3 DEF Numbers
    <3>. QED  BY <3>2, <3>3
  <2>. QED  BY <2>1, <2>2, NowFields DEF WorldOK
<1>7. Progress(Now, Now')
  <2>1. ASSUME NEW u \in 1 .. hdr.next_transaction
        PROVE  /\ lock_data[u] = 0 => lock_data'[u] = 0
               /\ state[u] # "active" => state'[u] # "active"
               /\ state[u] = "active" /\ lock_data[u] = 0 => state'[u] \in {"active", "dead"}
               /\ state[u] = "dead" => state'[u] = "dead"
               /\ state[u] = "committed" => state'[u] = "committed" /\ cn'[u] = cn[u]
    <3>1. u \in Transactions
      BY <1>1 DEF Transactions
    <3>2. CASE u = t
      BY <1>1, <3>2
    <3>3. CASE u # t
      BY <1>1, <3>1, <3>3
    <3>. QED  BY <3>2, <3>3
  <2>2. latest_commit_number <= latest_commit_number' /\ late \subseteq late'
    BY <1>1
  <2>. QED  BY <1>1, <2>1, <2>2, NowFields DEF Progress
<1>8. Apart(Now, Now', IF tra[a].pc = "idle" THEN 0 ELSE tra[a].number)
  <2>1. ASSUME NEW u \in 1 .. hdr.next_transaction, lock_data[u] # 0,
               tra[a].pc # "idle" => u # tra[a].number
        PROVE  lock_data'[u] = lock_data[u] /\ (state[u] = "active" => state'[u] = "active")
    <3>1. u \in Transactions
      BY <1>1 DEF Transactions
    <3>2. CASE u = t
      BY <1>1, <2>1, <3>2
    <3>3. CASE u # t
      BY <1>1, <3>1, <3>3
    <3>. QED  BY <3>2, <3>3
  <2>. QED  BY <2>1, NowFields DEF Apart
<1>9. ASSUME NEW b \in Attachments, tra[b].pc = "limbo"
      PROVE  LimboKept(Now, Now')
  <2>1. ASSUME NEW u \in 1 .. hdr.next_transaction, state[u] = "limbo", lock_data[u] = 0
        PROVE  state'[u] \in {"limbo", "committed"} \/ u \in late'
    <3>1. u \in Transactions
      BY <1>1 DEF Transactions
    <3>2. CASE u = t
      BY <1>1, <1>9, <2>1, <3>2
    <3>3. CASE u # t
      BY <1>1, <2>1, <3>1, <3>3
    <3>. QED  BY <3>2, <3>3
  <2>. QED  BY <2>1, NowFields DEF LimboKept
<1>10. WorldMoves(a)
  BY <1>2, <1>6, <1>7, <1>8, <1>9 DEF WorldMoves
<1>. QED  BY <1>1, <1>2, <1>3, <1>4, <1>5, <1>10

\* The attachment changes the data of its own lock, or gives it up.
LEMMA LockMoves ==
    ASSUME IInv, NEW a \in Attachments, tra[a].pc # "idle", NEW d \in Nat,
           lock_data' = [lock_data EXCEPT ![tra[a].number] = d],
           d = 0 \/ (lock_data[tra[a].number] # 0 /\ d <= tra[a].number),
           state' = state, cn' = cn, latest_commit_number' = latest_commit_number,
           hdr'.next_transaction = hdr.next_transaction, swept' = swept, late' = late
    PROVE  WorldMoves(a) /\ lock_data' \in [Transactions -> Numbers]
<1> DEFINE n == tra[a].number
<1>1. /\ WorldOK(Now) /\ Counted(Now) /\ Now \in Worlds
      /\ lock_data \in [Transactions -> Numbers]
      /\ hdr.next_transaction \in 0 .. MaxTransactions /\ MaxTransactions \in Nat
      /\ n \in 1 .. hdr.next_transaction /\ n \in Transactions /\ latest_commit_number \in Nat
  BY OldestAssumption, NowFields, Facts
     DEF IInv, WorldOK, Worlds, TypeOK, States, Transactions, NumberOK
<1>2. lock_data' = [lock_data EXCEPT ![n] = d] /\ d <= n
      /\ (d = 0 \/ lock_data[n] # 0)
  BY <1>1
<1>3. tra[a].pc # "idle" /\ n = IF tra[a].pc = "idle" THEN 0 ELSE tra[a].number
  OBVIOUS
<1> HIDE DEF n
<1>4. lock_data' \in [Transactions -> Numbers]
  <2>1. d \in Numbers
    BY <1>1, <1>2 DEF Numbers
  <2>. QED  BY <1>1, <1>2, <2>1
<1>5. Counted(Now')
  BY <1>1, NowFields DEF Counted, Committed
<1>6. WorldOK(Now')
  <2>1. Now' \in Worlds
    BY <1>1, <1>4, NowFields DEF Now, Worlds
  <2>2. ASSUME NEW u \in Transactions
        PROVE  (u > hdr.next_transaction => lock_data'[u] = 0) /\ lock_data'[u] <= u
    <3>1. (u > hdr.next_transaction => lock_data[u] = 0) /\ lock_data[u] <= u
      BY <1>1, NowFields DEF WorldOK
    <3>. QED  BY <1>1, <1>2, <3>1 DEF Transactions
  <2>. QED  BY <1>1, <2>1, <2>2, NowFields DEF WorldOK
<1>7. \A u \in 1 .. hdr.next_transaction :
        /\ lock_data[u] = 0 => lock_data'[u] = 0
        /\ u # n => lock_data'[u] = lock_data[u]
  BY <1>1, <1>2 DEF Transactions
<1>8. Progress(Now, Now')
  BY <1>1, <1>7, NowFields DEF Progress
<1>9. Apart(Now, Now', n)
  BY <1>7, NowFields DEF Apart
<1>10. LimboKept(Now, Now')
  BY NowFields DEF LimboKept
<1>. QED  BY <1>3, <1>4, <1>5, <1>6, <1>8, <1>9, <1>10 DEF WorldMoves

\* A transaction that goes on with nothing new found out.
LEMMA OwnGoesOn ==
    ASSUME IInv, NEW a \in Attachments, tra[a].pc # "idle", WorldMoves(a),
           NEW p \in Steps \ {"idle", "begin", "active", "write", "limbo", "advance"},
           p \in Sweeping \union {"oldest", "precommit"} => tra[a].tra_oldest_active >= 1,
           tra' = [tra EXCEPT ![a] = [tra[a] EXCEPT !.pc = p]], missed' = missed,
           lock_data'[tra[a].number] \in {lock_data[tra[a].number], 0},
           NumberOK(Now', tra'[a])
    PROVE  OwnOK(a) /\ OthersStay(a) /\ tra' \in [Attachments -> Transaction]
<1> DEFINE r == tra[a]
           q == [tra[a] EXCEPT !.pc = p]
<1>1. /\ r \in Transaction /\ tra \in [Attachments -> Transaction] /\ SearchOK(Now, r)
      /\ ReadOK(Now, r, missed[a]) /\ Now.next \in Nat /\ WorldOK(Now) /\ NumberOK(Now, r)
  BY Facts DEF IInv, TypeOK
<1>2. /\ q \in Transaction /\ q.pc = p /\ q.number = r.number /\ q.kind = r.kind
      /\ q.tra_oldest = r.tra_oldest /\ q.tra_oldest_active = r.tra_oldest_active
      /\ q.snapshot = r.snapshot
  BY <1>1 DEF Transaction
<1>3. tra'[a] = q /\ tra' \in [Attachments -> Transaction]
      /\ \A b \in Attachments \ {a} : tra'[b] = tra[b]
  BY <1>1, <1>2
<1>4. OthersStay(a)
  BY <1>2, <1>3 DEF OthersStay
<1>5. WorldOK(Now') /\ Progress(Now, Now') /\ Now'.next \in Nat
  BY NextNumber DEF WorldMoves
<1>6. /\ \A x \in Snapshots : Safe(Now', tra'[a], missed'[a], x)
      /\ Safe(Now', tra'[a], {}, tra'[a].tra_oldest)
      /\ \A x \in 0 .. Now.next + 1 :
           Safe(Now, tra[a], missed[a], x) => Safe(Now', tra'[a], missed'[a], x)
  BY <1>2, <1>3, <1>5, OwnSafe
<1>7. SearchOK(Now', q)
  <2>1. Gone(Now', r.tra_oldest_active)
    BY <1>1, <1>5, GoneKept DEF SearchOK
  <2>. QED  BY <1>1, <1>2, <2>1 DEF SearchOK
<1>8. SweepOK(Now', q)
  BY <1>2 DEF SweepOK
<1>9. ReadOK(Now', q, missed'[a])
  <2>1. ASSUME q.snapshot # 0
        PROVE  Safe(Now', q, missed'[a], lock_data'[q.number])
    <3>1. Safe(Now, r, missed[a], lock_data[r.number])
      BY <1>1, <1>2, <2>1, NowFields DEF ReadOK
    <3>2. lock_data[r.number] \in 0 .. Now.next + 1
      <4>1. r.number \in 1 .. Now.next /\ r.number \in Transactions
        BY <1>1, OldestAssumption DEF NumberOK, WorldOK, Worlds, Transactions
      <4>2. lock_data[r.number] \in Numbers /\ lock_data[r.number] <= r.number
        BY <1>1, <4>1, NowFields DEF WorldOK, Worlds
      <4>. QED  BY <1>1, <4>1, <4>2, OldestAssumption DEF Numbers
    <3>3. Safe(Now', q, missed'[a], lock_data[r.number])
      BY <1>3, <1>6, <3>1, <3>2
    <3>4. Safe(Now', q, missed'[a], 0)
      BY DEF Safe
    <3>. QED  BY <1>2, <3>3, <3>4
  <2>. QED  BY <1>2, <1>3, <1>6, <2>1, NowFields DEF ReadOK
<1>. QED  BY <1>3, <1>4, <1>6, <1>7, <1>8, <1>9 DEF OwnOK, TransactionOK

\* The attachment is at rest again.
LEMMA OwnEnds ==
    ASSUME IInv, NEW a \in Attachments, WorldMoves(a),
           tra' = [tra EXCEPT ![a] = NoTransaction],
           \A b \in Attachments \ {a} : missed'[b] = missed[b]
    PROVE  OwnOK(a) /\ OthersStay(a) /\ tra' \in [Attachments -> Transaction]
<1>1. tra \in [Attachments -> Transaction] /\ NoTransaction \in Transaction
  BY OldestAssumption DEF IInv, TypeOK, Transaction, NoTransaction, Steps, Numbers
<1>2. /\ NoTransaction.pc = "idle" /\ NoTransaction.snapshot = 0 /\ NoTransaction.number = 0
      /\ NoTransaction.tra_oldest_active = 0 /\ NoTransaction.tra_oldest = 0
  BY DEF NoTransaction
<1>3. tra'[a] = NoTransaction /\ tra' \in [Attachments -> Transaction]
      /\ \A b \in Attachments \ {a} : tra'[b] = tra[b]
  BY <1>1
<1>4. OthersStay(a)
  BY <1>2, <1>3 DEF OthersStay
<1>5. \A M, x : Safe(Now', NoTransaction, M, x)
  BY <1>2 DEF Safe
<1>6. NumberOK(Now', NoTransaction)
  BY <1>2 DEF NumberOK, Running, Sweeping
<1>7. SearchOK(Now', NoTransaction)
  <2>1. Now'.next \in Nat
    BY NextNumber DEF WorldMoves
  <2>. QED  BY <1>2, <2>1 DEF SearchOK, Gone, Sweeping
<1>8. SweepOK(Now', NoTransaction) /\ ReadOK(Now', NoTransaction, missed'[a])
  BY <1>2, <1>5 DEF SweepOK, ReadOK
<1>. QED  BY <1>3, <1>4, <1>5, <1>6, <1>7, <1>8 DEF OwnOK, TransactionOK

\* A counter of a process or the header page is typed if its value is.
LEMMA TypesKept ==
    ASSUME IInv, state' \in [Transactions -> States], cn' \in [Transactions -> Numbers],
           latest_commit_number' \in 1 .. MaxTransactions + 1,
           lock_data' \in [Transactions -> Numbers], hdr' \in Header,
           dbb' \in [Attachments -> Counters], tra' \in [Attachments -> Transaction],
           swept' \subseteq Transactions, missed' \in [Attachments -> SUBSET Transactions],
           late' \subseteq Transactions
    PROVE  TypeOK'
  BY DEF TypeOK, States

\* The attachment ends its own transaction, or prepares it.
LEMMA EndOwn ==
    ASSUME IInv, NEW a \in Attachments, NEW s \in States \ {"active"},
           tra[a].pc \in {"ready", "prepared", "precommit"},
           tra[a].pc = "prepared" => state[tra[a].number] = "limbo",
           NEW p \in {"release", "prepared", "sweep"},
           p = "sweep" => tra[a].pc = "precommit",
           state' = [state EXCEPT ![tra[a].number] = s],
           cn' = IF s = "committed"
                 THEN [cn EXCEPT ![tra[a].number] = latest_commit_number + 1] ELSE cn,
           latest_commit_number' =
             IF s = "committed" THEN latest_commit_number + 1 ELSE latest_commit_number,
           \/ lock_data' = lock_data
           \/ p = "sweep" /\ lock_data' = [lock_data EXCEPT ![tra[a].number] = 0],
           tra' = [tra EXCEPT ![a] = [tra[a] EXCEPT !.pc = p]],
           hdr' = hdr, dbb' = dbb, swept' = swept, missed' = missed, late' = late
    PROVE  IInv'
<1> DEFINE n == tra[a].number
<1>1. /\ TypeOK /\ WorldOK(Now) /\ NumberOK(Now, tra[a]) /\ SearchOK(Now, tra[a])
      /\ tra[a] \in Transaction
  BY Facts
<1>2. n \in 1 .. hdr.next_transaction /\ n \in Transactions
      /\ hdr.next_transaction \in 0 .. MaxTransactions /\ MaxTransactions \in Nat
  BY <1>1, NowFields, OldestAssumption DEF NumberOK, WorldOK, Worlds, Transactions
<1>3. lock_data[n] # 0 /\ state[n] \in {"active", "limbo"} /\ n <= hdr.next_transaction
  BY <1>1, <1>2, NowFields DEF NumberOK, Running
<1>4. /\ state \in [Transactions -> States] /\ lock_data \in [Transactions -> Numbers]
      /\ tra \in [Attachments -> Transaction]
  BY <1>1 DEF TypeOK, States
<1>5. state'[n] = s /\ (lock_data' = lock_data \/ p = "sweep")
  BY <1>2, <1>4
<1>6. lock_data'[n] \in {lock_data[n], 0} /\ lock_data' \in {lock_data, [lock_data EXCEPT ![n] = 0]}
  BY <1>2, <1>4
<1>7. p = "sweep" => tra[a].kind = "sweep" /\ tra[a].tra_oldest_active >= 1
  BY <1>1 DEF NumberOK, SearchOK, Sweeping
<1>8. WorldMoves(a) /\ state' \in [Transactions -> States] /\ cn' \in [Transactions -> Numbers]
      /\ latest_commit_number' \in 1 .. MaxTransactions + 1
      /\ lock_data' \in [Transactions -> Numbers]
  <2>1. n = tra[a].number
    OBVIOUS
  <2> HIDE DEF n
  <2>. QED  BY <1>2, <1>3, <1>6, <2>1, EndMoves
<1>9. NumberOK(Now', tra'[a])
  <2> DEFINE q == [tra[a] EXCEPT !.pc = p]
  <2>1. /\ tra'[a] = q /\ q.pc = p /\ q.number = n /\ q.kind = tra[a].kind
        /\ q.snapshot = tra[a].snapshot
    BY <1>1, <1>4 DEF Transaction
  <2>2. tra[a].kind # "none" /\ (tra[a].snapshot # 0 => tra[a].kind = "snapshot")
    BY <1>1 DEF NumberOK
  <2>3. Now'.state = state' /\ Now'.lock_data = lock_data' /\ Now'.next = hdr.next_transaction
    BY NowFields
  <2> HIDE DEF n, q
  <2>. QED  BY <1>2, <1>3, <1>5, <1>7, <2>1, <2>2, <2>3 DEF NumberOK, Running, Sweeping
<1>10. OwnOK(a) /\ OthersStay(a) /\ tra' \in [Attachments -> Transaction]
  <2>1. p \in Steps \ {"idle", "begin", "active", "write", "limbo", "advance"}
    BY DEF Steps
  <2>2. p \in Sweeping \union {"oldest", "precommit"} => tra[a].tra_oldest_active >= 1
    BY <1>7 DEF Sweeping
  <2>. QED  BY <1>6, <1>8, <1>9, <2>1, <2>2, OwnGoesOn
<1>11. TypeOK'
  BY <1>1, <1>8, <1>10, TypesKept DEF TypeOK
<1>12. CountersMove
  <2>1. \A b \in Attachments :
          /\ tra'[b].tra_oldest = tra[b].tra_oldest
          /\ tra'[b].oldest_active = tra[b].oldest_active
          /\ tra'[b].tra_oldest_active = tra[b].tra_oldest_active
    BY <1>1, <1>4 DEF Transaction
  <2>2. hdr' = [hdr EXCEPT !.next_transaction = hdr'.next_transaction]
    BY <1>1 DEF TypeOK, Header
  <2>. QED  BY <2>1, <2>2, CountersStay
<1>. QED  BY <1>8, <1>10, <1>11, <1>12, StepKeeps

\* Precommit keeps the invariant.
LEMMA PrecommitKeeps ==
    ASSUME IInv, NEW a \in Attachments, Precommit(a)
    PROVE  IInv'
<1>1. tra[a].pc = "precommit" /\ "committed" \in States \ {"active"}
  BY DEF Precommit, At, States
<1>2. /\ state' = [state EXCEPT ![tra[a].number] = "committed"]
      /\ cn' = [cn EXCEPT ![tra[a].number] = latest_commit_number + 1]
      /\ latest_commit_number' = latest_commit_number + 1
      /\ lock_data' = [lock_data EXCEPT ![tra[a].number] = 0]
      /\ tra' = [tra EXCEPT ![a] = [tra[a] EXCEPT !.pc = "sweep"]]
      /\ hdr' = hdr /\ dbb' = dbb /\ swept' = swept /\ missed' = missed /\ late' = late
  BY DEF Precommit, CommitAs, history
<1>. QED  BY <1>1, <1>2, EndOwn

\* TRA_commit keeps the invariant.
LEMMA CommitKeeps ==
    ASSUME IInv, NEW a \in Attachments, TRA_commit(a)
    PROVE  IInv'
<1>1. /\ tra[a].pc \in {"ready", "prepared"} /\ "committed" \in States \ {"active"}
      /\ tra[a].pc = "prepared" => state[tra[a].number] = "limbo"
  BY DEF TRA_commit, Undecided, At, States
<1>2. /\ state' = [state EXCEPT ![tra[a].number] = "committed"]
      /\ cn' = [cn EXCEPT ![tra[a].number] = latest_commit_number + 1]
      /\ latest_commit_number' = latest_commit_number + 1
      /\ lock_data' = lock_data
      /\ tra' = [tra EXCEPT ![a] = [tra[a] EXCEPT !.pc = "release"]]
      /\ hdr' = hdr /\ dbb' = dbb /\ swept' = swept /\ missed' = missed /\ late' = late
  BY DEF TRA_commit, CommitAs, history
<1>. QED  BY <1>1, <1>2, EndOwn

\* TRA_rollback keeps the invariant.
LEMMA RollbackKeeps ==
    ASSUME IInv, NEW a \in Attachments, TRA_rollback(a)
    PROVE  IInv'
<1>1. /\ tra[a].pc \in {"ready", "prepared"} /\ "dead" \in States \ {"active"}
      /\ tra[a].pc = "prepared" => state[tra[a].number] = "limbo"
  BY DEF TRA_rollback, Undecided, At, States
<1>2. /\ state' = [state EXCEPT ![tra[a].number] = "dead"]
      /\ cn' = cn /\ latest_commit_number' = latest_commit_number /\ lock_data' = lock_data
      /\ tra' = [tra EXCEPT ![a] = [tra[a] EXCEPT !.pc = "release"]]
      /\ hdr' = hdr /\ dbb' = dbb /\ swept' = swept /\ missed' = missed /\ late' = late
  BY DEF TRA_rollback, history
<1>. QED  BY <1>1, <1>2, EndOwn

\* TRA_prepare keeps the invariant.
LEMMA PrepareKeeps ==
    ASSUME IInv, NEW a \in Attachments, TRA_prepare(a)
    PROVE  IInv'
<1>1. tra[a].pc = "ready" /\ "limbo" \in States \ {"active"}
  BY DEF TRA_prepare, At, States
<1>2. /\ state' = [state EXCEPT ![tra[a].number] = "limbo"]
      /\ cn' = cn /\ latest_commit_number' = latest_commit_number /\ lock_data' = lock_data
      /\ tra' = [tra EXCEPT ![a] = [tra[a] EXCEPT !.pc = "prepared"]]
      /\ hdr' = hdr /\ dbb' = dbb /\ swept' = swept /\ missed' = missed /\ late' = late
  BY DEF TRA_prepare, history
<1>. QED  BY <1>1, <1>2, EndOwn

\* purgeTransactions keeps the invariant.
LEMMA PurgeKeeps ==
    ASSUME IInv, NEW a \in Attachments, purgeTransactions(a)
    PROVE  IInv'
<1>1. /\ tra[a].pc = "prepared" /\ missed' = missed
      /\ tra' = [tra EXCEPT ![a] = [tra[a] EXCEPT !.pc = "release"]]
      /\ hdr' = hdr /\ state' = state /\ cn' = cn /\ lock_data' = lock_data
      /\ latest_commit_number' = latest_commit_number /\ swept' = swept /\ late' = late
      /\ dbb' = dbb
  BY DEF purgeTransactions, At, history
<1>2. TypeOK /\ NumberOK(Now, tra[a]) /\ tra[a] \in Transaction
  BY Facts
<1>3. WorldMoves(a)
  <2>1. Now' = Now
    BY <1>1 DEF Now
  <2>. QED  BY <2>1, WorldStays
<1>4. NumberOK(Now', tra'[a])
  <2> DEFINE q == [tra[a] EXCEPT !.pc = "release"]
  <2>1. /\ tra'[a] = q /\ q.pc = "release" /\ q.number = tra[a].number
        /\ q.kind = tra[a].kind /\ q.snapshot = tra[a].snapshot
    BY <1>1, <1>2 DEF TypeOK, Transaction
  <2>2. Now' = Now
    BY <1>1 DEF Now
  <2> HIDE DEF q
  <2>. QED  BY <1>1, <1>2, <2>1, <2>2 DEF NumberOK, Running, Sweeping
<1>5. OwnOK(a) /\ OthersStay(a) /\ tra' \in [Attachments -> Transaction]
  <2>1. "release" \in Steps \ {"idle", "begin", "active", "write", "limbo", "advance"}
        /\ "release" \notin Sweeping \union {"oldest", "precommit"}
    BY DEF Steps, Sweeping
  <2>2. lock_data'[tra[a].number] \in {lock_data[tra[a].number], 0} /\ tra[a].pc # "idle"
    BY <1>1
  <2>. QED  BY <1>1, <1>3, <1>4, <2>1, <2>2, OwnGoesOn
<1>6. TypeOK'
  BY <1>1, <1>2, <1>5 DEF TypeOK
<1>7. CountersMove
  <2>1. \A b \in Attachments :
          /\ tra'[b].tra_oldest = tra[b].tra_oldest
          /\ tra'[b].oldest_active = tra[b].oldest_active
          /\ tra'[b].tra_oldest_active = tra[b].tra_oldest_active
    BY <1>1, <1>2 DEF TypeOK, Transaction
  <2>2. hdr' = [hdr EXCEPT !.next_transaction = hdr'.next_transaction]
    BY <1>1, <1>2 DEF TypeOK, Header
  <2>. QED  BY <1>1, <2>1, <2>2, CountersStay
<1>. QED  BY <1>3, <1>5, <1>6, <1>7, StepKeeps

\* Of a transaction that has ended nothing is remembered.
LEMMA CountersEnd ==
    ASSUME IInv, NEW a \in Attachments, WorldMoves(a), hdr' = hdr,
           tra' = [tra EXCEPT ![a] = NoTransaction],
           \A b \in Attachments :
               /\ dbb'[b].oldest_transaction \in {dbb[b].oldest_transaction, hdr.oldest_transaction}
               /\ dbb'[b].oldest_active \in {dbb[b].oldest_active, hdr.oldest_active}
               /\ dbb'[b].oldest_snapshot \in {dbb[b].oldest_snapshot, hdr.oldest_snapshot}
    PROVE  CountersMove
<1>1. tra \in [Attachments -> Transaction]
  BY DEF IInv, TypeOK
<1>2. /\ NoTransaction.tra_oldest = 0 /\ NoTransaction.oldest_active = 0
      /\ NoTransaction.tra_oldest_active = 0
  BY DEF NoTransaction
<1>3. \A b \in Attachments :
        /\ tra'[b].tra_oldest \in {tra[b].tra_oldest, 0}
        /\ tra'[b].oldest_active \in {tra[b].oldest_active, 0}
        /\ tra'[b].tra_oldest_active \in {tra[b].tra_oldest_active, 0}
  BY <1>1, <1>2
<1>4. Settles(Now', 0) /\ Floor(Now', 0) /\ \A r, M : Safe(Now', r, M, 0)
  <2>1. Now'.next \in Nat
    BY NextNumber DEF WorldMoves
  <2>. QED  BY <2>1 DEF Settles, Floor, Safe
<1>5. hdr'.oldest_transaction >= 1 /\ \A b \in Attachments : dbb'[b].oldest_transaction >= 1
  BY DEF IInv, CountersOK
<1>6. \A x \in Oldests' : x \in Oldests \/ x = 0
  BY <1>3 DEF Oldests
<1>7. \A x \in Actives' : x \in Actives \/ x = 0
  BY <1>3 DEF Actives
<1>8. \A x \in Snapshots' : x \in Snapshots \/ x = 0
  BY <1>3 DEF Snapshots
<1>. QED  BY <1>4, <1>5, <1>6, <1>7, <1>8 DEF CountersMove

\* TRA_release_transaction keeps the invariant.
LEMMA ReleaseKeeps ==
    ASSUME IInv, NEW a \in Attachments, TRA_release_transaction(a)
    PROVE  IInv'
<1>1. /\ tra[a].pc = "release" /\ lock_data' = [lock_data EXCEPT ![tra[a].number] = 0]
      /\ tra' = [tra EXCEPT ![a] = NoTransaction] /\ missed' = [missed EXCEPT ![a] = {}]
      /\ hdr' = hdr /\ state' = state /\ cn' = cn /\ latest_commit_number' = latest_commit_number
      /\ dbb' = dbb /\ swept' = swept /\ late' = late
  BY DEF TRA_release_transaction, At
<1>2. TypeOK /\ missed \in [Attachments -> SUBSET Transactions]
  BY DEF IInv, TypeOK
<1>3. WorldMoves(a) /\ lock_data' \in [Transactions -> Numbers]
  BY <1>1, LockMoves
<1>4. missed' \in [Attachments -> SUBSET Transactions]
      /\ \A b \in Attachments \ {a} : missed'[b] = missed[b]
  BY <1>1, <1>2
<1>5. OwnOK(a) /\ OthersStay(a) /\ tra' \in [Attachments -> Transaction]
  BY <1>1, <1>3, <1>4, OwnEnds
<1>6. TypeOK'
  BY <1>1, <1>2, <1>3, <1>4, <1>5 DEF TypeOK
<1>7. CountersMove
  BY <1>1, <1>3, CountersEnd
<1>. QED  BY <1>3, <1>5, <1>6, <1>7, StepKeeps

\* A crash keeps the invariant.
LEMMA CrashKeeps ==
    ASSUME IInv, NEW a \in Attachments, Crash(a)
    PROVE  IInv'
<1> DEFINE d == [oldest_transaction |-> hdr.oldest_transaction,
                 oldest_active |-> hdr.oldest_active, oldest_snapshot |-> hdr.oldest_snapshot]
<1>1. /\ tra[a].pc # "idle" /\ lock_data' = [lock_data EXCEPT ![tra[a].number] = 0]
      /\ tra' = [tra EXCEPT ![a] = NoTransaction] /\ missed' = [missed EXCEPT ![a] = {}]
      /\ hdr' = hdr /\ state' = state /\ cn' = cn /\ latest_commit_number' = latest_commit_number
      /\ dbb' = [dbb EXCEPT ![a] = d] /\ swept' = swept /\ late' = late
  BY DEF Crash, At
<1>2. /\ TypeOK /\ missed \in [Attachments -> SUBSET Transactions] /\ hdr \in Header
      /\ dbb \in [Attachments -> Counters]
  BY DEF IInv, TypeOK
<1>3. WorldMoves(a) /\ lock_data' \in [Transactions -> Numbers]
  BY <1>1, LockMoves
<1>4. missed' \in [Attachments -> SUBSET Transactions]
      /\ \A b \in Attachments \ {a} : missed'[b] = missed[b]
  BY <1>1, <1>2
<1>5. OwnOK(a) /\ OthersStay(a) /\ tra' \in [Attachments -> Transaction]
  BY <1>1, <1>3, <1>4, OwnEnds
<1>6. dbb' \in [Attachments -> Counters]
  <2>1. d \in Counters
    BY <1>2 DEF Header, Counters
  <2>. QED  BY <1>1, <1>2, <2>1
<1>7. TypeOK'
  BY <1>1, <1>2, <1>3, <1>4, <1>5, <1>6 DEF TypeOK
<1>8. CountersMove
  <2>1. \A b \in Attachments :
          /\ dbb'[b].oldest_transaction \in {dbb[b].oldest_transaction, hdr.oldest_transaction}
          /\ dbb'[b].oldest_active \in {dbb[b].oldest_active, hdr.oldest_active}
          /\ dbb'[b].oldest_snapshot \in {dbb[b].oldest_snapshot, hdr.oldest_snapshot}
    BY <1>1, <1>2
  <2> HIDE DEF d
  <2>. QED  BY <1>1, <1>3, <2>1, CountersEnd
<1>. QED  BY <1>3, <1>5, <1>7, <1>8, StepKeeps

\* Nothing changes for an attachment at rest.
LEMMA OwnRests ==
    ASSUME IInv, NEW a \in Attachments, WorldMoves(a), tra[a].pc = "idle", tra' = tra,
           missed' = missed
    PROVE  OwnOK(a) /\ OthersStay(a)
<1>1. tra[a] = NoTransaction /\ tra \in [Attachments -> Transaction]
  BY Facts DEF NumberOK, TypeOK
<1>2. tra' = [tra EXCEPT ![a] = NoTransaction]
  BY <1>1
<1>. QED  BY <1>2, OwnEnds

\* TRA_reconnect keeps the invariant.
LEMMA ReconnectKeeps ==
    ASSUME IInv, NEW a \in Attachments, TRA_reconnect(a)
    PROVE  IInv'
<1>1. /\ tra[a].pc = "idle" /\ tra' = tra /\ missed' = missed /\ hdr' = hdr
      /\ lock_data' = lock_data /\ dbb' = dbb /\ swept' = swept
  BY DEF TRA_reconnect, At
<1>2. PICK t \in Transactions :
        /\ state[t] = "limbo"
        /\ \/ CommitAs(t) /\ late' = late
           \/ /\ state' = [state EXCEPT ![t] = "dead"]
              /\ late' = IF \E b \in Attachments : At(b, "limbo") THEN late \union {t} ELSE late
              /\ UNCHANGED <<cn, latest_commit_number>>
  BY DEF TRA_reconnect
<1>3. TypeOK /\ WorldOK(Now) /\ hdr.next_transaction \in Nat
  BY Facts
<1>4. t <= hdr.next_transaction
  BY <1>2, <1>3, NowFields DEF WorldOK, Transactions
<1>5. /\ WorldMoves(a)
      /\ state' \in [Transactions -> States] /\ cn' \in [Transactions -> Numbers]
      /\ latest_commit_number' \in 1 .. MaxTransactions + 1
      /\ late' \subseteq Transactions
  <2>1. CASE CommitAs(t) /\ late' = late
    <3>1. "committed" \in States \ {"active"}
      BY DEF States
    <3>. QED  BY <1>1, <1>2, <1>4, <2>1, <3>1, EndMoves DEF CommitAs
  <2>2. CASE /\ state' = [state EXCEPT ![t] = "dead"]
             /\ late' = IF \E b \in Attachments : At(b, "limbo") THEN late \union {t} ELSE late
             /\ UNCHANGED <<cn, latest_commit_number>>
    <3>1. "dead" \in States \ {"active"}
      BY DEF States
    <3>2. (\E b \in Attachments : tra[b].pc = "limbo") => t \in late'
      BY <2>2 DEF At
    <3>3. late' \in {late, late \union {t}}
      BY <2>2
    <3>. QED  BY <1>1, <1>2, <1>4, <2>2, <3>1, <3>2, <3>3, EndMoves
  <2>. QED  BY <1>2, <2>1, <2>2
<1>6. OwnOK(a) /\ OthersStay(a)
  BY <1>1, <1>5, OwnRests
<1>7. TypeOK'
  BY <1>1, <1>3, <1>5, TypesKept DEF TypeOK
<1>8. CountersMove
  <2>1. hdr' = [hdr EXCEPT !.next_transaction = hdr'.next_transaction]
    BY <1>1, <1>3 DEF TypeOK, Header
  <2>. QED  BY <1>1, <2>1, CountersStay
<1>. QED  BY <1>5, <1>6, <1>7, <1>8, StepKeeps

\* TRA_update_counters keeps the invariant.
LEMMA UpdateKeeps ==
    ASSUME IInv, NEW a \in Attachments, TRA_update_counters(a)
    PROVE  IInv'
<1>1. /\ tra[a].pc = "idle" /\ tra' = tra /\ missed' = missed /\ state' = state /\ cn' = cn
      /\ latest_commit_number' = latest_commit_number /\ late' = late
      /\ lock_data' = lock_data /\ dbb' = dbb /\ swept' = swept
  BY DEF TRA_update_counters, At, history
<1>2. TypeOK /\ hdr \in Header /\ dbb[a] \in Counters /\ MaxTransactions \in Nat
  BY OldestAssumption, Facts DEF TypeOK
<1>3. /\ hdr' \in Header /\ hdr'.next_transaction = hdr.next_transaction
      /\ hdr'.oldest_transaction \in {hdr.oldest_transaction, dbb[a].oldest_transaction}
      /\ hdr'.oldest_active \in {hdr.oldest_active, dbb[a].oldest_active}
      /\ hdr'.oldest_snapshot \in {hdr.oldest_snapshot, dbb[a].oldest_snapshot}
  BY <1>2 DEF TRA_update_counters, Header, Counters, Larger
<1>4. WorldMoves(a)
  <2>1. Now' = Now
    BY <1>1, <1>3 DEF Now
  <2>. QED  BY <2>1, WorldStays
<1>5. OwnOK(a) /\ OthersStay(a)
  BY <1>1, <1>4, OwnRests
<1>6. TypeOK'
  BY <1>1, <1>2, <1>3 DEF TypeOK
<1>7. CountersMove
  <2>1. hdr'.oldest_transaction >= 1 /\ \A b \in Attachments : dbb'[b].oldest_transaction >= 1
    BY <1>1, <1>3 DEF IInv, CountersOK
  <2>2. \A x \in Oldests' : x \in Oldests
    BY <1>1, <1>3 DEF Oldests
  <2>3. \A x \in Actives' : x \in Actives
    BY <1>1, <1>3 DEF Actives
  <2>4. \A x \in Snapshots' : x \in Snapshots
    BY <1>1, <1>3 DEF Snapshots
  <2>. QED  BY <2>1, <2>2, <2>3, <2>4 DEF CountersMove
<1>. QED  BY <1>4, <1>5, <1>6, <1>7, StepKeeps

\* A snapshot goes on seeing what it saw.
LEMMA OwnReads ==
    ASSUME IInv, NEW a \in Attachments, WorldMoves(a), tra[a].pc # "idle",
           lock_data'[tra[a].number] = lock_data[tra[a].number],
           tra'[a].number = tra[a].number, tra'[a].snapshot = tra[a].snapshot,
           tra'[a].tra_oldest = tra[a].tra_oldest, missed[a] \subseteq missed'[a],
           tra'[a].pc = "write" => Safe(Now', tra'[a], missed'[a], tra'[a].oldest_active)
    PROVE  /\ ReadOK(Now', tra'[a], missed'[a])
           /\ \A x \in Snapshots : Safe(Now', tra'[a], missed'[a], x)
<1> DEFINE n == tra[a].number
<1>1. /\ NumberOK(Now, tra[a]) /\ WorldOK(Now) /\ ReadOK(Now, tra[a], missed[a])
      /\ Now.next \in Nat
  BY Facts
<1>2. lock_data[n] \in 0 .. Now.next + 1
  <2>1. n \in 1 .. Now.next /\ n \in Transactions
    BY <1>1, OldestAssumption DEF NumberOK, WorldOK, Worlds, Transactions
  <2>2. lock_data[n] \in Numbers /\ lock_data[n] <= n
    BY <1>1, <2>1, NowFields DEF WorldOK, Worlds
  <2>. QED  BY <1>1, <2>1, <2>2, OldestAssumption DEF Numbers
<1>3. /\ \A x \in Snapshots : Safe(Now', tra'[a], missed'[a], x)
      /\ Safe(Now', tra'[a], {}, tra'[a].tra_oldest)
      /\ \A x \in 0 .. Now.next + 1 :
           Safe(Now, tra[a], missed[a], x) => Safe(Now', tra'[a], missed'[a], x)
  <2>1. Progress(Now, Now')
    BY DEF WorldMoves
  <2>. QED  BY <2>1, OwnSafe
<1>4. ASSUME tra'[a].snapshot # 0
      PROVE  Safe(Now', tra'[a], missed'[a], Now'.lock_data[tra'[a].number])
  <2>1. Safe(Now, tra[a], missed[a], lock_data[n])
    BY <1>1, <1>4, NowFields DEF ReadOK
  <2>. QED  BY <1>2, <1>3, <2>1, NowFields
<1>. QED  BY <1>3, <1>4 DEF ReadOK

\* What is safe from a counter is safe from a smaller one.
LEMMA SafeBelow ==
    ASSUME NEW W, NEW r, NEW M, NEW x \in Nat, Safe(W, r, M, x), NEW y \in Nat, y <= x
    PROVE  Safe(W, r, M, y)
  BY DEF Safe

\* The number of a transaction is one that was given out, and its lock carries none
\* above it.
LEMMA OwnNumber ==
    ASSUME IInv, NEW a \in Attachments, tra[a].pc # "idle"
    PROVE  /\ tra[a].number \in 1 .. hdr.next_transaction /\ tra[a].number \in Transactions
           /\ hdr.next_transaction \in 0 .. MaxTransactions /\ MaxTransactions \in Nat
           /\ lock_data[tra[a].number] \in 0 .. tra[a].number
           /\ tra[a].kind # "none"
<1>1. NumberOK(Now, tra[a]) /\ WorldOK(Now) /\ TypeOK
  BY Facts
<1>2. /\ tra[a].number \in 1 .. hdr.next_transaction /\ tra[a].number \in Transactions
      /\ hdr.next_transaction \in 0 .. MaxTransactions /\ MaxTransactions \in Nat
      /\ tra[a].kind # "none"
  BY <1>1, NowFields, OldestAssumption DEF NumberOK, WorldOK, Worlds, Transactions
<1>3. lock_data[tra[a].number] \in Numbers /\ lock_data[tra[a].number] <= tra[a].number
  BY <1>1, <1>2, NowFields DEF WorldOK, TypeOK
<1>. QED  BY <1>2, <1>3 DEF Numbers

\* LCK_write_data keeps the invariant.
LEMMA WriteDataKeeps ==
    ASSUME IInv, NEW a \in Attachments, LCK_write_data(a)
    PROVE  IInv'
<1> DEFINE r == tra[a]
           n == r.number
           q == [r EXCEPT !.pc = "query"]
           d == LockData(r.kind, n, r.oldest_active)
<1>1. /\ r.pc = "write" /\ lock_data' = [lock_data EXCEPT ![n] = d]
      /\ tra' = [tra EXCEPT ![a] = q]
      /\ hdr' = hdr /\ state' = state /\ cn' = cn /\ latest_commit_number' = latest_commit_number
      /\ dbb' = dbb /\ swept' = swept /\ missed' = missed /\ late' = late
  BY DEF LCK_write_data, At, history
<1>2. /\ TypeOK /\ r \in Transaction /\ NumberOK(Now, r) /\ SearchOK(Now, r)
      /\ ReadOK(Now, r, missed[a]) /\ Now.next \in Nat /\ r.oldest_active \in 0 .. Now.next + 1
  BY Facts
<1>3. n \in 1 .. hdr.next_transaction /\ n \in Transactions /\ lock_data[n] # 0
      /\ r.kind # "none" /\ r.oldest_active >= 1 /\ r.oldest_active <= n
  BY <1>1, <1>2, OwnNumber, NowFields DEF NumberOK, SearchOK, Running
<1>4. d \in 1 .. n /\ (r.kind = "snapshot" => d = r.oldest_active)
  BY <1>2, <1>3 DEF LockData
<1>5. WorldMoves(a) /\ lock_data' \in [Transactions -> Numbers] /\ lock_data'[n] = d
  <2>1. WorldMoves(a) /\ lock_data' \in [Transactions -> Numbers]
    <3>1. d \in Nat /\ d <= n
      BY <1>3, <1>4
    <3> HIDE DEF d
    <3>. QED  BY <1>1, <1>3, <3>1, LockMoves
  <2>. QED  BY <1>1, <1>2, <1>3, <2>1 DEF TypeOK
<1>6. /\ q \in Transaction /\ q.pc = "query" /\ q.number = n /\ q.kind = r.kind
      /\ q.tra_oldest = r.tra_oldest /\ q.tra_oldest_active = r.tra_oldest_active
      /\ q.snapshot = r.snapshot /\ q.oldest_active = r.oldest_active /\ r.number = n
  BY <1>2 DEF Transaction, Steps
<1>7. tra'[a] = q /\ tra' \in [Attachments -> Transaction]
      /\ \A b \in Attachments \ {a} : tra'[b] = tra[b]
  BY <1>1, <1>2, <1>6 DEF TypeOK
<1>8. OthersStay(a)
  BY <1>1, <1>6, <1>7 DEF OthersStay
<1>9. WorldOK(Now') /\ Progress(Now, Now') /\ Now'.next \in Nat
  BY <1>5, NextNumber DEF WorldMoves
<1> HIDE DEF r, n, q, d
<1>10. /\ \A x \in Snapshots : Safe(Now', q, missed'[a], x)
       /\ Safe(Now', q, {}, q.tra_oldest)
       /\ \A x \in 0 .. Now.next + 1 :
            Safe(Now, r, missed[a], x) => Safe(Now', q, missed'[a], x)
  BY <1>1, <1>6, <1>7, <1>9, OwnSafe DEF r
<1>11. NumberOK(Now', q)
  BY <1>1, <1>2, <1>3, <1>4, <1>5, <1>6, NowFields DEF NumberOK, Running, Sweeping
<1>12. SearchOK(Now', q)
  <2>1. Gone(Now', r.tra_oldest_active)
    BY <1>2, <1>9, GoneKept DEF SearchOK
  <2>. QED  BY <1>1, <1>2, <1>6, <2>1 DEF SearchOK, Sweeping
<1>13. SweepOK(Now', q)
  BY <1>6 DEF SweepOK
<1>14. ReadOK(Now', q, missed'[a])
  <2>1. ASSUME q.snapshot # 0
        PROVE  Safe(Now', q, missed'[a], Now'.lock_data[q.number])
    <3>1. Now'.lock_data[q.number] = r.oldest_active
      BY <1>2, <1>4, <1>5, <1>6, <2>1, NowFields DEF NumberOK
    <3>2. Safe(Now, r, missed[a], r.oldest_active)
      BY <1>1, <1>2 DEF ReadOK
    <3>. QED  BY <1>2, <1>10, <3>1, <3>2
  <2>. QED  BY <1>6, <1>10, <2>1 DEF ReadOK
<1>15. OwnOK(a)
  BY <1>7, <1>10, <1>11, <1>12, <1>13, <1>14 DEF OwnOK, TransactionOK
<1>16. TypeOK'
  BY <1>1, <1>2, <1>5, <1>7 DEF TypeOK
<1>17. CountersMove
  <2>1. \A b \in Attachments :
          /\ tra'[b].tra_oldest = tra[b].tra_oldest
          /\ tra'[b].oldest_active = tra[b].oldest_active
          /\ tra'[b].tra_oldest_active = tra[b].tra_oldest_active
    BY <1>6, <1>7 DEF r
  <2>2. hdr' = [hdr EXCEPT !.next_transaction = hdr'.next_transaction]
    BY <1>1, <1>2 DEF TypeOK, Header
  <2>. QED  BY <1>1, <2>1, <2>2, CountersStay
<1>. QED  BY <1>5, <1>8, <1>15, <1>16, <1>17, StepKeeps

\* beginSnapshot keeps the invariant.
LEMMA BeginSnapshotKeeps ==
    ASSUME IInv, NEW a \in Attachments, beginSnapshot(a)
    PROVE  IInv'
<1> DEFINE r == tra[a]
           q == [r EXCEPT !.pc = "active", !.snapshot = latest_commit_number]
           limbo == {t \in Transactions : state[t] = "limbo"}
<1>1. /\ r.pc = "begin" /\ tra' = [tra EXCEPT ![a] = q]
      /\ missed' = [missed EXCEPT ![a] = limbo]
      /\ hdr' = hdr /\ state' = state /\ cn' = cn /\ latest_commit_number' = latest_commit_number
      /\ lock_data' = lock_data /\ dbb' = dbb /\ swept' = swept /\ late' = late
  BY DEF beginSnapshot, At
<1>2. /\ TypeOK /\ WorldOK(Now) /\ r \in Transaction /\ NumberOK(Now, r) /\ SearchOK(Now, r)
      /\ ReadOK(Now, r, missed[a]) /\ Now.next \in Nat
  BY Facts
<1>3. /\ MaxTransactions \in Nat /\ latest_commit_number \in 1 .. MaxTransactions + 1
      /\ missed \in [Attachments -> SUBSET Transactions]
      /\ tra \in [Attachments -> Transaction]
  BY <1>2, OldestAssumption DEF TypeOK
<1>4. /\ q \in Transaction /\ q.pc = "active" /\ q.number = r.number /\ q.kind = r.kind
      /\ q.tra_oldest = r.tra_oldest /\ q.tra_oldest_active = r.tra_oldest_active
      /\ q.snapshot = latest_commit_number /\ q.oldest_active = r.oldest_active
      /\ q.active = r.active
  <2>1. latest_commit_number \in Numbers
    BY <1>3 DEF Numbers
  <2>. QED  BY <1>2, <2>1 DEF Transaction, Steps
<1>5. /\ tra'[a] = q /\ tra' \in [Attachments -> Transaction]
      /\ \A b \in Attachments \ {a} : tra'[b] = tra[b] /\ missed'[b] = missed[b]
      /\ missed'[a] = limbo /\ missed' \in [Attachments -> SUBSET Transactions]
  BY <1>1, <1>3, <1>4
<1>6. OthersStay(a)
  BY <1>1, <1>4, <1>5 DEF OthersStay
<1>7. Now' = Now
  BY <1>1 DEF Now
<1>8. WorldMoves(a)
  BY <1>7, WorldStays
<1>9. \A x : Floor(Now, x) => Safe(Now, q, limbo, x)
  <2>1. \A t \in Transactions : Now.state[t] = "limbo" => t \in limbo
    BY NowFields
  <2>2. q.snapshot = Now.latest
    BY <1>4, NowFields
  <2> HIDE DEF q, limbo
  <2>. QED  BY <1>2, <2>1, <2>2, SafeBegins
<1> HIDE DEF r, q, limbo
<1>10. NumberOK(Now, q)
  BY <1>1, <1>2, <1>4 DEF NumberOK, Running, Sweeping
<1>11. SearchOK(Now, q)
  BY <1>1, <1>2, <1>4 DEF SearchOK, Sweeping
<1>12. SweepOK(Now, q)
  BY <1>4 DEF SweepOK
<1>13. ReadOK(Now, q, limbo)
  <2>1. Safe(Now, q, limbo, Now.lock_data[q.number])
    <3>1. Now.lock_data[q.number] = r.active /\ Floor(Now, r.active)
      BY <1>1, <1>2, <1>4 DEF SearchOK
    <3>. QED  BY <1>9, <3>1
  <2>2. Safe(Now, q, {}, q.tra_oldest)
    <3>1. Settles(Now, r.tra_oldest)
      BY DEF IInv, CountersOK, Oldests, r
    <3>2. \A t \in 1 .. r.tra_oldest - 1 : t \in Transactions /\ Decided(Now, t)
      BY <1>2, <3>1, OldestAssumption DEF Settles, WorldOK, Worlds, Transactions
    <3>3. \A t \in Transactions : Decided(Now, t) =>
            Now.state[t] = "dead" \/ (Now.state[t] = "committed" /\ Now.cn[t] <= q.snapshot)
      BY <1>2, <1>4, NowFields DEF WorldOK, Decided
    <3>. QED  BY <1>4, <3>2, <3>3 DEF Safe, Seen
  <2>. QED  BY <1>4, <2>1, <2>2 DEF ReadOK
<1>14. \A x \in Snapshots : Safe(Now, q, limbo, x)
  BY <1>9 DEF IInv, CountersOK
<1>15. OwnOK(a)
  BY <1>5, <1>7, <1>10, <1>11, <1>12, <1>13, <1>14 DEF OwnOK, TransactionOK
<1>16. TypeOK'
  BY <1>1, <1>2, <1>5 DEF TypeOK
<1>17. CountersMove
  <2>1. \A b \in Attachments :
          /\ tra'[b].tra_oldest = tra[b].tra_oldest
          /\ tra'[b].oldest_active = tra[b].oldest_active
          /\ tra'[b].tra_oldest_active = tra[b].tra_oldest_active
    BY <1>4, <1>5 DEF r
  <2>2. hdr' = [hdr EXCEPT !.next_transaction = hdr'.next_transaction]
    BY <1>1, <1>2 DEF TypeOK, Header
  <2>. QED  BY <1>1, <2>1, <2>2, CountersStay
<1>. QED  BY <1>6, <1>8, <1>15, <1>16, <1>17, StepKeeps

\* LCK_query_data keeps the invariant.
LEMMA QueryDataKeeps ==
    ASSUME IInv, NEW a \in Attachments, LCK_query_data(a)
    PROVE  IInv'
<1> DEFINE r == tra[a]
           n == r.number
           data == {lock_data[t] : t \in Transactions} \ {0}
           least == LCK_MIN
           x == Smaller(n, least)
           q == [r EXCEPT !.pc = "oldest", !.tra_oldest_active = x]
<1>1. /\ r.pc = "query" /\ tra' = [tra EXCEPT ![a] = q]
      /\ hdr' = hdr /\ state' = state /\ cn' = cn /\ latest_commit_number' = latest_commit_number
      /\ lock_data' = lock_data /\ dbb' = dbb /\ swept' = swept /\ missed' = missed
      /\ late' = late
  BY DEF LCK_query_data, At, history
<1>2. /\ TypeOK /\ WorldOK(Now) /\ r \in Transaction /\ NumberOK(Now, r) /\ SearchOK(Now, r)
      /\ Now.next \in Nat /\ Now.next = hdr.next_transaction
  BY Facts
<1>3. /\ n \in 1 .. hdr.next_transaction /\ n \in Transactions /\ lock_data[n] # 0
      /\ hdr.next_transaction <= MaxTransactions /\ MaxTransactions \in Nat
      /\ lock_data[n] \in 0 .. n
  BY <1>1, <1>2, OwnNumber, NowFields DEF NumberOK, Running
<1>4. /\ lock_data \in [Transactions -> Numbers]
      /\ tra \in [Attachments -> Transaction]
      /\ \A t \in Transactions : lock_data[t] <= t
  BY <1>2, NowFields DEF TypeOK, WorldOK
<1>5. least \in data /\ \A e \in data : least <= e
  <2>1. data \in SUBSET Nat /\ data # {}
    BY <1>3, <1>4 DEF Numbers
  <2>2. PICK m \in data : \A e \in data : m <= e
    <3> HIDE DEF data
    <3>. QED  BY <2>1, LeastOf
  <2>3. least = CHOOSE d \in data : \A e \in data : d <= e
    BY DEF LCK_MIN
  <2> HIDE DEF data, least
  <2>. QED  BY <2>2, <2>3
<1>6. /\ least \in Nat \ {0} /\ least <= lock_data[n]
      /\ \A t \in Transactions : lock_data[t] # 0 => least <= lock_data[t]
  BY <1>3, <1>4, <1>5 DEF Numbers
<1>7. x \in 1 .. n /\ x <= least
  <2> HIDE DEF least
  <2>. QED  BY <1>3, <1>6 DEF Smaller
<1>8. \A t \in Transactions : lock_data[t] # 0 => x <= lock_data[t] /\ x <= t
                                /\ lock_data[t] \in Nat /\ t \in Nat
  <2> HIDE DEF least, x
  <2>. QED  BY <1>3, <1>4, <1>6, <1>7 DEF Numbers, Transactions
<1>9. /\ q \in Transaction /\ q.pc = "oldest" /\ q.number = n /\ q.kind = r.kind
      /\ q.tra_oldest = r.tra_oldest /\ q.tra_oldest_active = x /\ r.number = n
      /\ q.snapshot = r.snapshot /\ q.oldest_active = r.oldest_active
  <2> HIDE DEF x
  <2>1. x \in Numbers
    BY <1>3, <1>7 DEF Numbers, Transactions
  <2>. QED  BY <1>2, <2>1 DEF Transaction, Steps
<1>10. tra'[a] = q /\ tra' \in [Attachments -> Transaction]
       /\ \A b \in Attachments \ {a} : tra'[b] = tra[b]
  <2> HIDE DEF q
  <2>. QED  BY <1>1, <1>4, <1>9
<1> HIDE DEF r, n, data, least, x, q
<1>11. OthersStay(a)
  BY <1>1, <1>9, <1>10 DEF OthersStay, r
<1>12. Now' = Now
  BY <1>1 DEF Now
<1>13. WorldMoves(a)
  BY <1>12, WorldStays
<1>14. Gone(Now, x) /\ Floor(Now, x)
  <2>1. x \in 0 .. Now.next + 1 /\ \A t \in 1 .. x - 1 : t \in Transactions
    BY <1>2, <1>3, <1>7 DEF Transactions
  <2>2. \A t \in 1 .. x - 1 : Now.lock_data[t] = 0
    BY <1>7, <1>8, <2>1, NowFields
  <2>3. Gone(Now, x)
    BY <2>1, <2>2 DEF Gone
  <2>. QED  BY <2>3, GoneFloor
<1>15. ReadOK(Now, q, missed[a]) /\ \A y \in Snapshots : Safe(Now, q, missed[a], y)
  <2>1. ReadOK(Now', tra'[a], missed'[a])
        /\ \A y \in Snapshots : Safe(Now', tra'[a], missed'[a], y)
    BY <1>1, <1>9, <1>10, <1>13, OwnReads DEF r, n
  <2>. QED  BY <1>1, <1>10, <1>12, <2>1
<1>16. NumberOK(Now, q)
  BY <1>1, <1>2, <1>9 DEF NumberOK, Running, Sweeping
<1>17. SearchOK(Now, q)
  BY <1>1, <1>2, <1>7, <1>9, <1>14 DEF SearchOK, Sweeping
<1>18. SweepOK(Now, q)
  BY <1>9 DEF SweepOK
<1>19. OwnOK(a)
  BY <1>1, <1>10, <1>12, <1>15, <1>16, <1>17, <1>18 DEF OwnOK, TransactionOK
<1>20. TypeOK'
  BY <1>1, <1>2, <1>10 DEF TypeOK
<1>21. ASSUME NEW b \in Attachments
       PROVE  Safe(Now, tra[b], missed[b], x)
  <2>1. CASE tra[b].snapshot = 0
    BY <2>1 DEF Safe
  <2>2. CASE tra[b].snapshot # 0
    <3>1. NumberOK(Now, tra[b]) /\ ReadOK(Now, tra[b], missed[b])
      BY Facts
    <3>2. tra[b].pc # "idle" /\ lock_data[tra[b].number] # 0
      BY <2>2, <3>1, NowFields DEF NumberOK
    <3>3. tra[b].number \in Transactions
      BY <3>2, OwnNumber
    <3>4. x \in Nat /\ lock_data[tra[b].number] \in Nat /\ x <= lock_data[tra[b].number]
      BY <1>7, <1>8, <3>2, <3>3
    <3>5. Safe(Now, tra[b], missed[b], lock_data[tra[b].number])
      BY <2>2, <3>1, NowFields DEF ReadOK
    <3>. QED  BY <3>4, <3>5, SafeBelow
  <2>. QED  BY <2>1, <2>2
<1>22. \A b \in Attachments : Safe(Now', tra'[b], missed'[b], x)
  <2>1. Safe(Now, q, missed[a], x)
    BY <1>9, <1>21 DEF Safe, r
  <2>. QED  BY <1>1, <1>10, <1>12, <1>21, <2>1
<1>23. CountersMove
  <2>1. \A b \in Attachments :
          /\ tra'[b].tra_oldest = tra[b].tra_oldest
          /\ tra'[b].oldest_active = tra[b].oldest_active
          /\ tra'[b].tra_oldest_active \in {tra[b].tra_oldest_active, x}
    BY <1>9, <1>10 DEF r
  <2>2. Oldests' = Oldests
    BY <1>1, <2>1 DEF Oldests
  <2>3. Actives' = Actives
    BY <1>1, <2>1 DEF Actives
  <2>4. \A y \in Snapshots' : y \in Snapshots \/ y = x
    BY <1>1, <2>1 DEF Snapshots
  <2>5. hdr'.oldest_transaction >= 1 /\ \A b \in Attachments : dbb'[b].oldest_transaction >= 1
    BY <1>1 DEF IInv, CountersOK
  <2>. QED  BY <1>12, <1>14, <1>22, <2>2, <2>3, <2>4, <2>5 DEF CountersMove
<1>. QED  BY <1>11, <1>13, <1>19, <1>20, <1>23, StepKeeps

\* One transaction is replaced.
LEMMA Replaced ==
    ASSUME NEW a \in Attachments, NEW f \in [Attachments -> Transaction],
           NEW r \in Transaction, NEW g, g = [f EXCEPT ![a] = r]
    PROVE  /\ g[a] = r /\ g \in [Attachments -> Transaction]
           /\ \A b \in Attachments \ {a} : g[b] = f[b]
  OBVIOUS

\* FindActive keeps the invariant when it finds a dead transaction and marks it.
LEMMA CleanupKeeps ==
    ASSUME IInv, NEW a \in Attachments, tra[a].pc = "active",
           NEW t \in Nat, t = findStates(tra[a].active, tra[a].number, {"active"}),
           t < tra[a].number, lock_data[t] = 0,
           state' = [state EXCEPT ![t] = "dead"], tra' = [tra EXCEPT ![a].active = t + 1],
           hdr' = hdr, cn' = cn, latest_commit_number' = latest_commit_number,
           lock_data' = lock_data, dbb' = dbb, swept' = swept, missed' = missed, late' = late
    PROVE  IInv'
<1> DEFINE r == tra[a]
           n == r.number
           q == [r EXCEPT !.active = t + 1]
<1>1. /\ TypeOK /\ WorldOK(Now) /\ r \in Transaction /\ NumberOK(Now, r) /\ SearchOK(Now, r)
      /\ Now.next \in Nat /\ Now.next = hdr.next_transaction
  BY Facts
<1>2. /\ n \in 1 .. hdr.next_transaction /\ n \in Transactions /\ MaxTransactions \in Nat
      /\ r.active \in Nat /\ r.active >= 1 /\ Floor(Now, r.active)
  <2>1. r.active \in Numbers
    BY <1>1 DEF Transaction
  <2>. QED  BY <1>1, <2>1, OwnNumber DEF SearchOK, Numbers
<1>3. /\ t \in Transactions /\ r.active <= t /\ state[t] = "active"
      /\ \A u \in Transactions : r.active <= u /\ u < t => state[u] # "active"
  <2>1. n \in Nat
    BY <1>2 DEF Transactions
  <2>. QED  BY <1>1, <1>2, <2>1, Found
<1>4. /\ t + 1 \in Numbers /\ t + 1 \in 1 .. hdr.next_transaction /\ t <= hdr.next_transaction
  BY <1>1, <1>2, <1>3 DEF Transactions, Numbers
<1>5. /\ q \in Transaction /\ q.pc = "active" /\ q.number = n /\ q.kind = r.kind
      /\ q.tra_oldest = r.tra_oldest /\ q.tra_oldest_active = r.tra_oldest_active
      /\ q.snapshot = r.snapshot /\ q.oldest_active = r.oldest_active /\ q.active = t + 1
      /\ r.number = n
  BY <1>1, <1>4 DEF Transaction
<1>6. /\ tra \in [Attachments -> Transaction] /\ lock_data \in [Transactions -> Numbers]
      /\ state \in [Transactions -> States]
  BY <1>1 DEF TypeOK, States
<1>7. tra'[a] = q /\ tra' \in [Attachments -> Transaction]
      /\ \A b \in Attachments \ {a} : tra'[b] = tra[b]
  BY <1>5, <1>6
<1> HIDE DEF r, n, q
<1>8. OthersStay(a)
  BY <1>5, <1>7 DEF OthersStay, r
<1>9. WorldMoves(a) /\ state' \in [Transactions -> States]
  <2>1. "dead" \in States \ {"active"}
    BY DEF States
  <2>. QED  BY <1>3, <1>4, <2>1, EndMoves
<1>10. WorldOK(Now') /\ Progress(Now, Now') /\ Now'.next = hdr.next_transaction
  BY <1>9, NowFields DEF WorldMoves
<1>11. Floor(Now', t + 1)
  <2>1. ASSUME NEW u \in 1 .. t
        PROVE  Over(Now', u)
    <3>1. CASE u < r.active
      <4>1. Floor(Now', r.active)
        BY <1>1, <1>2, <1>10, FloorKept
      <4>. QED  BY <1>2, <3>1, <4>1 DEF Floor
    <3>2. CASE u = t
      BY <1>3, <1>6, <3>2, NowFields DEF Over
    <3>3. CASE ~(u < r.active) /\ u # t
      <4>1. u \in Transactions /\ u < t /\ r.active <= u
        BY <1>2, <1>3, <3>3 DEF Transactions
      <4>. QED  BY <1>3, <1>6, <4>1, NowFields DEF Over
    <3>. QED  BY <3>1, <3>2, <3>3
  <2>. QED  BY <1>1, <1>4, <1>10, <2>1 DEF Floor
<1>12. NumberOK(Now', q)
  <2>1. state'[n] = "active" /\ lock_data[n] # 0
    <3>1. state[n] = "active" /\ lock_data[n] # 0
      BY <1>1, <1>5, NowFields DEF NumberOK, Running, r
    <3>. QED  BY <1>2, <1>6, <3>1
  <2>. QED  BY <1>1, <1>2, <1>5, <1>10, <2>1, NowFields DEF NumberOK, Running, Sweeping, r
<1>13. SearchOK(Now', q)
  <2>1. Gone(Now', r.tra_oldest_active)
    BY <1>1, <1>10, GoneKept DEF SearchOK
  <2>. QED  BY <1>1, <1>4, <1>5, <1>11, <2>1 DEF SearchOK, Sweeping, r
<1>14. SweepOK(Now', q)
  BY <1>5 DEF SweepOK
<1>15. ReadOK(Now', q, missed'[a]) /\ \A y \in Snapshots : Safe(Now', q, missed'[a], y)
  BY <1>5, <1>7, <1>9, OwnReads DEF r, n
<1>16. OwnOK(a)
  BY <1>7, <1>12, <1>13, <1>14, <1>15 DEF OwnOK, TransactionOK
<1>17. TypeOK'
  BY <1>1, <1>7, <1>9 DEF TypeOK, States
<1>18. CountersMove
  <2>1. \A b \in Attachments :
          /\ tra'[b].tra_oldest = tra[b].tra_oldest
          /\ tra'[b].oldest_active = tra[b].oldest_active
          /\ tra'[b].tra_oldest_active = tra[b].tra_oldest_active
    BY <1>5, <1>7 DEF r
  <2>2. hdr' = [hdr EXCEPT !.next_transaction = hdr'.next_transaction]
    BY <1>1 DEF TypeOK, Header
  <2>. QED  BY <2>1, <2>2, CountersStay
<1>. QED  BY <1>8, <1>9, <1>16, <1>17, <1>18, StepKeeps

\* FindActive keeps the invariant when it has found the oldest active transaction:
\* whatever the snapshot does not see below it is remembered.
LEMMA FoundActiveKeeps ==
    ASSUME IInv, NEW a \in Attachments, tra[a].pc = "active",
           NEW t \in Nat, t = findStates(tra[a].active, tra[a].number, {"active"}),
           tra' = [tra EXCEPT ![a].pc = "write", ![a].active = 0,
                              ![a].oldest_active = Smaller(t, tra[a].number)],
           missed' = [missed EXCEPT ![a] = @ \union
                        {u \in 1 .. tra[a].number - 1 : state[u] = "limbo" \/ Hidden(u, a)}],
           state' = state,
           hdr' = hdr, cn' = cn, latest_commit_number' = latest_commit_number,
           lock_data' = lock_data, dbb' = dbb, swept' = swept, late' = late
    PROVE  IInv'
<1> DEFINE r == tra[a]
           n == r.number
           x == Smaller(t, n)
           q == [r EXCEPT !.pc = "write", !.active = 0, !.oldest_active = x]
           more == {u \in 1 .. n - 1 : state[u] = "limbo" \/ Hidden(u, a)}
<1>1. /\ TypeOK /\ WorldOK(Now) /\ r \in Transaction /\ NumberOK(Now, r) /\ SearchOK(Now, r)
      /\ Now.next \in Nat /\ Now.next = hdr.next_transaction
  BY Facts
<1>2. /\ n \in 1 .. hdr.next_transaction /\ n \in Transactions /\ MaxTransactions \in Nat
      /\ r.active \in Nat /\ r.active >= 1 /\ Floor(Now, r.active) /\ n \in Nat
  <2>1. r.active \in Numbers
    BY <1>1 DEF Transaction
  <2>. QED  BY <1>1, <2>1, OwnNumber DEF SearchOK, Numbers
<1>3. /\ t \in 0 .. n /\ (t < n => r.active <= t)
      /\ \A u \in Transactions : r.active <= u /\ u < t => state[u] # "active"
  BY <1>1, <1>2, Found
<1>4. x = t /\ x \in 1 .. n
  BY <1>2, <1>3 DEF Smaller
<1>5. x \in Numbers /\ 0 \in Numbers
  <2> HIDE DEF x, n
  <2>. QED  BY <1>2, <1>4 DEF Numbers, Transactions
<1>6. /\ q \in Transaction /\ q.pc = "write" /\ q.number = n /\ q.kind = r.kind
      /\ q.tra_oldest = r.tra_oldest /\ q.tra_oldest_active = r.tra_oldest_active
      /\ q.snapshot = r.snapshot /\ q.oldest_active = x /\ r.number = n
  <2> HIDE DEF x
  <2>. QED  BY <1>1, <1>5 DEF Transaction, Steps
<1>7. /\ tra \in [Attachments -> Transaction] /\ lock_data \in [Transactions -> Numbers]
      /\ state \in [Transactions -> States] /\ missed \in [Attachments -> SUBSET Transactions]
  BY <1>1 DEF TypeOK, States
<1>8. tra' = [tra EXCEPT ![a] = q] /\ missed' = [missed EXCEPT ![a] = missed[a] \union more]
  OBVIOUS
<1>9. more \subseteq Transactions
      /\ \A u \in 1 .. n - 1 : state[u] = "limbo" \/ Hidden(u, a) => u \in more
  BY <1>2 DEF Transactions
<1> HIDE DEF r, n, q, x, more
<1>10. tra'[a] = q /\ tra' \in [Attachments -> Transaction]
       /\ \A b \in Attachments \ {a} : tra'[b] = tra[b]
  <2>1. tra' = [tra EXCEPT ![a] = q] /\ tra \in [Attachments -> Transaction] /\ q \in Transaction
    BY <1>6, <1>7, <1>8
  <2>. QED  BY ZenonT(60), <2>1, Replaced
<1>11. /\ missed'[a] = missed[a] \union more /\ missed' \in [Attachments -> SUBSET Transactions]
       /\ \A b \in Attachments \ {a} : missed'[b] = missed[b]
  BY <1>7, <1>8, <1>9
<1>12. OthersStay(a)
  BY <1>6, <1>10, <1>11 DEF OthersStay, r
<1>13. Now' = Now
  BY DEF Now
<1>14. WorldMoves(a)
  BY <1>13, WorldStays
<1>15. Floor(Now, x)
  <2>1. ASSUME NEW u \in 1 .. x - 1
        PROVE  Over(Now, u)
    <3>1. CASE u < r.active
      BY <1>2, <3>1 DEF Floor
    <3>2. CASE ~(u < r.active)
      <4>1. u \in Transactions /\ u < t /\ r.active <= u
        BY <1>2, <1>4, <3>2 DEF Transactions
      <4>. QED  BY <1>3, <4>1, NowFields DEF Over
    <3>. QED  BY <3>1, <3>2
  <2>. QED  BY <1>1, <1>2, <1>4, <2>1 DEF Floor
<1>16. Safe(Now, q, missed'[a], x)
  <2>1. ASSUME NEW u \in 1 .. x - 1, u \notin missed'[a]
        PROVE  Seen(Now, q.snapshot, u)
    <3>1. u \in 1 .. n - 1 /\ u \in Transactions
      BY <1>2, <1>4 DEF Transactions
    <3>2. state[u] # "limbo" /\ ~Hidden(u, a) /\ state[u] \in States
      BY <1>7, <1>9, <1>11, <2>1, <3>1
    <3>3. state[u] # "active" \/ lock_data[u] = 0
      BY <1>15, NowFields DEF Floor, Over
    <3>4. state[u] = "committed" => ~(cn[u] > q.snapshot)
      BY <1>6, <3>2 DEF Hidden, r
    <3>5. cn[u] \in Numbers /\ q.snapshot \in Numbers
      BY <1>1, <1>6, <3>1 DEF TypeOK, Transaction
    <3>6. state[u] = "committed" => cn[u] <= q.snapshot
      BY <1>2, <3>4, <3>5 DEF Numbers
    <3>. QED  BY <3>2, <3>3, <3>6, NowFields DEF Seen, States
  <2>. QED  BY <2>1 DEF Safe
<1>17. ReadOK(Now, q, missed'[a]) /\ \A y \in Snapshots : Safe(Now, q, missed'[a], y)
  <2>1. ReadOK(Now', tra'[a], missed'[a])
        /\ \A y \in Snapshots : Safe(Now', tra'[a], missed'[a], y)
    <3>1. missed[a] \subseteq missed'[a] /\ Safe(Now', tra'[a], missed'[a], tra'[a].oldest_active)
      BY <1>6, <1>10, <1>11, <1>13, <1>16
    <3>. QED  BY <1>6, <1>10, <1>14, <3>1, OwnReads DEF r, n
  <2>. QED  BY <1>10, <1>13, <2>1
<1>18. NumberOK(Now, q)
  BY <1>1, <1>6 DEF NumberOK, Running, Sweeping, r
<1>19. SearchOK(Now, q)
  BY <1>1, <1>4, <1>6 DEF SearchOK, Sweeping, r
<1>20. SweepOK(Now, q)
  BY <1>6 DEF SweepOK
<1>21. OwnOK(a)
  BY <1>10, <1>13, <1>17, <1>18, <1>19, <1>20 DEF OwnOK, TransactionOK
<1>22. TypeOK'
  BY <1>1, <1>10, <1>11 DEF TypeOK
<1>23. CountersMove
  <2>1. \A b \in Attachments :
          /\ tra'[b].tra_oldest = tra[b].tra_oldest
          /\ tra'[b].oldest_active \in {tra[b].oldest_active, x}
          /\ tra'[b].tra_oldest_active = tra[b].tra_oldest_active
    BY <1>6, <1>10 DEF r
  <2>2. Oldests' = Oldests
    BY ZenonT(60), <2>1 DEF Oldests
  <2>3. \A y \in Actives' : y \in Actives \/ y = x
    BY <2>1 DEF Actives
  <2>4. Snapshots' = Snapshots
    BY ZenonT(60), <2>1 DEF Snapshots
  <2>5. hdr'.oldest_transaction >= 1 /\ \A b \in Attachments : dbb'[b].oldest_transaction >= 1
    BY DEF IInv, CountersOK
  <2>. QED  BY <1>13, <1>15, <2>2, <2>3, <2>4, <2>5 DEF CountersMove
<1>. QED  BY <1>12, <1>14, <1>21, <1>22, <1>23, StepKeeps

\* FindActive keeps the invariant.
LEMMA FindActiveKeeps ==
    ASSUME IInv, NEW a \in Attachments, FindActive(a)
    PROVE  IInv'
<1> DEFINE t == findStates(tra[a].active, tra[a].number, {"active"})
<1>1. t \in Nat
  <2>1. TypeOK /\ tra[a] \in Transaction /\ MaxTransactions \in Nat
    BY Facts, OldestAssumption
  <2>2. tra[a].active \in Nat /\ tra[a].number \in Nat
    BY <2>1 DEF Transaction, Numbers
  <2>. QED  BY <2>1, <2>2, Found
<1>2. /\ tra[a].pc = "active" /\ hdr' = hdr /\ cn' = cn
      /\ latest_commit_number' = latest_commit_number
      /\ lock_data' = lock_data /\ dbb' = dbb /\ swept' = swept /\ late' = late
  BY DEF FindActive, At
<1>3. CASE t < tra[a].number /\ lock_data[t] = 0 /\ tra[a].cleanup
  <2>1. /\ state' = [state EXCEPT ![t] = "dead"] /\ tra' = [tra EXCEPT ![a].active = t + 1]
        /\ missed' = missed
    BY <1>3 DEF FindActive
  <2> HIDE DEF t
  <2>2. t = findStates(tra[a].active, tra[a].number, {"active"})
    BY DEF t
  <2>. QED  BY <1>1, <1>2, <1>3, <2>1, <2>2, CleanupKeeps
<1>4. CASE ~(t < tra[a].number /\ lock_data[t] = 0 /\ tra[a].cleanup)
  <2>1. /\ tra' = [tra EXCEPT ![a].pc = "write", ![a].active = 0,
                              ![a].oldest_active = Smaller(t, tra[a].number)]
        /\ missed' = [missed EXCEPT ![a] = @ \union
                        {u \in 1 .. tra[a].number - 1 : state[u] = "limbo" \/ Hidden(u, a)}]
        /\ state' = state
    BY <1>4 DEF FindActive
  <2> HIDE DEF t
  <2>2. t = findStates(tra[a].active, tra[a].number, {"active"})
    BY DEF t
  <2>. QED  BY <1>1, <1>2, <2>1, <2>2, FoundActiveKeeps
<1>. QED  BY <1>3, <1>4

\* The header page as bump_transaction_id leaves it.
LEMMA Bumped ==
    ASSUME IInv, NEW a \in Attachments, hdr.next_transaction < MaxTransactions
    PROVE  LET h == bump_transaction_id(a)
           IN  /\ h \in Header /\ h.next_transaction = hdr.next_transaction + 1
               /\ h.oldest_transaction \in {hdr.oldest_transaction, dbb[a].oldest_transaction}
               /\ h.oldest_active \in {hdr.oldest_active, dbb[a].oldest_active}
               /\ h.oldest_snapshot \in {hdr.oldest_snapshot, dbb[a].oldest_snapshot}
               /\ h.oldest_transaction >= 1
<1>1. hdr \in Header /\ dbb[a] \in Counters /\ MaxTransactions \in Nat
      /\ hdr.next_transaction \in Nat
  BY Facts, OldestAssumption DEF TypeOK
<1>2. hdr.next_transaction + 1 \in Numbers
  BY <1>1 DEF Numbers
<1>3. hdr.oldest_transaction >= 1 /\ dbb[a].oldest_transaction >= 1
  BY DEF IInv, CountersOK
<1>. QED  BY <1>1, <1>2, <1>3 DEF bump_transaction_id, Header, Counters, Larger

\* transaction_start keeps the invariant.
LEMMA StartKeeps ==
    ASSUME IInv, NEW a \in Attachments, transaction_start(a)
    PROVE  IInv'
<1> DEFINE h == bump_transaction_id(a)
           n == h.next_transaction
           active == Larger(h.oldest_active, h.oldest_transaction)
<1>1. PICK k \in Kinds[a] :
        /\ hdr' = h
        /\ lock_data' = [lock_data EXCEPT ![n] = LockData(k, n, active)]
        /\ tra' = [tra EXCEPT ![a] =
                     [NoTransaction EXCEPT
                        !.pc = IF k = "snapshot" THEN "begin" ELSE "active",
                        !.kind = k, !.number = n, !.active = active,
                        !.tra_oldest = h.oldest_transaction,
                        !.cleanup = (n % TRA_ACTIVE_CLEANUP = 0)]]
  BY DEF transaction_start
<1>2. /\ tra[a].pc = "idle" /\ hdr.next_transaction < MaxTransactions /\ k \in KindNames
      /\ state' = state /\ cn' = cn /\ latest_commit_number' = latest_commit_number
      /\ dbb' = dbb /\ swept' = swept /\ missed' = missed /\ late' = late
  BY OldestAssumption DEF transaction_start, At, history
<1>3. /\ TypeOK /\ WorldOK(Now) /\ Now.next \in Nat /\ Now.next = hdr.next_transaction
      /\ MaxTransactions \in Nat /\ TRA_ACTIVE_CLEANUP \in Nat \ {0}
  BY Facts, OldestAssumption
<1>4. /\ h \in Header /\ n = hdr.next_transaction + 1
      /\ h.oldest_transaction \in Oldests /\ h.oldest_active \in Actives
      /\ h.oldest_snapshot \in Snapshots /\ h.oldest_transaction >= 1
  <2>1. /\ h \in Header /\ n = hdr.next_transaction + 1
        /\ h.oldest_transaction \in {hdr.oldest_transaction, dbb[a].oldest_transaction}
        /\ h.oldest_active \in {hdr.oldest_active, dbb[a].oldest_active}
        /\ h.oldest_snapshot \in {hdr.oldest_snapshot, dbb[a].oldest_snapshot}
        /\ h.oldest_transaction >= 1
    BY <1>2, Bumped
  <2> HIDE DEF h
  <2>. QED  BY <2>1 DEF Oldests, Actives, Snapshots
<1> HIDE DEF h
<1>5. n \in Transactions /\ n \in Numbers /\ n \in Nat /\ n > hdr.next_transaction
  BY <1>2, <1>3, <1>4 DEF Transactions, Numbers
<1>6. Floor(Now, active) /\ active >= 1 /\ active \in 1 .. n
  <2>1. Floor(Now, h.oldest_transaction) /\ Floor(Now, h.oldest_active)
    BY <1>3, <1>4, SettlesFloor DEF IInv, CountersOK
  <2>2. h.oldest_transaction \in Nat /\ h.oldest_active \in Nat
    BY <1>3, <2>1 DEF Floor
  <2>3. active \in {h.oldest_transaction, h.oldest_active} /\ active >= 1
    BY <1>4, <2>2 DEF Larger
  <2> HIDE DEF active
  <2>4. Floor(Now, active)
    BY <2>1, <2>3
  <2>. QED  BY <1>3, <1>4, <2>3, <2>4 DEF Floor
<1> DEFINE d == LockData(k, n, active)
           q == [NoTransaction EXCEPT
                   !.pc = IF k = "snapshot" THEN "begin" ELSE "active",
                   !.kind = k, !.number = n, !.active = active,
                   !.tra_oldest = h.oldest_transaction,
                   !.cleanup = (n % TRA_ACTIVE_CLEANUP = 0)]
<1> HIDE DEF active
<1>7. d \in 1 .. n /\ d \in Numbers /\ (k = "snapshot" => d = active)
  <2>1. d \in 1 .. n /\ (k = "snapshot" => d = active)
    BY <1>5, <1>6 DEF LockData
  <2> HIDE DEF d, n
  <2>. QED  BY <1>3, <1>5, <2>1 DEF Numbers
<1>8. /\ q.pc = (IF k = "snapshot" THEN "begin" ELSE "active") /\ q.kind = k /\ q.number = n
      /\ q.active = active /\ q.tra_oldest = h.oldest_transaction /\ q.oldest_active = 0
      /\ q.tra_oldest_active = 0 /\ q.snapshot = 0
  BY DEF NoTransaction
<1>9. q \in Transaction
  <2>1. active \in Numbers /\ h.oldest_transaction \in Numbers /\ 0 \in Numbers
    BY <1>3, <1>4, <1>5, <1>6 DEF Numbers, Header
  <2>2. (IF k = "snapshot" THEN "begin" ELSE "active") \in Steps
    BY DEF Steps
  <2>3. (n % TRA_ACTIVE_CLEANUP = 0) \in BOOLEAN
    OBVIOUS
  <2>. QED  BY <1>2, <1>5, <2>1, <2>2, <2>3 DEF NoTransaction, Transaction
<1>10. tra' = [tra EXCEPT ![a] = q] /\ lock_data' = [lock_data EXCEPT ![n] = d]
  BY <1>1
<1> HIDE DEF n, d, q
<1>11. tra'[a] = q /\ tra' \in [Attachments -> Transaction]
       /\ \A b \in Attachments \ {a} : tra'[b] = tra[b]
  BY <1>3, <1>9, <1>10, Replaced DEF TypeOK
<1>12. /\ lock_data \in [Transactions -> Numbers] /\ lock_data' \in [Transactions -> Numbers]
       /\ lock_data'[n] = d /\ \A t \in Transactions : t # n => lock_data'[t] = lock_data[t]
  BY <1>3, <1>5, <1>7, <1>10 DEF TypeOK
<1>13. OthersStay(a)
  BY <1>2, <1>5, <1>8, <1>11 DEF OthersStay
<1>14. hdr'.next_transaction = n /\ n \in 0 .. MaxTransactions /\ n = hdr.next_transaction + 1
  <2>1. hdr'.next_transaction = n /\ n = hdr.next_transaction + 1
    BY <1>1, <1>4 DEF n
  <2>. QED  BY <1>2, <1>3, <2>1
<1>15. \A t \in 1 .. hdr.next_transaction : t \in Transactions /\ lock_data'[t] = lock_data[t]
  BY <1>2, <1>3, <1>5, <1>12 DEF Transactions
<1>16. WorldOK(Now')
  <2>1. Now' \in Worlds
    BY <1>2, <1>3, <1>12, <1>14, NowFields DEF WorldOK, Worlds, Now
  <2>2. ASSUME NEW t \in Transactions
        PROVE  (t > n => state[t] = "active" /\ lock_data'[t] = 0) /\ lock_data'[t] <= t
    <3>1. (t > hdr.next_transaction => state[t] = "active" /\ lock_data[t] = 0)
          /\ lock_data[t] <= t /\ t \in Nat
      BY <1>3, NowFields DEF WorldOK, Transactions
    <3>2. CASE t = n
      BY <1>3, <1>5, <1>7, <1>12, <1>14, <3>1, <3>2
    <3>3. CASE t # n
      BY <1>3, <1>5, <1>12, <1>14, <3>1, <3>3
    <3>. QED  BY <3>2, <3>3
  <2>. QED  BY <1>2, <1>3, <1>14, <2>1, <2>2, NowFields DEF WorldOK
<1>17. Counted(Now')
  <2>1. Counted(Now)
    BY DEF IInv
  <2>. QED  BY <1>2, <2>1, NowFields DEF Counted, Committed
<1>18. Progress(Now, Now')
  <2>1. latest_commit_number \in Nat
    BY <1>3 DEF TypeOK
  <2>. QED  BY <1>2, <1>3, <1>14, <1>15, <2>1, NowFields DEF Progress
<1>19. Apart(Now, Now', 0) /\ LimboKept(Now, Now')
  BY <1>2, <1>15, NowFields DEF Apart, LimboKept
<1>20. WorldMoves(a)
  BY <1>2, <1>16, <1>17, <1>18, <1>19 DEF WorldMoves
<1>21. Now'.next = n /\ Now'.lock_data = lock_data' /\ Now'.state = state
  BY <1>2, <1>14, NowFields
<1>22. Floor(Now', active)
  BY <1>3, <1>5, <1>6, <1>18, <1>21, FloorKept
<1>23. /\ Settles(Now', 0) /\ Floor(Now', 0) /\ Gone(Now', 0)
       /\ \A r, M : Safe(Now', r, M, 0)
  BY <1>5, <1>21 DEF Settles, Floor, Gone, Safe
<1>24. NumberOK(Now', q)
  <2>1. state[n] = "active" /\ k # "none"
    BY <1>2, <1>3, <1>5, NowFields DEF WorldOK, KindNames
  <2>. QED  BY <1>5, <1>7, <1>8, <1>12, <1>21, <2>1 DEF NumberOK, Running, Sweeping
<1>25. SearchOK(Now', q)
  BY <1>4, <1>5, <1>6, <1>7, <1>8, <1>12, <1>21, <1>22, <1>23 DEF SearchOK, Sweeping
<1>26. SweepOK(Now', q) /\ ReadOK(Now', q, missed'[a]) /\ \A x : Safe(Now', q, missed'[a], x)
  BY <1>8 DEF SweepOK, ReadOK, Safe
<1>27. OwnOK(a)
  BY <1>11, <1>24, <1>25, <1>26 DEF OwnOK, TransactionOK
<1>28. TypeOK'
  BY <1>1, <1>2, <1>3, <1>4, <1>11, <1>12 DEF TypeOK
<1>29. CountersMove
  <2>1. \A b \in Attachments :
          /\ tra'[b].tra_oldest \in {tra[b].tra_oldest, h.oldest_transaction}
          /\ tra'[b].oldest_active \in {tra[b].oldest_active, 0}
          /\ tra'[b].tra_oldest_active \in {tra[b].tra_oldest_active, 0}
    BY <1>8, <1>11
  <2>2. \A x \in Oldests' : x \in Oldests
    BY <1>1, <1>2, <1>4, <2>1 DEF Oldests
  <2>3. \A x \in Actives' : x \in Actives \/ x = 0
    BY <1>1, <1>2, <1>4, <2>1 DEF Actives
  <2>4. \A x \in Snapshots' : x \in Snapshots \/ x = 0
    BY <1>1, <1>2, <1>4, <2>1 DEF Snapshots
  <2>5. hdr'.oldest_transaction >= 1 /\ \A b \in Attachments : dbb'[b].oldest_transaction >= 1
    BY <1>1, <1>2, <1>4 DEF IInv, CountersOK
  <2>. QED  BY <1>23, <2>2, <2>3, <2>4, <2>5 DEF CountersMove
<1>. QED  BY <1>13, <1>20, <1>27, <1>28, <1>29, StepKeeps

\* FindOldest keeps the invariant.
LEMMA FindOldestKeeps ==
    ASSUME IInv, NEW a \in Attachments, FindOldest(a)
    PROVE  IInv'
<1> DEFINE r == tra[a]
           n == r.number
           f == findStates(r.tra_oldest, n, {"active", "limbo", "dead"})
           p == IF r.kind = "sweep" THEN "precommit" ELSE "ready"
           v == [oldest_transaction |-> Larger(dbb[a].oldest_transaction, f - 1),
                 oldest_active |-> Larger(dbb[a].oldest_active, r.oldest_active),
                 oldest_snapshot |-> Larger(dbb[a].oldest_snapshot, r.tra_oldest_active)]
<1>1. /\ r.pc = "oldest" /\ dbb' = [dbb EXCEPT ![a] = v]
      /\ tra' = [tra EXCEPT ![a] = [tra[a] EXCEPT !.pc = p]]
      /\ hdr' = hdr /\ state' = state /\ cn' = cn /\ latest_commit_number' = latest_commit_number
      /\ lock_data' = lock_data /\ swept' = swept /\ missed' = missed /\ late' = late
  BY DEF FindOldest, At, history
<1>2. /\ TypeOK /\ WorldOK(Now) /\ r \in Transaction /\ NumberOK(Now, r) /\ SearchOK(Now, r)
      /\ Now.next \in Nat /\ Now.next = hdr.next_transaction /\ dbb[a] \in Counters
      /\ r.tra_oldest \in 0 .. Now.next + 1
  BY Facts
<1>3. /\ n \in 1 .. hdr.next_transaction /\ n \in Transactions /\ MaxTransactions \in Nat
      /\ n \in Nat /\ r.tra_oldest \in Nat /\ r.tra_oldest >= 1 /\ r.tra_oldest_active >= 1
  BY <1>1, <1>2, OwnNumber DEF SearchOK
<1>4. /\ f \in 0 .. n /\ (f < n => r.tra_oldest <= f)
      /\ \A t \in Transactions : r.tra_oldest <= t /\ t < f =>
           state[t] \notin {"active", "limbo", "dead"}
  BY <1>2, <1>3, Found
<1> HIDE DEF f
<1>5. f \in 1 .. n /\ f - 1 \in Numbers /\ f - 1 \in 0 .. hdr.next_transaction
  BY <1>2, <1>3, <1>4 DEF Numbers, Transactions
<1>6. Settles(Now, f - 1)
  <2>1. Settles(Now, r.tra_oldest)
    BY DEF IInv, CountersOK, Oldests
  <2>2. ASSUME NEW t \in 1 .. f - 2
        PROVE  Decided(Now, t)
    <3>1. CASE t < r.tra_oldest
      BY <1>3, <2>1, <3>1 DEF Settles
    <3>2. CASE ~(t < r.tra_oldest)
      <4>1. t \in Transactions /\ t < f /\ r.tra_oldest <= t
        BY <1>3, <1>5, <3>2 DEF Transactions
      <4>2. state[t] \in States
        BY <1>2, <4>1 DEF TypeOK, States
      <4>. QED  BY <1>4, <4>1, <4>2, NowFields DEF States, Decided
    <3>. QED  BY <3>1, <3>2
  <2>. QED  BY <1>2, <1>5, <2>2 DEF Settles
<1>7. /\ v.oldest_transaction \in {dbb[a].oldest_transaction, f - 1}
      /\ v.oldest_active \in {dbb[a].oldest_active, r.oldest_active}
      /\ v.oldest_snapshot \in {dbb[a].oldest_snapshot, r.tra_oldest_active}
      /\ v.oldest_transaction >= dbb[a].oldest_transaction
      /\ v \in Counters
  <2>1. r.oldest_active \in Numbers /\ r.tra_oldest_active \in Numbers
    BY <1>2 DEF Transaction
  <2>. QED  BY <1>2, <1>5, <2>1 DEF Larger, Counters, Numbers
<1> HIDE DEF v
<1>8. /\ dbb' \in [Attachments -> Counters] /\ dbb'[a] = v
      /\ \A b \in Attachments \ {a} : dbb'[b] = dbb[b]
  BY <1>1, <1>2, <1>7 DEF TypeOK
<1>9. Now' = Now
  BY <1>1 DEF Now
<1>10. WorldMoves(a)
  BY <1>9, WorldStays
<1>11. p \in {"precommit", "ready"} /\ (p = "precommit" => r.kind = "sweep")
  OBVIOUS
<1> HIDE DEF p
<1>12. NumberOK(Now', tra'[a])
  <2> DEFINE q == [tra[a] EXCEPT !.pc = p]
  <2>1. /\ tra'[a] = q /\ q.pc = p /\ q.number = tra[a].number
        /\ q.kind = tra[a].kind /\ q.snapshot = tra[a].snapshot
    BY <1>1, <1>2 DEF TypeOK, Transaction
  <2> HIDE DEF q
  <2>. QED  BY <1>1, <1>2, <1>9, <1>11, <2>1 DEF NumberOK, Running, Sweeping
<1>13. OwnOK(a) /\ OthersStay(a) /\ tra' \in [Attachments -> Transaction]
  <2>1. p \in Steps \ {"idle", "begin", "active", "write", "limbo", "advance"}
    BY <1>11 DEF Steps
  <2>2. lock_data'[tra[a].number] \in {lock_data[tra[a].number], 0} /\ tra[a].pc # "idle"
    BY <1>1
  <2>. QED  BY <1>1, <1>3, <1>10, <1>12, <2>1, <2>2, OwnGoesOn
<1>14. TypeOK'
  BY <1>1, <1>2, <1>8, <1>13 DEF TypeOK
<1>15. CountersMove
  <2>1. \A b \in Attachments :
          /\ tra'[b].tra_oldest = tra[b].tra_oldest
          /\ tra'[b].oldest_active = tra[b].oldest_active
          /\ tra'[b].tra_oldest_active = tra[b].tra_oldest_active
    BY <1>1, <1>2 DEF TypeOK, Transaction
  <2>2. \A b \in Attachments :
          /\ dbb'[b].oldest_transaction \in {dbb[b].oldest_transaction, f - 1}
          /\ dbb'[b].oldest_active \in Actives
          /\ dbb'[b].oldest_snapshot \in Snapshots
    BY <1>7, <1>8 DEF Actives, Snapshots
  <2>3. hdr'.oldest_transaction >= 1 /\ \A b \in Attachments : dbb'[b].oldest_transaction >= 1
    <3>1. \A b \in Attachments : dbb[b].oldest_transaction >= 1 /\ dbb[b] \in Counters
      BY <1>2 DEF IInv, CountersOK, TypeOK
    <3>2. v.oldest_transaction >= 1
      BY <1>3, <1>5, <1>7, <3>1 DEF Counters, Numbers
    <3>. QED  BY <1>1, <1>8, <3>1, <3>2 DEF IInv, CountersOK
  <2>4. \A x \in Oldests' : x \in Oldests \/ x = f - 1
    BY <1>1, <2>1, <2>2 DEF Oldests
  <2>5. \A x \in Actives' : x \in Actives
    BY <1>1, <2>1, <2>2 DEF Actives
  <2>6. \A x \in Snapshots' : x \in Snapshots
    BY <1>1, <2>1, <2>2 DEF Snapshots
  <2>. QED  BY <1>6, <1>9, <2>3, <2>4, <2>5, <2>6 DEF CountersMove
<1>. QED  BY <1>10, <1>13, <1>14, <1>15, StepKeeps

\* The visit of a sweep keeps the invariant.
LEMMA SweepKeeps ==
    ASSUME IInv, NEW a \in Attachments, VIO_sweep(a)
    PROVE  IInv'
<1> DEFINE r == tra[a]
           n == r.number
           gone == {t \in 1 .. hdr.next_transaction :
                      \/ state[t] = "dead"
                      \/ state[t] = "active" /\ lock_data[t] = 0}
           q == [r EXCEPT !.pc = "limbo"]
<1>1. /\ r.pc = "sweep" /\ tra' = [tra EXCEPT ![a] = q]
      /\ state' = [t \in Transactions |-> IF t \in gone THEN "dead" ELSE state[t]]
      /\ swept' = swept \union gone
      /\ hdr' = hdr /\ cn' = cn /\ latest_commit_number' = latest_commit_number
      /\ lock_data' = lock_data /\ dbb' = dbb /\ missed' = missed /\ late' = late
  BY DEF VIO_sweep, At, history
<1>2. /\ TypeOK /\ WorldOK(Now) /\ r \in Transaction /\ NumberOK(Now, r) /\ SearchOK(Now, r)
      /\ Now.next \in Nat /\ Now.next = hdr.next_transaction
      /\ r.tra_oldest_active \in 0 .. Now.next + 1
  BY Facts
<1>3. /\ n \in 1 .. hdr.next_transaction /\ n \in Transactions
      /\ hdr.next_transaction \in 0 .. MaxTransactions /\ MaxTransactions \in Nat
  BY <1>1, OwnNumber
<1>4. /\ \A t \in 1 .. hdr.next_transaction : t \in Transactions
      /\ gone \subseteq Transactions /\ gone \subseteq 1 .. hdr.next_transaction
  BY <1>3 DEF Transactions
<1>5. /\ \A t \in 1 .. hdr.next_transaction :
           t \in gone <=> state[t] = "dead" \/ (state[t] = "active" /\ lock_data[t] = 0)
      /\ \A t \in Transactions : state'[t] = IF t \in gone THEN "dead" ELSE state[t]
      /\ state \in [Transactions -> States] /\ state' \in [Transactions -> States]
  BY <1>1, <1>2 DEF TypeOK, States
<1>6. /\ q \in Transaction /\ q.pc = "limbo" /\ q.number = n /\ q.kind = r.kind
      /\ q.tra_oldest = r.tra_oldest /\ q.tra_oldest_active = r.tra_oldest_active
      /\ q.snapshot = r.snapshot /\ q.oldest_active = r.oldest_active /\ r.number = n
  BY <1>2 DEF Transaction, Steps
<1> HIDE DEF r, n, gone, q
<1>7. tra'[a] = q /\ tra' \in [Attachments -> Transaction]
      /\ \A b \in Attachments \ {a} : tra'[b] = tra[b]
  BY <1>1, <1>2, <1>6, Replaced DEF TypeOK
<1>8. OthersStay(a)
  BY <1>1, <1>6, <1>7 DEF OthersStay, r
<1>9. WorldOK(Now')
  <2>1. Now' \in Worlds
    <3>1. swept' \union late' \in SUBSET Transactions
      BY <1>1, <1>2, <1>4 DEF TypeOK
    <3>. QED  BY <1>1, <1>2, <1>3, <1>5, <3>1, NowFields DEF WorldOK, Worlds, Now
  <2>2. ASSUME NEW t \in Transactions
        PROVE  /\ t > hdr.next_transaction => state'[t] = "active"
               /\ state'[t] = "committed" => state[t] = "committed"
               /\ t \in swept' \union late' => state'[t] = "dead"
    <3>1. t > hdr.next_transaction => t \notin gone
      BY <1>3, <1>4
    <3>2. /\ t > hdr.next_transaction => state[t] = "active"
          /\ t \in swept \union late => state[t] = "dead"
      BY <1>2, NowFields DEF WorldOK
    <3>. QED  BY <1>1, <1>5, <3>1, <3>2
  <2>. QED  BY <1>1, <1>2, <2>1, <2>2, NowFields DEF WorldOK
<1>10. Counted(Now')
  <2>1. Committed(Now') = Committed(Now)
    BY <1>4, <1>5, NowFields DEF Committed
  <2>. QED  BY <1>1, <2>1, NowFields DEF Counted, IInv
<1>11. Progress(Now, Now')
  <2>1. latest_commit_number \in Nat /\ swept \union late \subseteq swept' \union late'
    BY <1>1, <1>2, <1>3 DEF TypeOK
  <2>. QED  BY <1>1, <1>2, <1>4, <1>5, <2>1, NowFields DEF Progress
<1>12. Apart(Now, Now', IF tra[a].pc = "idle" THEN 0 ELSE tra[a].number)
  BY <1>1, <1>4, <1>5, NowFields DEF Apart
<1>13. LimboKept(Now, Now')
  BY <1>1, <1>4, <1>5, NowFields DEF LimboKept
<1>14. WorldMoves(a)
  BY <1>9, <1>10, <1>11, <1>12, <1>13 DEF WorldMoves
<1>15. Now'.next = hdr.next_transaction /\ Now'.lock_data = lock_data /\ Now'.state = state'
       /\ gone \subseteq Now'.left
  BY <1>1, NowFields
<1>16. NumberOK(Now', q)
  <2>1. state'[n] # "active"
    BY <1>1, <1>2, <1>3, <1>5, <1>6, NowFields DEF NumberOK, Sweeping
  <2>. QED  BY <1>1, <1>2, <1>3, <1>6, <1>15, <2>1, NowFields DEF NumberOK, Running, Sweeping
<1>17. SearchOK(Now', q)
  <2>1. Gone(Now', r.tra_oldest_active)
    BY <1>2, <1>11, <1>15, GoneKept DEF SearchOK
  <2>. QED  BY <1>1, <1>2, <1>6, <2>1 DEF SearchOK, Sweeping
<1>18. SweepOK(Now', q)
  <2>1. ASSUME NEW t \in 1 .. r.tra_oldest_active - 1
        PROVE  Now'.state[t] \in {"committed", "limbo"} \/ t \in Now'.left
    <3>1. t \in 1 .. hdr.next_transaction /\ lock_data[t] = 0
      BY <1>2, NowFields DEF SearchOK, Gone
    <3>. QED  BY <1>4, <1>5, <1>15, <3>1 DEF States
  <2>. QED  BY <1>6, <2>1 DEF SweepOK, Visited
<1>19. ReadOK(Now', q, missed'[a]) /\ \A y \in Snapshots : Safe(Now', q, missed'[a], y)
  <2>1. missed[a] \subseteq missed'[a] /\ tra'[a].pc # "write" /\ tra[a].pc # "idle"
        /\ lock_data'[tra[a].number] = lock_data[tra[a].number]
    BY <1>1, <1>6, <1>7 DEF r
  <2>. QED  BY <1>6, <1>7, <1>14, <2>1, OwnReads DEF r, n
<1>20. OwnOK(a)
  BY <1>7, <1>16, <1>17, <1>18, <1>19 DEF OwnOK, TransactionOK
<1>21. TypeOK'
  BY <1>1, <1>2, <1>4, <1>5, <1>7 DEF TypeOK, States
<1>22. CountersMove
  <2>1. \A b \in Attachments :
          /\ tra'[b].tra_oldest = tra[b].tra_oldest
          /\ tra'[b].oldest_active = tra[b].oldest_active
          /\ tra'[b].tra_oldest_active = tra[b].tra_oldest_active
    BY <1>6, <1>7 DEF r
  <2>2. hdr' = [hdr EXCEPT !.next_transaction = hdr'.next_transaction]
    BY <1>1, <1>2 DEF TypeOK, Header
  <2>. QED  BY <1>1, <2>1, <2>2, CountersStay
<1>. QED  BY <1>8, <1>14, <1>20, <1>21, <1>22, StepKeeps

\* The search for transactions in limbo keeps the invariant: what is below the oldest of
\* them and the oldest snapshot of the sweep is decided.
LEMMA FindLimboKeeps ==
    ASSUME IInv, NEW a \in Attachments, FindLimbo(a)
    PROVE  IInv'
<1> DEFINE r == tra[a]
           n == r.number
           f == findStates(r.tra_oldest, n - 1, {"limbo"})
           x == IF f < n - 1 THEN f ELSE n
           q == [r EXCEPT !.pc = "advance", !.active = x]
           y == Smaller(x, r.tra_oldest_active - 1)
<1>1. /\ r.pc = "limbo" /\ tra' = [tra EXCEPT ![a] = q]
      /\ hdr' = hdr /\ state' = state /\ cn' = cn /\ latest_commit_number' = latest_commit_number
      /\ lock_data' = lock_data /\ dbb' = dbb /\ swept' = swept /\ missed' = missed
      /\ late' = late
  BY DEF FindLimbo, At, history
<1>2. /\ TypeOK /\ WorldOK(Now) /\ r \in Transaction /\ NumberOK(Now, r) /\ SearchOK(Now, r)
      /\ SweepOK(Now, r) /\ Now.next \in Nat /\ Now.next = hdr.next_transaction
      /\ r.tra_oldest \in 0 .. Now.next + 1 /\ r.tra_oldest_active \in 0 .. Now.next + 1
  BY Facts
<1>3. /\ n \in 1 .. hdr.next_transaction /\ n \in Transactions /\ MaxTransactions \in Nat
      /\ n - 1 \in Nat /\ r.tra_oldest \in Nat /\ r.tra_oldest >= 1
      /\ r.tra_oldest_active >= 1 /\ r.tra_oldest_active <= n
      /\ Visited(Now, r.tra_oldest_active)
  BY <1>1, <1>2, OwnNumber DEF SearchOK, SweepOK, Sweeping
<1>4. /\ f \in 0 .. n - 1 /\ (f < n - 1 => r.tra_oldest <= f)
      /\ \A t \in Transactions : r.tra_oldest <= t /\ t < f => state[t] # "limbo"
  BY <1>2, <1>3, Found
<1> HIDE DEF f
<1>5. x \in 1 .. n /\ (x = f \/ (x = n /\ f = n - 1))
  BY <1>2, <1>3, <1>4
<1>6. x \in Numbers
  <2> HIDE DEF x
  <2>. QED  BY <1>3, <1>5 DEF Numbers, Transactions
<1>7. /\ q \in Transaction /\ q.pc = "advance" /\ q.number = n /\ q.kind = r.kind
      /\ q.tra_oldest = r.tra_oldest /\ q.tra_oldest_active = r.tra_oldest_active
      /\ q.snapshot = r.snapshot /\ q.oldest_active = r.oldest_active /\ r.number = n
      /\ q.active = x
  <2> HIDE DEF x
  <2>. QED  BY <1>2, <1>6 DEF Transaction, Steps
<1> HIDE DEF x
<1>8. y \in 0 .. r.tra_oldest_active - 1 /\ y <= x
  BY <1>2, <1>3, <1>5 DEF Smaller
<1> HIDE DEF r, n, q, y
<1>9. Settles(Now, y)
  <2>1. Settles(Now, r.tra_oldest)
    BY DEF IInv, CountersOK, Oldests, r
  <2>2. ASSUME NEW t \in 1 .. y - 1
        PROVE  Decided(Now, t)
    <3>1. CASE t < r.tra_oldest
      BY <1>3, <2>1, <3>1 DEF Settles
    <3>2. CASE ~(t < r.tra_oldest)
      <4>1. t \in 1 .. r.tra_oldest_active - 1 /\ t < f /\ t \in Transactions
        BY <1>2, <1>3, <1>4, <1>5, <1>8 DEF Transactions
      <4>2. state[t] # "limbo"
        BY <1>3, <1>4, <3>2, <4>1
      <4>. QED  BY <1>3, <4>1, <4>2, NowFields DEF Visited, Decided
    <3>. QED  BY <3>1, <3>2
  <2>. QED  BY <1>2, <1>3, <1>8, <2>2 DEF Settles
<1>10. tra'[a] = q /\ tra' \in [Attachments -> Transaction]
       /\ \A b \in Attachments \ {a} : tra'[b] = tra[b]
  BY <1>1, <1>2, <1>7, Replaced DEF TypeOK
<1>11. OthersStay(a)
  BY <1>1, <1>7, <1>10 DEF OthersStay, r
<1>12. Now' = Now
  BY <1>1 DEF Now
<1>13. WorldMoves(a)
  BY <1>12, WorldStays
<1>14. NumberOK(Now, q)
  BY <1>1, <1>2, <1>7 DEF NumberOK, Running, Sweeping
<1>15. SearchOK(Now, q)
  BY <1>1, <1>2, <1>7 DEF SearchOK, Sweeping
<1>16. SweepOK(Now, q)
  BY <1>5, <1>7, <1>9 DEF SweepOK, y
<1>17. ReadOK(Now', q, missed'[a]) /\ \A z \in Snapshots : Safe(Now', q, missed'[a], z)
  <2>1. missed[a] \subseteq missed'[a] /\ tra'[a].pc # "write" /\ tra[a].pc # "idle"
        /\ lock_data'[tra[a].number] = lock_data[tra[a].number]
    BY <1>1, <1>7, <1>10 DEF r
  <2>. QED  BY <1>7, <1>10, <1>13, <2>1, OwnReads DEF r, n
<1>18. OwnOK(a)
  BY <1>10, <1>12, <1>14, <1>15, <1>16, <1>17 DEF OwnOK, TransactionOK
<1>19. TypeOK'
  BY <1>1, <1>2, <1>10 DEF TypeOK
<1>20. CountersMove
  <2>1. \A b \in Attachments :
          /\ tra'[b].tra_oldest = tra[b].tra_oldest
          /\ tra'[b].oldest_active = tra[b].oldest_active
          /\ tra'[b].tra_oldest_active = tra[b].tra_oldest_active
    BY <1>7, <1>10 DEF r
  <2>2. hdr' = [hdr EXCEPT !.next_transaction = hdr'.next_transaction]
    BY <1>1, <1>2 DEF TypeOK, Header
  <2>. QED  BY <1>1, <2>1, <2>2, CountersStay
<1>. QED  BY <1>11, <1>13, <1>18, <1>19, <1>20, StepKeeps

\* AdvanceOldest keeps the invariant.
LEMMA AdvanceKeeps ==
    ASSUME IInv, NEW a \in Attachments, AdvanceOldest(a)
    PROVE  IInv'
<1> DEFINE r == tra[a]
           n == r.number
           top == r.tra_oldest_active - 1
           y == Smaller(r.active, top)
           q == [r EXCEPT !.pc = "release", !.active = 0]
           h == [hdr EXCEPT !.oldest_transaction = IF @ < top THEN y ELSE @]
<1>1. /\ r.pc = "advance" /\ tra' = [tra EXCEPT ![a] = q] /\ hdr' = h
      /\ state' = state /\ cn' = cn /\ latest_commit_number' = latest_commit_number
      /\ lock_data' = lock_data /\ dbb' = dbb /\ swept' = swept /\ missed' = missed
      /\ late' = late
  BY DEF AdvanceOldest, At, history
<1>2. /\ TypeOK /\ WorldOK(Now) /\ r \in Transaction /\ NumberOK(Now, r) /\ SearchOK(Now, r)
      /\ SweepOK(Now, r) /\ Now.next \in Nat /\ Now.next = hdr.next_transaction
      /\ r.tra_oldest_active \in 0 .. Now.next + 1 /\ hdr \in Header
  BY Facts DEF TypeOK
<1>3. r.active \in Nat /\ r.active >= 1 /\ Settles(Now, y) /\ hdr.oldest_transaction >= 1
      /\ hdr.oldest_transaction \in Nat /\ MaxTransactions \in Nat
  BY <1>1, <1>2, OldestAssumption
     DEF SweepOK, IInv, CountersOK, Transaction, Header, Numbers
<1>4. hdr.oldest_transaction < top => y \in Nat /\ y >= 1 /\ y \in Numbers
  <2>1. r.active \in Numbers
    BY <1>2 DEF Transaction
  <2>2. top \in Int
    BY <1>2
  <2> HIDE DEF r, top
  <2>3. y \in {r.active, top} /\ y <= r.active
    BY <1>3, <2>2 DEF Smaller
  <2> HIDE DEF y
  <2>. QED  BY <1>3, <2>1, <2>2, <2>3 DEF Numbers
<1>5. /\ h \in Header /\ h.next_transaction = hdr.next_transaction
      /\ h.oldest_active = hdr.oldest_active /\ h.oldest_snapshot = hdr.oldest_snapshot
      /\ h.oldest_transaction \in {hdr.oldest_transaction, y}
      /\ h.oldest_transaction >= 1
  <2> HIDE DEF y, top, r
  <2>. QED  BY <1>2, <1>3, <1>4 DEF Header
<1>6. /\ q \in Transaction /\ q.pc = "release" /\ q.number = n /\ q.kind = r.kind
      /\ q.tra_oldest = r.tra_oldest /\ q.tra_oldest_active = r.tra_oldest_active
      /\ q.snapshot = r.snapshot /\ q.oldest_active = r.oldest_active /\ r.number = n
  <2>1. 0 \in Numbers
    BY <1>3 DEF Numbers
  <2>. QED  BY <1>2, <2>1 DEF Transaction, Steps
<1> HIDE DEF r, n, top, y, q, h
<1>7. tra'[a] = q /\ tra' \in [Attachments -> Transaction]
      /\ \A b \in Attachments \ {a} : tra'[b] = tra[b]
  BY <1>1, <1>2, <1>6, Replaced DEF TypeOK
<1>8. OthersStay(a)
  BY <1>1, <1>6, <1>7 DEF OthersStay, r
<1>9. Now' = Now
  BY <1>1, <1>5 DEF Now
<1>10. WorldMoves(a)
  BY <1>9, WorldStays
<1>11. NumberOK(Now, q)
  BY <1>1, <1>2, <1>6 DEF NumberOK, Running, Sweeping
<1>12. SearchOK(Now, q)
  BY <1>1, <1>2, <1>6 DEF SearchOK, Sweeping
<1>13. SweepOK(Now, q)
  BY <1>6 DEF SweepOK
<1>14. ReadOK(Now', q, missed'[a]) /\ \A z \in Snapshots : Safe(Now', q, missed'[a], z)
  <2>1. missed[a] \subseteq missed'[a] /\ tra'[a].pc # "write" /\ tra[a].pc # "idle"
        /\ lock_data'[tra[a].number] = lock_data[tra[a].number]
    BY <1>1, <1>6, <1>7 DEF r
  <2>. QED  BY <1>6, <1>7, <1>10, <2>1, OwnReads DEF r, n
<1>15. OwnOK(a)
  BY <1>7, <1>9, <1>11, <1>12, <1>13, <1>14 DEF OwnOK, TransactionOK
<1>16. TypeOK'
  BY <1>1, <1>2, <1>5, <1>7 DEF TypeOK
<1>17. CountersMove
  <2>1. \A b \in Attachments :
          /\ tra'[b].tra_oldest = tra[b].tra_oldest
          /\ tra'[b].oldest_active = tra[b].oldest_active
          /\ tra'[b].tra_oldest_active = tra[b].tra_oldest_active
    BY <1>6, <1>7 DEF r
  <2>2. hdr'.oldest_transaction >= 1 /\ \A b \in Attachments : dbb'[b].oldest_transaction >= 1
    BY <1>1, <1>5 DEF IInv, CountersOK
  <2>3. \A x \in Oldests' : x \in Oldests \/ x = y
    BY <1>1, <1>5, <2>1 DEF Oldests
  <2>4. Actives' = Actives
    BY <1>1, <1>5, <2>1 DEF Actives
  <2>5. Snapshots' = Snapshots
    BY <1>1, <1>5, <2>1 DEF Snapshots
  <2>. QED  BY <1>3, <1>9, <2>2, <2>3, <2>4, <2>5 DEF CountersMove
<1>. QED  BY <1>8, <1>10, <1>15, <1>16, <1>17, StepKeeps

-----------------------------------------------------------------------------
(* The theorems.                                                           *)

\* The invariant holds at first.
LEMMA InitKeeps ==
    ASSUME Init
    PROVE  IInv
<1>1. /\ 0 \in Numbers /\ 1 \in Numbers /\ MaxTransactions \in Nat /\ 1 \in 1 .. MaxTransactions + 1
      /\ "active" \in States /\ "idle" \in Steps /\ "none" \in KindNames \union {"none"}
  BY OldestAssumption DEF Numbers, States, Steps
<1>2. NoTransaction \in Transaction
  BY <1>1 DEF NoTransaction, Transaction
<1>3. TypeOK
  <2>1. hdr \in Header /\ dbb \in [Attachments -> Counters]
    BY <1>1 DEF Init, Header, Counters
  <2>2. state \in [Transactions -> {"active", "limbo", "dead", "committed"}]
        /\ cn \in [Transactions -> Numbers] /\ lock_data \in [Transactions -> Numbers]
        /\ latest_commit_number \in 1 .. MaxTransactions + 1
    BY <1>1 DEF Init
  <2>3. tra \in [Attachments -> Transaction] /\ swept \subseteq Transactions
        /\ missed \in [Attachments -> SUBSET Transactions] /\ late \subseteq Transactions
    BY <1>2 DEF Init
  <2>. QED  BY <2>1, <2>2, <2>3 DEF TypeOK
<1>4. /\ \A t \in Transactions : state[t] = "active" /\ lock_data[t] = 0
      /\ hdr.next_transaction = 0 /\ hdr.oldest_transaction = 1 /\ hdr.oldest_active = 0
      /\ hdr.oldest_snapshot = 0 /\ latest_commit_number = 1 /\ swept = {} /\ late = {}
      /\ \A b \in Attachments :
           /\ dbb[b].oldest_transaction = 1 /\ dbb[b].oldest_active = 0
           /\ dbb[b].oldest_snapshot = 0 /\ tra[b] = NoTransaction
  BY DEF Init
<1>5. /\ NoTransaction.pc = "idle" /\ NoTransaction.snapshot = 0 /\ NoTransaction.number = 0
      /\ NoTransaction.tra_oldest_active = 0 /\ NoTransaction.tra_oldest = 0
      /\ NoTransaction.oldest_active = 0
  BY DEF NoTransaction
<1>6. WorldOK(Now)
  <2>1. Now \in Worlds
    BY <1>1, <1>3, <1>4 DEF Now, Worlds, TypeOK, States
  <2>. QED  BY <1>4, <2>1, NowFields DEF WorldOK, Transactions
<1>7. Counted(Now)
  <2>1. Committed(Now) = {}
    BY <1>4, NowFields DEF Committed
  <2>. QED  BY <1>4, <2>1, FS_EmptySet, NowFields DEF Counted
<1>8. Numbered
  BY <1>4, <1>5 DEF Numbered
<1>9. CountersOK
  <2>1. Settles(Now, 1) /\ Settles(Now, 0) /\ Floor(Now, 0)
    BY <1>4, NowFields DEF Settles, Floor
  <2>2. \A x \in Oldests : x \in {0, 1}
    BY <1>4, <1>5 DEF Oldests
  <2>3. \A x \in Actives : x = 0
    BY <1>4, <1>5 DEF Actives
  <2>4. \A x \in Snapshots : x = 0
    BY <1>4, <1>5 DEF Snapshots
  <2>. QED  BY <1>4, <2>1, <2>2, <2>3, <2>4 DEF CountersOK
<1>10. SafeOK
  BY <1>4, <1>5 DEF SafeOK, Safe
<1>11. ASSUME NEW a \in Attachments
       PROVE  TransactionOK(Now, tra[a]) /\ ReadOK(Now, tra[a], missed[a])
  <2>1. NumberOK(Now, NoTransaction)
    BY <1>5 DEF NumberOK, Running, Sweeping
  <2>2. SearchOK(Now, NoTransaction)
    BY <1>4, <1>5, NowFields DEF SearchOK, Gone, Sweeping
  <2>3. SweepOK(Now, NoTransaction) /\ ReadOK(Now, NoTransaction, missed[a])
    BY <1>5 DEF SweepOK, ReadOK, Safe
  <2>. QED  BY <1>4, <2>1, <2>2, <2>3 DEF TransactionOK
<1>. QED  BY <1>3, <1>6, <1>7, <1>8, <1>9, <1>10, <1>11 DEF IInv

\* Every step keeps it.
LEMMA NextKeeps ==
    ASSUME IInv, [Next]_vars
    PROVE  IInv'
<1>1. ASSUME NEW a \in Attachments, transaction_start(a)
      PROVE  IInv'
  BY <1>1, StartKeeps
<1>2. ASSUME NEW a \in Attachments, beginSnapshot(a)
      PROVE  IInv'
  BY <1>2, BeginSnapshotKeeps
<1>3. ASSUME NEW a \in Attachments, FindActive(a)
      PROVE  IInv'
  BY <1>3, FindActiveKeeps
<1>4. ASSUME NEW a \in Attachments, LCK_write_data(a)
      PROVE  IInv'
  BY <1>4, WriteDataKeeps
<1>5. ASSUME NEW a \in Attachments, LCK_query_data(a)
      PROVE  IInv'
  BY <1>5, QueryDataKeeps
<1>6. ASSUME NEW a \in Attachments, FindOldest(a)
      PROVE  IInv'
  BY <1>6, FindOldestKeeps
<1>7. ASSUME NEW a \in Attachments, Precommit(a)
      PROVE  IInv'
  BY <1>7, PrecommitKeeps
<1>8. ASSUME NEW a \in Attachments, TRA_commit(a)
      PROVE  IInv'
  BY <1>8, CommitKeeps
<1>9. ASSUME NEW a \in Attachments, TRA_rollback(a)
      PROVE  IInv'
  BY <1>9, RollbackKeeps
<1>10. ASSUME NEW a \in Attachments, TRA_prepare(a)
       PROVE  IInv'
  BY <1>10, PrepareKeeps
<1>11. ASSUME NEW a \in Attachments, purgeTransactions(a)
       PROVE  IInv'
  BY <1>11, PurgeKeeps
<1>12. ASSUME NEW a \in Attachments, TRA_reconnect(a)
       PROVE  IInv'
  BY <1>12, ReconnectKeeps
<1>13. ASSUME NEW a \in Attachments, TRA_release_transaction(a)
       PROVE  IInv'
  BY <1>13, ReleaseKeeps
<1>14. ASSUME NEW a \in Attachments, Crash(a)
       PROVE  IInv'
  BY <1>14, CrashKeeps
<1>15. ASSUME NEW a \in Attachments, TRA_update_counters(a)
       PROVE  IInv'
  BY <1>15, UpdateKeeps
<1>16. ASSUME NEW a \in Attachments, VIO_sweep(a)
       PROVE  IInv'
  BY <1>16, SweepKeeps
<1>17. ASSUME NEW a \in Attachments, FindLimbo(a)
       PROVE  IInv'
  BY <1>17, FindLimboKeeps
<1>18. ASSUME NEW a \in Attachments, AdvanceOldest(a)
       PROVE  IInv'
  BY <1>18, AdvanceKeeps
<1>19. CASE UNCHANGED vars
  <2>1. /\ hdr' = hdr /\ state' = state /\ cn' = cn
        /\ latest_commit_number' = latest_commit_number /\ lock_data' = lock_data
        /\ dbb' = dbb /\ tra' = tra /\ swept' = swept /\ missed' = missed /\ late' = late
    BY <1>19 DEF vars, history
  <2>2. Now' = Now /\ Oldests' = Oldests /\ Actives' = Actives /\ Snapshots' = Snapshots
    BY <2>1 DEF Now, Oldests, Actives, Snapshots
  <2>3. TypeOK'
    BY <2>1 DEF IInv, TypeOK
  <2>4. Numbered' /\ CountersOK' /\ SafeOK'
    BY <2>1, <2>2 DEF IInv, Numbered, CountersOK, SafeOK
  <2>. QED  BY <2>1, <2>2, <2>3, <2>4 DEF IInv
<1>. QED
  BY <1>1, <1>2, <1>3, <1>4, <1>5, <1>6, <1>7, <1>8, <1>9, <1>10, <1>11, <1>12, <1>13,
     <1>14, <1>15, <1>16, <1>17, <1>18, <1>19 DEF Next

\* The inductive invariant.
LEMMA InvariantAlways == Spec => []IInv
<1>1. Init => IInv
  BY InitKeeps
<1>2. IInv /\ [Next]_vars => IInv'
  BY NextKeeps
<1>. QED  BY <1>1, <1>2, PTL DEF Spec

\* The state has its type: no counter and no commit number exceeds the transactions
\* started by more than one, whatever searches, crashes and sweeps make of them.
THEOREM OldestTypes == Spec => []TypeOK
<1>1. IInv => TypeOK
  BY DEF IInv
<1>. QED  BY <1>1, InvariantAlways, PTL

\* No snapshot in use loses a version it reads to a garbage collector or a sweep that
\* goes by the oldest snapshot its process remembers, whatever the attachments do and
\* whenever one dies, but for transactions that were in limbo while the snapshot began
\* or looked for active ones, or committed in between (transaction_start, tra.cpp).
THEOREM GarbageSafeOnceStartedAlways == Spec => []GarbageSafeOnceStarted
<1>1. ASSUME IInv
      PROVE  GarbageSafeOnceStarted
  <2> SUFFICES ASSUME NEW a \in Reading, NEW x \in Thresholds(a),
                      NEW t \in Transactions \ missed[a], t < x
               PROVE  ~Hidden(t, a)
    BY DEF GarbageSafeOnceStarted
  <2>1. a \in Attachments /\ tra[a].snapshot # 0
    BY DEF Reading
  <2>2. x \in Snapshots
    BY DEF Thresholds, Snapshots
  <2>3. Safe(Now, tra[a], missed[a], x) /\ x \in 0 .. Now.next + 1 /\ Now.next \in Nat
    BY <1>1, <2>1, <2>2, Facts DEF IInv, SafeOK, CountersOK, Floor
  <2>4. t \in 1 .. x - 1
    BY <2>3 DEF Transactions
  <2>5. Seen(Now, tra[a].snapshot, t)
    BY <2>1, <2>3, <2>4 DEF Safe
  <2>6. cn[t] \in Nat /\ tra[a].snapshot \in Nat
    BY <1>1, <2>1, OldestAssumption DEF IInv, TypeOK, Transaction, Numbers
  <2>. QED  BY <2>5, <2>6, NowFields DEF Seen, Hidden
<1>. QED  BY <1>1, InvariantAlways, PTL

\* What a transaction takes for committed because it is below the oldest interesting
\* one is committed, before the snapshot if there is one, or has left no version
\* behind, apart from those in late (TRA_snapshot_state, TRA_sweep).
THEOREM OldestDecidedAlways == Spec => []OldestDecided
<1>1. ASSUME IInv
      PROVE  OldestDecided
  <2>1. \A t \in 1 .. hdr.oldest_transaction - 1 : Settled(t)
    <3>1. Settles(Now, hdr.oldest_transaction)
      BY <1>1 DEF IInv, CountersOK, Oldests
    <3>. QED  BY <3>1, NowFields DEF Settles, Decided, Settled
  <2>2. ASSUME NEW a \in Reading, NEW t \in 1 .. tra[a].tra_oldest - 1
        PROVE  Settled(t) /\ ~Hidden(t, a)
    <3>1. a \in Attachments /\ tra[a].snapshot # 0
      BY DEF Reading
    <3>2. Settles(Now, tra[a].tra_oldest)
      BY <1>1, <3>1 DEF IInv, CountersOK, Oldests
    <3>3. Safe(Now, tra[a], {}, tra[a].tra_oldest)
      BY <1>1, <3>1 DEF IInv, ReadOK
    <3>4. Seen(Now, tra[a].snapshot, t)
      BY <3>1, <3>3 DEF Safe
    <3>5. t \in Transactions
      BY <1>1, <3>2, OldestAssumption DEF IInv, Settles, WorldOK, Worlds, Transactions
    <3>6. cn[t] \in Nat /\ tra[a].snapshot \in Nat
      BY <1>1, <3>1, <3>5, OldestAssumption DEF IInv, TypeOK, Transaction, Numbers
    <3>. QED  BY <3>2, <3>4, <3>6, NowFields DEF Settles, Decided, Settled, Seen, Hidden
  <2>. QED  BY <2>1, <2>2 DEF OldestDecided
<1>. QED  BY <1>1, InvariantAlways, PTL
=============================================================================
