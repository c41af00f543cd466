--------------------------- MODULE TransactionsProofs -----------------------
(***************************************************************************)
(* The four invariants of Transactions, for any attachments with any       *)
(* workload, any of which may die between two steps, and any number of     *)
(* transactions and commit numbers.                                        *)
(*                                                                         *)
(* The inductive invariant says what an attachment inside TRA_set_state,   *)
(* snapshotState or TRA_wait relies upon, between its reads and its        *)
(* writes: the latch on the inventory page, the lock of the transaction it *)
(* looks at, and that some words of the cache are final.                   *)
(***************************************************************************)
EXTENDS Transactions, TLAPS

-----------------------------------------------------------------------------
(* The inductive invariant.                                                *)

\* Steps of TRA_set_state: those at which the page is locked, and all.
Latched == {"set", "store", "write"}
Ending == {"latch", "set", "store", "write"}

\* Steps of snapshotState and of TRA_wait.
Asking == {"wait", "cache", "lock_data", "fetch", "cached", "tweak"}

\* An attachment at work has a transaction; what it ends is its own transaction
\* or another's that it has found dead.
RecordOK(a) ==
    LET r == att[a] IN
    /\ r.tra_number <= next_transaction
    /\ r.pc = "idle" <=> r.tra_number = 0
    /\ r.pc = "idle" => /\ a \notin dead /\ r.tra_flags = {} /\ r.caller = "none"
                       /\ r.tra_snapshot_number = CN_ACTIVE
    /\ r.pc = "starting" => r.tra_flags = {} /\ r.caller = "none"
    /\ r.pc = "ready" => r.caller = "none"
    /\ r.pc = "release" => r.caller = "own" \/ r.tra_flags # {}
    /\ r.pc = "bugcheck" => a \in dead
    /\ r.pc \in Asking => r.number \in 1 .. next_transaction /\ r.caller \in {"read", "wait"}
    /\ r.pc \in {"wait", "tweak"} => r.caller = "wait"
    /\ r.pc = "cached" => r.state # "active"
    /\ r.pc = "tweak" => r.state \in {"dead", "limbo"}
    /\ r.pc \in Ending =>
         /\ r.number \in 1 .. next_transaction
         /\ r.state # "active"
         /\ r.caller # "none"
         /\ r.caller # "own" => r.state = "dead"
         /\ r.caller = "own" => r.number = r.tra_number
         /\ r.caller = "own" /\ r.state = "limbo" => r.tra_flags # {}
    /\ r.pc = "store" => r.state = "committed" /\ r.cn \in CN_PREHISTORIC .. latest_commit_number

\* The page is locked by the attachment that changes it, until it is purged.
LatchOK(a) ==
    /\ att[a].pc \in Latched => tip_latch = a
    /\ tip_latch = a => att[a].pc \in Latched \union {"bugcheck"}

\* The word cn of the cache does not contradict state s of the page.
Follows(s, cn) ==
    /\ s = "committed" => Committed(cn)
    /\ s = "dead" => cn = CN_DEAD
    /\ s = "limbo" => cn # CN_ACTIVE

\* What is about to be written, or was read from the page, is in the cache; the
\* word of a transaction that has drawn its commit number is still to be set.
WordOK(a) ==
    LET r == att[a] IN
    /\ r.pc \in {"write", "cached", "tweak"} => Follows(r.state, tpc[r.number])
    /\ r.pc = "store" => tpc[r.number] \in {CN_ACTIVE, CN_LIMBO}
    /\ r.pc = "write" /\ r.state = "limbo" => tpc[r.number] = CN_LIMBO

\* A transaction's lock is held by the attachment that started it.
LockOK(a) ==
    LET r == att[a] IN
    /\ r.pc # "idle" /\ "reconnected" \notin r.tra_flags => lock_owner[r.tra_number] = a
    /\ "reconnected" \in r.tra_flags => tip[r.tra_number] # "active"

\* The lock of a transaction is gone when another attachment has read past it.
PastOK(a) ==
    LET r == att[a] IN
    /\ r.caller \in {"read", "wait"} /\ r.pc \in Ending \union {"fetch", "cached"} =>
         lock_owner[r.number] = NONE
    /\ r.caller = "wait" /\ r.pc \in {"cache", "lock_data", "tweak"} =>
         lock_owner[r.number] = NONE

\* A transaction neither prepared nor ending is active.
AliveOK(a) ==
    (a \notin dead /\ att[a].tra_number # 0 /\ att[a].tra_flags = {} /\ att[a].caller # "own") =>
        /\ tip[att[a].tra_number] = "active"
        /\ tpc[att[a].tra_number] = CN_ACTIVE

\* A reader's snapshot contains the commits of before, and no others but those
\* of committing.
SnapshotOK(a) ==
    LET r == att[a] IN
    /\ r.tra_snapshot_number <= latest_commit_number
    /\ "read" \in Operations[a] /\ r.pc \notin {"idle", "starting"}
           /\ "reconnected" \notin r.tra_flags =>
         /\ \A t \in before[a] : Committed(tpc[t]) /\ tpc[t] <= r.tra_snapshot_number
         /\ \A t \in Transactions :
              Committed(tpc[t]) /\ tpc[t] <= r.tra_snapshot_number =>
                  t \in before[a] \union committing[a]
         /\ \A b \in Attachments :
              att[b].pc = "store" /\ att[b].cn <= r.tra_snapshot_number =>
                  att[b].number \in committing[a]

\* What a reader was told, and what it has read of the cache when it is about to
\* look at the lock or at the page.
AnswersOK(a) ==
    LET r == att[a] IN
    /\ r.caller = "read" => "read" \in Operations[a] /\ "reconnected" \notin r.tra_flags
    /\ r.pc \in {"idle", "starting"} => before[a] = {} /\ answers[a] = {}
    /\ r.caller = "read" /\ r.pc \in Ending \union {"lock_data", "fetch", "cached"} =>
         r.number \notin before[a]
    /\ \A t \in Transactions :
         /\ <<t, "visible">> \in answers[a] => t \in before[a] \union committing[a]
         /\ <<t, "invisible">> \in answers[a] => t \notin before[a]

AttachmentOK(a) ==
    /\ RecordOK(a) /\ LatchOK(a) /\ WordOK(a) /\ LockOK(a) /\ PastOK(a)
    /\ AliveOK(a) /\ SnapshotOK(a) /\ AnswersOK(a)

\* The words of the cache, the page and the lock of each transaction.
TransactionOK(t) ==
    /\ Follows(tip[t], tpc[t])
    /\ t > next_transaction => tip[t] = "active" /\ tpc[t] = CN_ACTIVE /\ lock_owner[t] = NONE
    /\ lock_owner[t] # NONE => lock_data[t]
    /\ Committed(tpc[t]) => tpc[t] <= latest_commit_number

IInv ==
    /\ TypeOK
    /\ \A a \in Attachments : AttachmentOK(a)
    /\ \A t \in Transactions : TransactionOK(t)

-----------------------------------------------------------------------------
(* What one step of attachment a changes, and what the others rely upon.   *)

\* Nothing that belongs to another attachment.
OthersStay(a) ==
    \A b \in Attachments \ {a} :
        /\ att'[b] = att[b]
        /\ before'[b] = before[b] /\ committing'[b] = committing[b] /\ answers'[b] = answers[b]
        /\ b \in dead' <=> b \in dead
        /\ tip_latch' = b <=> tip_latch = b

\* The page is changed by the attachment that has it locked, the cache by the
\* callers of setState.
PageMoves(a) ==
    LET r == att[a] IN
    \A t \in Transactions :
        \/ tip'[t] = tip[t]
        \/ r.pc = "write" /\ t = r.number /\ tip'[t] = r.state /\ tpc'[t] = tpc[t]

CacheMoves(a) ==
    LET r == att[a] IN
    \A t \in Transactions :
        \/ tpc'[t] = tpc[t]
        \/ r.pc = "store" /\ t = r.number /\ tpc'[t] = r.cn
        \/ /\ r.pc \in {"set", "cached", "tweak"} /\ t = r.number
           /\ r.state # "committed" /\ ~Refused(tpc[t], r.state)
           /\ tpc'[t] = IF r.state = "dead" THEN CN_DEAD ELSE CN_LIMBO

\* A lock is taken with a new number, and released by its owner.
LockMoves(a) ==
    \A t \in Transactions :
        /\ \/ lock_owner'[t] = lock_owner[t]
           \/ lock_owner[t] = a /\ lock_owner'[t] = NONE
           \/ t > next_transaction /\ t <= next_transaction' /\ lock_owner'[t] = a
        /\ lock_owner'[t] # NONE => lock_data'[t]

\* A commit number is drawn when the counter is increased.
NumberMoves(a) ==
    /\ next_transaction <= next_transaction'
    /\ latest_commit_number <= latest_commit_number'
    /\ att'[a].pc = "store" => att'[a] = att[a] \/ att'[a].cn > latest_commit_number

Moves(a) ==
    OthersStay(a) /\ PageMoves(a) /\ CacheMoves(a) /\ LockMoves(a) /\ NumberMoves(a)

-----------------------------------------------------------------------------
(* What is final.                                                          *)

\* A word of the cache that is not active stays so; a committed one and a dead
\* one do not change.
LEMMA WordFinal ==
  ASSUME TypeOK, NEW a \in Attachments, RecordOK(a), WordOK(a), CacheMoves(a),
         NEW t \in Transactions
  PROVE  /\ tpc[t] # CN_ACTIVE => tpc'[t] # CN_ACTIVE
         /\ tpc[t] = CN_DEAD => tpc'[t] = CN_DEAD
         /\ Committed(tpc[t]) => tpc'[t] = tpc[t]
         /\ Committed(tpc'[t]) =>
              \/ tpc'[t] = tpc[t]
              \/ att[a].pc = "store" /\ t = att[a].number /\ tpc'[t] = att[a].cn
<1>1. /\ CN_MAX_NUMBER \in Nat /\ CN_MAX_NUMBER >= 1
      /\ tpc[t] \in Int /\ att[a].cn \in Int
      /\ latest_commit_number \in Int /\ latest_commit_number <= CN_MAX_NUMBER
  BY TransactionsAssumption DEF TypeOK, CacheWord, Attachment, CN_ACTIVE, CN_LIMBO, CN_DEAD,
     CN_PREHISTORIC
<1>2. CASE tpc'[t] = tpc[t]
  BY <1>2
<1>3. CASE att[a].pc = "store" /\ t = att[a].number /\ tpc'[t] = att[a].cn
  <2>1. /\ att[a].cn >= 1 /\ att[a].cn <= CN_MAX_NUMBER
        /\ tpc[t] \in {CN_ACTIVE, CN_LIMBO}
    BY <1>1, <1>3 DEF RecordOK, WordOK, CN_PREHISTORIC
  <2>. QED  BY <1>1, <1>3, <2>1 DEF Committed, CN_ACTIVE, CN_LIMBO, CN_DEAD, CN_PREHISTORIC
<1>4. CASE ~Refused(tpc[t], att[a].state) /\ att[a].state # "committed"
           /\ (tpc'[t] = IF att[a].state = "dead" THEN CN_DEAD ELSE CN_LIMBO)
           /\ att[a].state \in {"dead", "limbo"}
  BY <1>1, <1>4 DEF Refused, Committed, CN_ACTIVE, CN_LIMBO, CN_DEAD, CN_PREHISTORIC
<1>5. att[a].state \in TipState
  BY DEF TypeOK, Attachment
<1>. QED  BY <1>2, <1>3, <1>4, <1>5 DEF CacheMoves, TipState, RecordOK, Ending

\* So a state that the word does not contradict is not contradicted later.
LEMMA FollowsKept ==
  ASSUME TypeOK, NEW a \in Attachments, RecordOK(a), WordOK(a), CacheMoves(a),
         NEW t \in Transactions, NEW s, Follows(s, tpc[t])
  PROVE  Follows(s, tpc'[t])
  BY WordFinal DEF Follows

\* A transaction that is not active on the page is never so again.
LEMMA PageFinal ==
  ASSUME TypeOK, NEW a \in Attachments, RecordOK(a), PageMoves(a),
         NEW t \in Transactions, tip[t] # "active"
  PROVE  tip'[t] # "active"
  BY DEF PageMoves, RecordOK, Ending

\* A transaction that is neither prepared nor ending is not ended by a step of a,
\* its own attachment or another.
LEMMA AliveKept ==
  ASSUME IInv, NEW a \in Attachments, Moves(a), NEW b \in Attachments,
         att'[b].tra_number = att[b].tra_number,
         att'[b].tra_flags = att[b].tra_flags \/ att'[b].caller = "own",
         b \in dead => b \in dead',
         att[b].caller = "own" =>
           att'[b].caller = "own" \/ b \in dead' \/ att[b].tra_flags # {}
  PROVE  AliveOK(b)'
<1>1. SUFFICES ASSUME b \notin dead', att[b].tra_number # 0, att[b].tra_flags = {},
                      att'[b].caller # "own"
               PROVE  /\ tip'[att[b].tra_number] = "active"
                      /\ tpc'[att[b].tra_number] = CN_ACTIVE
  BY DEF AliveOK
<1> DEFINE t == att[b].tra_number
<1>2. /\ AliveOK(b) /\ LockOK(b) /\ RecordOK(b) /\ RecordOK(a) /\ LockOK(a) /\ PastOK(a)
      /\ TypeOK
  BY DEF IInv, AttachmentOK
<1>3. att[b].caller # "own" /\ b \notin dead
  BY <1>1
<1>4. att[a] \in Attachment /\ att[b] \in Attachment
  BY <1>2 DEF TypeOK
<1>5. /\ t \in Transactions /\ tip[t] = "active" /\ tpc[t] = CN_ACTIVE
      /\ lock_owner[t] = b
  <2>1. t \in Transactions /\ att[b].pc # "idle"
    BY <1>1, <1>2, <1>4 DEF RecordOK, Attachment
  <2>. QED  BY <1>1, <1>2, <1>3, <2>1 DEF AliveOK, LockOK
<1>6. ~(t = att[a].number /\ att[a].pc \in {"set", "store", "write", "cached", "tweak"})
  <2>1. SUFFICES ASSUME t = att[a].number,
                        att[a].pc \in {"set", "store", "write", "cached", "tweak"}
                 PROVE  FALSE
    OBVIOUS
  <2>2. b # NONE /\ att[a].caller \in {"own", "read", "wait"}
    BY <2>1, <1>2, <1>4, TransactionsAssumption DEF RecordOK, Asking, Ending, Attachment
  <2>3. CASE att[a].caller \in {"read", "wait"}
    BY <2>1, <2>2, <2>3, <1>2, <1>5 DEF PastOK, RecordOK, Ending
  <2>4. CASE att[a].caller = "own"
    <3>1. att[a].tra_number = t /\ att[a].pc # "idle" /\ a # b
      BY <2>1, <2>4, <1>2, <1>3 DEF RecordOK, Ending, Asking
    <3>. QED  BY <3>1, <1>2, <1>5 DEF LockOK
  <2>. QED  BY <2>2, <2>3, <2>4
<1>7. tip'[t] = tip[t] /\ tpc'[t] = tpc[t]
  BY <1>5, <1>6 DEF Moves, PageMoves, CacheMoves
<1>. QED  BY <1>5, <1>7

\* A snapshot stays what it was when commit numbers are drawn and stored.
LEMMA SnapshotKept ==
  ASSUME IInv, TypeOK', NEW a \in Attachments, Moves(a), NEW b \in Attachments,
         before'[b] = before[b], committing'[b] = committing[b],
         att'[b].tra_snapshot_number = att[b].tra_snapshot_number,
         "reconnected" \in att[b].tra_flags => "reconnected" \in att'[b].tra_flags,
         att[b].pc \in {"idle", "starting"} => att'[b] = att[b]
  PROVE  SnapshotOK(b)'
<1> DEFINE n == att[b].tra_snapshot_number
<1>1. /\ TypeOK /\ SnapshotOK(b)
      /\ RecordOK(a) /\ WordOK(a) /\ CacheMoves(a)
  BY DEF IInv, AttachmentOK, Moves
<1>2. /\ n \in Int /\ latest_commit_number \in Int /\ latest_commit_number' \in Int
      /\ n <= latest_commit_number /\ n <= latest_commit_number'
  <2>1. att[b] \in Attachment
    BY <1>1 DEF TypeOK
  <2>2. /\ n \in Int /\ latest_commit_number \in Int /\ latest_commit_number' \in Int
    BY <1>1, <2>1 DEF TypeOK, Attachment, CacheWord, CN_ACTIVE, CN_LIMBO, CN_PREHISTORIC
  <2>. QED  BY <1>1, <2>2 DEF SnapshotOK, Moves, NumberMoves
<1>3. ASSUME "read" \in Operations[b], att[b].pc \notin {"idle", "starting"},
             "reconnected" \notin att[b].tra_flags
      PROVE  /\ \A t \in before[b] : Committed(tpc'[t]) /\ tpc'[t] <= n
             /\ \A t \in Transactions :
                  Committed(tpc'[t]) /\ tpc'[t] <= n => t \in before[b] \union committing[b]
             /\ \A c \in Attachments :
                  att'[c].pc = "store" /\ att'[c].cn <= n => att'[c].number \in committing[b]
  <2>1. /\ \A t \in before[b] : Committed(tpc[t]) /\ tpc[t] <= n
        /\ \A t \in Transactions :
             Committed(tpc[t]) /\ tpc[t] <= n => t \in before[b] \union committing[b]
        /\ \A c \in Attachments :
             att[c].pc = "store" /\ att[c].cn <= n => att[c].number \in committing[b]
    BY <1>1, <1>3 DEF SnapshotOK
  <2>2. before[b] \subseteq Transactions
    BY <1>1 DEF TypeOK
  <2>3. ASSUME NEW t \in before[b]
        PROVE  Committed(tpc'[t]) /\ tpc'[t] <= n
    <3>1. t \in Transactions
      BY <2>2
    <3>2. tpc'[t] = tpc[t]
      BY <2>1, <3>1, <1>1, WordFinal
    <3>. QED  BY <2>1, <3>2
  <2>4. ASSUME NEW t \in Transactions, Committed(tpc'[t]), tpc'[t] <= n
        PROVE  t \in before[b] \union committing[b]
    <3>1. CASE tpc'[t] = tpc[t]
      BY <2>1, <2>4, <3>1
    <3>2. CASE att[a].pc = "store" /\ t = att[a].number /\ tpc'[t] = att[a].cn
      BY <2>1, <2>4, <3>2
    <3>. QED  BY <2>4, <3>1, <3>2, <1>1, WordFinal
  <2>5. ASSUME NEW c \in Attachments, att'[c].pc = "store", att'[c].cn <= n
        PROVE  att'[c].number \in committing[b]
    <3>1. CASE att'[c] = att[c]
      BY <2>1, <2>5, <3>1
    <3>2. CASE c = a /\ att'[a].cn > latest_commit_number
      <4>1. att'[a].cn \in Int
        BY DEF TypeOK, Attachment, CacheWord, CN_ACTIVE, CN_LIMBO
      <4>. QED  BY <2>5, <3>2, <4>1, <1>2
    <3>3. c # a => att'[c] = att[c]
      BY DEF Moves, OthersStay
    <3>. QED  BY <2>5, <3>1, <3>2, <3>3 DEF Moves, NumberMoves
  <2>. QED  BY <2>3, <2>4, <2>5
<1>. QED  BY <1>2, <1>3 DEF SnapshotOK

-----------------------------------------------------------------------------
(* What a step of a does not take from another attachment b.               *)

\* What attachment b relies upon stays true when a makes a step.
LEMMA OthersKeep ==
  ASSUME IInv, TypeOK', NEW a \in Attachments, Moves(a),
         NEW b \in Attachments, b # a
  PROVE  AttachmentOK(b)'
<1>1. TypeOK /\ AttachmentOK(a) /\ AttachmentOK(b)
  BY DEF IInv
<1>2. RecordOK(a) /\ LatchOK(a) /\ WordOK(a) /\ LockOK(a)
  BY <1>1 DEF AttachmentOK
<1>3. PageMoves(a) /\ CacheMoves(a) /\ LockMoves(a) /\ NumberMoves(a)
  BY DEF Moves
<1>4. /\ att'[b] = att[b]
      /\ before'[b] = before[b] /\ committing'[b] = committing[b] /\ answers'[b] = answers[b]
      /\ b \in dead' <=> b \in dead
      /\ tip_latch' = b <=> tip_latch = b
  BY DEF Moves, OthersStay
<1>5. att[b] \in Attachment /\ att[a] \in Attachment
  BY <1>1 DEF TypeOK
<1>6. /\ next_transaction \in Int /\ next_transaction' \in Int
      /\ next_transaction <= MaxTransactions
      /\ latest_commit_number \in Int /\ latest_commit_number' \in Int
      /\ next_transaction <= next_transaction'
      /\ latest_commit_number <= latest_commit_number'
      /\ MaxTransactions \in Nat
  BY <1>1, <1>3, TransactionsAssumption DEF TypeOK, NumberMoves, CN_PREHISTORIC
<1>7. /\ att[b].number \in Int /\ att[b].tra_number \in Int /\ att[b].cn \in Int
      /\ att[b].tra_snapshot_number \in Int
  BY <1>5 DEF Attachment, Transactions, CacheWord, CN_ACTIVE, CN_LIMBO
<1>8. \A t \in Int : t \in Transactions <=> 1 <= t /\ t <= MaxTransactions
  BY <1>6 DEF Transactions
<1>10. RecordOK(b)'
  <2>1. RecordOK(b)
    BY <1>1 DEF AttachmentOK
  <2>. QED  BY <2>1, <1>4, <1>6, <1>7 DEF RecordOK, CN_PREHISTORIC
<1>11. LatchOK(b)'
  BY <1>1, <1>4 DEF AttachmentOK, LatchOK
<1>12. WordOK(b)'
  <2>1. att[b].pc \in {"write", "cached", "tweak", "store"} => att[b].number \in Transactions
    BY <1>1, <1>6, <1>7, <1>8 DEF AttachmentOK, RecordOK, Asking, Ending
  <2>2. ASSUME att[b].pc \in {"write", "cached", "tweak"}
        PROVE  Follows(att[b].state, tpc'[att[b].number])
    BY <2>1, <2>2, <1>1, <1>2, <1>3, FollowsKept DEF AttachmentOK, WordOK
  <2>3. ASSUME tip_latch = b, tpc[att[b].number] \in {CN_ACTIVE, CN_LIMBO},
               att[b].number \in Transactions
        PROVE  tpc'[att[b].number] \in {tpc[att[b].number], CN_LIMBO}
    <3>1. att[a].pc \notin {"set", "store"}
      BY <2>3, <1>2 DEF LatchOK, Latched
    <3>2. CASE /\ att[a].pc \in {"cached", "tweak"} /\ att[b].number = att[a].number
               /\ tpc'[att[b].number] = IF att[a].state = "dead" THEN CN_DEAD ELSE CN_LIMBO
      <4>1. att[a].state = "dead" => tpc[att[a].number] = CN_DEAD
        BY <3>2, <1>2 DEF WordOK, Follows
      <4>2. CN_DEAD \notin {CN_ACTIVE, CN_LIMBO}
        BY TransactionsAssumption DEF CN_DEAD, CN_ACTIVE, CN_LIMBO
      <4>. QED  BY <2>3, <3>2, <4>1, <4>2
    <3>. QED  BY <2>3, <3>1, <3>2, <1>3 DEF CacheMoves
  <2>4. att[b].pc \in {"store", "write"} => tip_latch = b
    BY <1>1 DEF AttachmentOK, LatchOK, Latched
  <2>. QED  BY <1>1, <1>4, <2>1, <2>2, <2>3, <2>4 DEF AttachmentOK, WordOK
<1>13. LockOK(b)'
  <2>1. LockOK(b) /\ RecordOK(b)
    BY <1>1 DEF AttachmentOK
  <2>2. att[b].tra_number # 0 => att[b].tra_number \in Transactions
    BY <1>5 DEF Attachment
  <2>4. ASSUME att[b].pc # "idle", "reconnected" \notin att[b].tra_flags
        PROVE  lock_owner'[att[b].tra_number] = b
    <3>1. /\ lock_owner[att[b].tra_number] = b /\ att[b].tra_number \in Transactions
          /\ att[b].tra_number <= next_transaction
      BY <2>1, <2>2, <2>4 DEF LockOK, RecordOK
    <3>. QED  BY <3>1, <1>3, <1>6, <1>7 DEF LockMoves
  <2>5. ASSUME "reconnected" \in att[b].tra_flags
        PROVE  tip'[att[b].tra_number] # "active"
    <3>1. att[b].pc # "idle"
      BY <2>1, <2>5 DEF RecordOK
    <3>2. att[b].tra_number \in Transactions
      BY <2>1, <2>2, <3>1 DEF RecordOK
    <3>. QED  BY <2>1, <2>5, <3>2, <1>1, <1>2, <1>3, PageFinal DEF LockOK
  <2>. QED  BY <2>4, <2>5, <1>4 DEF LockOK
<1>14. PastOK(b)'
  <2>1. PastOK(b) /\ RecordOK(b)
    BY <1>1 DEF AttachmentOK
  <2>2. att[b].pc \in Ending \union Asking =>
          att[b].number \in Transactions /\ att[b].number <= next_transaction
    BY <2>1, <1>6, <1>7, <1>8 DEF RecordOK
  <2>3. ASSUME NEW t \in Transactions, t <= next_transaction, lock_owner[t] = NONE
        PROVE  lock_owner'[t] = NONE
    BY <2>3, <1>3, <1>6, TransactionsAssumption DEF LockMoves, Transactions
  <2>. QED  BY <2>1, <2>2, <2>3, <1>4 DEF PastOK, Asking
<1>15. AliveOK(b)' /\ SnapshotOK(b)'
  BY <1>4, AliveKept, SnapshotKept
<1>16. AnswersOK(b)'
  BY <1>1, <1>4 DEF AttachmentOK, AnswersOK
<1>. QED  BY <1>10, <1>11, <1>12, <1>13, <1>14, <1>15, <1>16 DEF AttachmentOK

\* Nor from a transaction.
LEMMA TransactionsKeep ==
  ASSUME IInv, TypeOK', NEW a \in Attachments, Moves(a), NEW t \in Transactions
  PROVE  TransactionOK(t)'
<1>1. TypeOK /\ AttachmentOK(a) /\ TransactionOK(t)
  BY DEF IInv
<1>2. RecordOK(a) /\ WordOK(a)
  BY <1>1 DEF AttachmentOK
<1>3. PageMoves(a) /\ CacheMoves(a) /\ LockMoves(a) /\ NumberMoves(a)
  BY DEF Moves
<1>4. /\ next_transaction \in Int /\ next_transaction' \in Int
      /\ latest_commit_number \in Int /\ latest_commit_number' \in Int
      /\ next_transaction <= next_transaction'
      /\ latest_commit_number <= latest_commit_number'
  BY <1>1, <1>3, TransactionsAssumption DEF TypeOK, NumberMoves, CN_PREHISTORIC
<1>9. /\ t \in Int /\ tpc[t] \in Int
      /\ att[a].cn \in Int /\ att[a].number \in Int
  <2>1. tpc[t] \in CacheWord /\ att[a] \in Attachment
    BY <1>1 DEF TypeOK
  <2>. QED  BY <2>1 DEF Transactions, CacheWord, CN_ACTIVE, CN_LIMBO, Attachment
<1>5. Follows(tip'[t], tpc'[t])
  <2>1. CASE tip'[t] = tip[t]
    BY <2>1, <1>1, <1>2, <1>3, FollowsKept DEF TransactionOK
  <2>2. CASE att[a].pc = "write" /\ t = att[a].number /\ tip'[t] = att[a].state
             /\ tpc'[t] = tpc[t]
    BY <2>2, <1>2 DEF WordOK
  <2>. QED  BY <2>1, <2>2, <1>3 DEF PageMoves
<1>6. ASSUME t > next_transaction'
      PROVE  tip'[t] = "active" /\ tpc'[t] = CN_ACTIVE /\ lock_owner'[t] = NONE
  <2>1. t > next_transaction
    BY <1>6, <1>4, <1>9
  <2>2. tip[t] = "active" /\ tpc[t] = CN_ACTIVE /\ lock_owner[t] = NONE
    BY <2>1, <1>1 DEF TransactionOK
  <2>3. att[a].pc \in {"set", "store", "write", "cached", "tweak"} => t # att[a].number
    BY <2>1, <1>2, <1>4, <1>9 DEF RecordOK, Asking, Ending
  <2>4. tip'[t] = tip[t] /\ tpc'[t] = tpc[t]
    BY <2>3, <1>3 DEF PageMoves, CacheMoves
  <2>5. lock_owner'[t] = NONE
    BY <2>2, <1>3, <1>4, <1>6, <1>9 DEF LockMoves
  <2>. QED  BY <2>2, <2>4, <2>5
<1>7. ASSUME Committed(tpc'[t])
      PROVE  tpc'[t] <= latest_commit_number'
  <2>1. CASE tpc'[t] = tpc[t]
    BY <2>1, <1>1, <1>4, <1>7, <1>9 DEF TransactionOK
  <2>2. CASE att[a].pc = "store" /\ tpc'[t] = att[a].cn
    BY <2>2, <1>2, <1>4, <1>9 DEF RecordOK
  <2>. QED  BY <2>1, <2>2, <1>1, <1>2, <1>3, <1>7, WordFinal
<1>8. lock_owner'[t] # NONE => lock_data'[t]
  BY <1>3 DEF LockMoves
<1>. QED  BY <1>5, <1>6, <1>7, <1>8 DEF TransactionOK

\* A step that keeps what a itself relies upon keeps the whole invariant.
LEMMA StepKeeps ==
  ASSUME IInv, TypeOK', NEW a \in Attachments, Moves(a), AttachmentOK(a)'
  PROVE  IInv'
  BY OthersKeep, TransactionsKeep DEF IInv

\* A step inside a transaction: its number, snapshot and lock stay.
Inside(a) ==
    /\ att[a].pc \notin {"idle", "starting"} /\ att'[a].pc \notin {"idle", "starting"}
    /\ att'[a].tra_number = att[a].tra_number
    /\ "reconnected" \in att'[a].tra_flags <=> "reconnected" \in att[a].tra_flags
    /\ att'[a].tra_flags = att[a].tra_flags \/ att'[a].caller = "own"
    /\ att'[a].tra_snapshot_number = att[a].tra_snapshot_number
    /\ lock_owner' = lock_owner /\ before' = before /\ committing' = committing
    /\ a \in dead => a \in dead'
    /\ att[a].caller = "own" =>
         att'[a].caller = "own" \/ a \in dead' \/ att[a].tra_flags # {}

\* A step inside a transaction keeps the invariant if it keeps what a relies upon.
LEMMA InsideKeeps ==
  ASSUME IInv, TypeOK', NEW a \in Attachments, Moves(a), Inside(a),
         RecordOK(a)', LatchOK(a)', WordOK(a)', PastOK(a)', AnswersOK(a)'
  PROVE  IInv'
<1>1. TypeOK /\ RecordOK(a) /\ LockOK(a) /\ PageMoves(a)
  BY DEF IInv, AttachmentOK, Moves
<1>2. LockOK(a)'
  <2>1. att[a].tra_number \in Transactions
    BY <1>1 DEF TypeOK, Attachment, RecordOK, Inside
  <2>. QED  BY <1>1, <2>1, PageFinal DEF LockOK, Inside
<1>3. AliveOK(a)' /\ SnapshotOK(a)'
  BY AliveKept, SnapshotKept DEF Inside
<1>. QED  BY <1>2, <1>3, StepKeeps DEF AttachmentOK

\* A step of a that changes nothing others rely upon.
LEMMA LocalMoves ==
  ASSUME IInv, NEW a \in Attachments, OthersStay(a),
         tip' = tip, tpc' = tpc, lock_owner' = lock_owner,
         latest_commit_number' = latest_commit_number, next_transaction' = next_transaction,
         \A t \in Transactions : lock_owner[t] # NONE => lock_data'[t],
         att'[a].pc = "store" => att'[a] = att[a]
  PROVE  Moves(a)
<1>1. next_transaction \in Int /\ latest_commit_number \in Int
  BY DEF IInv, TypeOK, CN_PREHISTORIC
<1>. QED  BY <1>1 DEF Moves, PageMoves, CacheMoves, LockMoves, NumberMoves

\* A lock that is held has its holder's data.
LEMMA DataOfLock == ASSUME IInv, NEW t \in Transactions, lock_owner[t] # NONE
                    PROVE  lock_data[t]
  BY DEF IInv, TransactionOK

-----------------------------------------------------------------------------
(* What snapshotState returns.                                             *)

\* Nothing but the record and the answers of a is changed by Return(a, cn).
Returned(a, cn) ==
    LET r == att[a]  u == att'[a] IN
    /\ att' = [att EXCEPT ![a] = u] /\ u \in Attachment
    /\ u.tra_number = r.tra_number /\ u.tra_flags = r.tra_flags
    /\ u.tra_snapshot_number = r.tra_snapshot_number
    /\ answers' = [answers EXCEPT ![a] =
         IF r.caller = "read" THEN @ \union {<<r.number, Seen(a, cn)>>} ELSE @]
    /\ \/ u.pc = "ready" /\ u.caller = "none"
       \/ /\ r.caller = "wait" /\ u.caller = "wait" /\ u.number = r.number
          /\ \/ u.pc = "latch" /\ u.state = "dead" /\ cn = CN_ACTIVE
             \/ u.pc = "tweak" /\ u.state = "dead" /\ cn = CN_DEAD
             \/ /\ u.pc = "tweak" /\ u.state = "limbo" /\ cn # CN_DEAD /\ cn # CN_ACTIVE
                /\ ~Committed(cn)

\* Return(a, cn) changes nothing else.
LEMMA ReturnEffect ==
  ASSUME TypeOK, NEW a \in Attachments, NEW cn \in CacheWord, Return(a, cn),
         att[a].caller \in {"read", "wait"}
  PROVE  Returned(a, cn)
<1> DEFINE r == att[a]
<1>1. r \in Attachment
  BY DEF TypeOK
<1>2. answers' = [answers EXCEPT ![a] =
         IF r.caller = "read" THEN @ \union {<<r.number, Seen(a, cn)>>} ELSE @]
  BY DEF TypeOK, Return, Answer
<1>3. CASE r.caller = "read" \/ Committed(cn)
  <2> DEFINE u == Ready(r)
  <2>1. att' = [att EXCEPT ![a] = u]
    BY <1>3 DEF Return
  <2>2. /\ u \in Attachment
        /\ u.tra_number = r.tra_number /\ u.tra_flags = r.tra_flags
        /\ u.tra_snapshot_number = r.tra_snapshot_number
        /\ u.pc = "ready" /\ u.caller = "none"
    <3>1. /\ 0 \in Transactions \union {0} /\ CN_ACTIVE \in CacheWord
          /\ "active" \in TipState /\ "ready" \in Steps
      BY TransactionsAssumption DEF TipState, Steps, CacheWord, CN_ACTIVE, CN_LIMBO
    <3>. QED  BY <1>1, <3>1 DEF Ready, Attachment
  <2>. HIDE DEF u
  <2>3. att'[a] = u
    BY <2>1 DEF TypeOK
  <2>. QED  BY <1>2, <2>1, <2>2, <2>3 DEF Returned
<1>4. CASE r.caller = "wait" /\ ~Committed(cn) /\ cn = CN_ACTIVE
  <2> DEFINE u == [r EXCEPT !.pc = "latch", !.state = "dead"]
  <2>1. att' = [att EXCEPT ![a] = u]
    BY <1>4 DEF Return
  <2>2. /\ u \in Attachment
        /\ u.tra_number = r.tra_number /\ u.tra_flags = r.tra_flags
        /\ u.tra_snapshot_number = r.tra_snapshot_number /\ u.caller = r.caller
        /\ u.pc = "latch" /\ u.state = "dead" /\ u.number = r.number
    BY <1>1 DEF Attachment, Steps, TipState
  <2>. HIDE DEF u
  <2>3. att'[a] = u
    BY <2>1 DEF TypeOK
  <2>. QED  BY <1>2, <1>4, <2>1, <2>2, <2>3 DEF Returned
<1>5. CASE r.caller = "wait" /\ ~Committed(cn) /\ cn # CN_ACTIVE
  <2> DEFINE u == [r EXCEPT !.pc = "tweak",
                            !.state = IF cn = CN_DEAD THEN "dead" ELSE "limbo"]
  <2>1. att' = [att EXCEPT ![a] = u]
    BY <1>5 DEF Return
  <2>2. /\ u \in Attachment
        /\ u.tra_number = r.tra_number /\ u.tra_flags = r.tra_flags
        /\ u.tra_snapshot_number = r.tra_snapshot_number /\ u.caller = r.caller
        /\ u.pc = "tweak" /\ u.number = r.number
        /\ u.state = IF cn = CN_DEAD THEN "dead" ELSE "limbo"
    BY <1>1 DEF Attachment, Steps, TipState
  <2>. HIDE DEF u
  <2>3. att'[a] = u
    BY <2>1 DEF TypeOK
  <2>. QED  BY <1>2, <1>5, <2>1, <2>2, <2>3 DEF Returned
<1>. QED  BY <1>3, <1>4, <1>5

\* A step at which snapshotState returns what the cache has, or what it is known
\* to have, keeps the invariant.
LEMMA ReturnKeeps ==
  ASSUME IInv, NEW a \in Attachments, NEW cn \in CacheWord, Return(a, cn),
         att[a].caller \in {"read", "wait"}, att[a].number \in Transactions,
         att[a].number <= next_transaction,
         att[a].pc \notin {"idle", "starting"},
         tip' \in [Transactions -> TipState], tpc' \in [Transactions -> CacheWord],
         tip_latch' \in Attachments \union {NONE}, tip_latch' # a,
         \A b \in Attachments \ {a} : tip_latch' = b <=> tip_latch = b,
         PageMoves(a), CacheMoves(a),
         UNCHANGED <<latest_commit_number, next_transaction, locks, dead, before, committing>>,
         att[a].caller = "wait" => lock_owner[att[a].number] = NONE,
         att[a].caller = "wait" /\ cn = CN_DEAD => tpc'[att[a].number] = CN_DEAD,
         att[a].caller = "wait" /\ ~Committed(cn) /\ cn # CN_ACTIVE =>
             tpc'[att[a].number] # CN_ACTIVE,
         att[a].caller = "read" /\ Committed(cn) /\ cn <= att[a].tra_snapshot_number =>
             att[a].number \in before[a] \union committing[a],
         att[a].caller = "read" /\ ~(Committed(cn) /\ cn <= att[a].tra_snapshot_number) =>
             att[a].number \notin before[a]
  PROVE  IInv'
<1> DEFINE r == att[a]  u == att'[a]
<1>1. Returned(a, cn)
  BY ReturnEffect DEF IInv
<1>2. TypeOK /\ RecordOK(a) /\ AnswersOK(a)
  BY DEF IInv, AttachmentOK
<1>3. /\ att' = [att EXCEPT ![a] = u] /\ u \in Attachment
      /\ u.tra_number = r.tra_number /\ u.tra_flags = r.tra_flags
      /\ u.tra_snapshot_number = r.tra_snapshot_number
      /\ answers' = [answers EXCEPT ![a] =
           IF r.caller = "read" THEN @ \union {<<r.number, Seen(a, cn)>>} ELSE @]
  BY <1>1 DEF Returned
<1>4. \/ u.pc = "ready" /\ u.caller = "none"
      \/ /\ r.caller = "wait" /\ u.caller = "wait" /\ u.number = r.number
         /\ \/ u.pc = "latch" /\ u.state = "dead" /\ cn = CN_ACTIVE
            \/ u.pc = "tweak" /\ u.state = "dead" /\ cn = CN_DEAD
            \/ /\ u.pc = "tweak" /\ u.state = "limbo" /\ cn # CN_DEAD /\ cn # CN_ACTIVE
               /\ ~Committed(cn)
  BY <1>1 DEF Returned
<1>. HIDE DEF u
<1>5. TypeOK'
  <2>1. Seen(a, cn) \in {"visible", "invisible"}
    BY DEF Seen
  <2>2. answers' \in [Attachments -> SUBSET (Transactions \X {"visible", "invisible"})]
    BY <1>2, <1>3, <2>1 DEF TypeOK
  <2>3. att' \in [Attachments -> Attachment]
    BY <1>2, <1>3 DEF TypeOK
  <2>. QED  BY <1>2, <2>2, <2>3 DEF TypeOK, locks
<1>6. \A b \in Attachments \ {a} : att'[b] = att[b] /\ answers'[b] = answers[b]
  BY <1>2, <1>3 DEF TypeOK
<1>7. Moves(a)
  <2>1. OthersStay(a)
    BY <1>6 DEF OthersStay
  <2>2. LockMoves(a)
    BY DataOfLock DEF LockMoves, locks
  <2>3. NumberMoves(a)
    BY <1>2, <1>4 DEF NumberMoves, TypeOK, CN_PREHISTORIC, u
  <2>. QED  BY <2>1, <2>2, <2>3 DEF Moves
<1>8. Inside(a)
  BY <1>3, <1>4 DEF Inside, locks, u
<1>9. RecordOK(a)'
  <2>1. r.number \in 1 .. next_transaction /\ next_transaction' = next_transaction
    BY <1>2 DEF TypeOK, Transactions
  <2>2. r.tra_number # 0 /\ r.tra_number <= next_transaction
    BY <1>2 DEF RecordOK
  <2>3. CASE u.pc = "ready" /\ u.caller = "none"
    BY <1>3, <2>1, <2>2, <2>3 DEF RecordOK, Ending, Asking, u
  <2>4. CASE /\ u.caller = "wait" /\ u.number = r.number
             /\ u.pc \in {"latch", "tweak"} /\ u.state \in {"dead", "limbo"}
             /\ u.pc = "latch" => u.state = "dead"
    BY <1>3, <2>1, <2>2, <2>4 DEF RecordOK, Ending, Asking, u
  <2>. QED  BY <1>4, <2>3, <2>4
<1>10. LatchOK(a)'
  BY <1>4, TransactionsAssumption DEF LatchOK, Latched, u
<1>11. WordOK(a)'
  BY <1>4 DEF WordOK, Follows, u
<1>12. PastOK(a)'
  BY <1>4 DEF PastOK, locks, u
<1>13. AnswersOK(a)'
  <2>1. ASSUME NEW t \in Transactions
        PROVE  /\ <<t, "visible">> \in answers'[a] => t \in before[a] \union committing[a]
               /\ <<t, "invisible">> \in answers'[a] => t \notin before[a]
    <3>1. answers'[a] = IF r.caller = "read" THEN answers[a] \union {<<r.number, Seen(a, cn)>>}
                        ELSE answers[a]
      BY <1>2, <1>3 DEF TypeOK
    <3>2. /\ <<t, "visible">> \in answers[a] => t \in before[a] \union committing[a]
          /\ <<t, "invisible">> \in answers[a] => t \notin before[a]
      BY <1>2 DEF AnswersOK
    <3>. QED  BY <3>1, <3>2 DEF Seen
  <2>. QED  BY <1>4, <2>1 DEF AnswersOK, u
<1>. QED  BY <1>5, <1>7, <1>8, <1>9, <1>10, <1>11, <1>12, <1>13, InsideKeeps

\* The same, when a keeps its history and nothing is written.
LEMMA LocalKeeps ==
  ASSUME IInv, NEW a \in Attachments, NEW u \in Attachment, att' = [att EXCEPT ![a] = u],
         tip' = tip, tpc' = tpc, latest_commit_number' = latest_commit_number,
         next_transaction' = next_transaction, lock_owner' = lock_owner, UNCHANGED history,
         tip_latch' \in Attachments \union {NONE},
         \A b \in Attachments \ {a} : tip_latch' = b <=> tip_latch = b,
         lock_data' \in [Transactions -> BOOLEAN],
         \A t \in Transactions : lock_owner[t] # NONE => lock_data'[t],
         dead \subseteq dead', dead' \subseteq dead \union {a},
         u.pc # "store" \/ u = att[a],
         Inside(a), RecordOK(a)', LatchOK(a)', WordOK(a)', PastOK(a)', AnswersOK(a)'
  PROVE  IInv'
<1>1. TypeOK
  BY DEF IInv
<1>2. TypeOK'
  BY <1>1 DEF TypeOK, history
<1>3. att'[a] = u /\ \A b \in Attachments \ {a} : att'[b] = att[b]
  BY <1>1 DEF TypeOK
<1>4. OthersStay(a)
  BY <1>3 DEF OthersStay, history
<1>5. Moves(a)
  BY <1>3, <1>4, LocalMoves
<1>. QED  BY <1>2, <1>5, InsideKeeps

\* What is said of an attachment's own record and of its answers.
LEMMA Facts ==
  ASSUME IInv, NEW a \in Attachments
  PROVE  /\ TypeOK /\ RecordOK(a) /\ LatchOK(a) /\ WordOK(a) /\ LockOK(a) /\ PastOK(a)
         /\ AliveOK(a) /\ SnapshotOK(a) /\ AnswersOK(a)
         /\ att[a] \in Attachment
         /\ next_transaction \in Int /\ next_transaction >= 0
         /\ latest_commit_number \in Int /\ latest_commit_number >= 1
         /\ att[a].pc \in Ending \union Asking => att[a].number \in Transactions
  <1>1. /\ TypeOK /\ RecordOK(a) /\ LatchOK(a) /\ WordOK(a) /\ LockOK(a) /\ PastOK(a)
        /\ AliveOK(a) /\ SnapshotOK(a) /\ AnswersOK(a)
    BY DEF IInv, AttachmentOK
  <1>2. /\ att[a] \in Attachment
        /\ next_transaction \in Int /\ next_transaction >= 0
        /\ next_transaction <= MaxTransactions /\ MaxTransactions \in Nat
        /\ latest_commit_number \in Int /\ latest_commit_number >= 1
    BY <1>1, TransactionsAssumption DEF TypeOK, CN_PREHISTORIC
  <1>3. att[a].pc \in Ending \union Asking => att[a].number \in 1 .. next_transaction
    BY <1>1 DEF RecordOK
  <1>. QED  BY <1>1, <1>2, <1>3 DEF Transactions

\* Ready forgets the transaction looked at, and nothing of the attachment's own.
LEMMA ReadyRecord ==
  ASSUME NEW r \in Attachment
  PROVE  /\ Ready(r) \in Attachment
         /\ Ready(r).pc = "ready" /\ Ready(r).caller = "none"
         /\ Ready(r).tra_number = r.tra_number /\ Ready(r).tra_flags = r.tra_flags
         /\ Ready(r).tra_snapshot_number = r.tra_snapshot_number
<1>1. /\ 0 \in Transactions \union {0} /\ CN_ACTIVE \in CacheWord
      /\ "active" \in TipState /\ "ready" \in Steps
  BY TransactionsAssumption DEF TipState, Steps, CacheWord, CN_ACTIVE, CN_LIMBO
<1>. QED  BY <1>1 DEF Ready, Attachment

\* Goto changes the step alone.
LEMMA GotoRecord ==
  ASSUME TypeOK, NEW a \in Attachments, NEW s \in Steps, Goto(a, s)
  PROVE  /\ att'[a] \in Attachment /\ att' = [att EXCEPT ![a] = att'[a]]
         /\ att'[a].pc = s
         /\ att'[a].tra_number = att[a].tra_number /\ att'[a].tra_flags = att[a].tra_flags
         /\ att'[a].tra_snapshot_number = att[a].tra_snapshot_number
         /\ att'[a].number = att[a].number /\ att'[a].state = att[a].state
         /\ att'[a].cn = att[a].cn /\ att'[a].caller = att[a].caller
<1> DEFINE u == [att[a] EXCEPT !.pc = s]
<1>1. att[a] \in Attachment
  BY DEF TypeOK
<1>2. u \in Attachment /\ u.pc = s
      /\ u.tra_number = att[a].tra_number /\ u.tra_flags = att[a].tra_flags
      /\ u.tra_snapshot_number = att[a].tra_snapshot_number
      /\ u.number = att[a].number /\ u.state = att[a].state
      /\ u.cn = att[a].cn /\ u.caller = att[a].caller
  BY <1>1 DEF Attachment
<1>3. att' = [att EXCEPT ![a] = u]
  BY DEF Goto
<1>. HIDE DEF u
<1>4. att'[a] = u
  BY <1>3 DEF TypeOK
<1>. QED  BY <1>2, <1>3, <1>4

-----------------------------------------------------------------------------
(* Each step of TRA_set_state keeps the invariant.                         *)

\* TRA_commit, TRA_rollback and TRA_prepare call TRA_set_state.
LEMMA EndAsKeeps ==
  ASSUME IInv, NEW a \in Attachments, At(a, "ready"),
         NEW s \in TipState \ {"active"}, NEW flags \in SUBSET {"prepared"},
         s = "limbo" => flags # {}, EndAs(a, s, flags)
  PROVE  IInv'
<1> DEFINE r == att[a]
           u == [r EXCEPT !.pc = "latch", !.number = r.tra_number, !.state = s,
                          !.caller = "own", !.tra_flags = @ \union flags]
<1>1. TypeOK /\ RecordOK(a) /\ LatchOK(a) /\ AnswersOK(a) /\ r \in Attachment
      /\ r.pc = "ready" /\ next_transaction \in Int
  BY Facts DEF At
<1>2. att' = [att EXCEPT ![a] = u]
  BY DEF EndAs
<1>3. u \in Attachment
      /\ u.pc = "latch" /\ u.caller = "own" /\ u.state = s /\ u.number = r.tra_number
      /\ u.tra_number = r.tra_number /\ u.tra_flags = r.tra_flags \union flags
      /\ u.tra_snapshot_number = r.tra_snapshot_number
  BY <1>1 DEF Attachment, Steps
<1>. HIDE DEF u
<1>4. att'[a] = u
  BY <1>1, <1>2 DEF TypeOK
<1>5. UNCHANGED <<tip, tip_latch, tpc, latest_commit_number, next_transaction,
                  lock_owner, lock_data, dead, before, committing, answers>>
  BY DEF EndAs, shared, locks, history
<1>6. Inside(a)
  BY <1>1, <1>3, <1>4, <1>5 DEF Inside
<1>7. RecordOK(a)'
  <2>1. r.tra_number \in 1 .. next_transaction
    BY <1>1 DEF RecordOK, Attachment, Transactions
  <2>. QED  BY <1>1, <1>3, <1>4, <1>5, <2>1 DEF RecordOK, Ending, Asking
<1>8. LatchOK(a)' /\ WordOK(a)' /\ PastOK(a)' /\ AnswersOK(a)'
  BY <1>1, <1>3, <1>4, <1>5 DEF LatchOK, WordOK, PastOK, AnswersOK, Latched
<1>. QED  BY <1>1, <1>2, <1>3, <1>5, <1>6, <1>7, <1>8, DataOfLock, LocalKeeps DEF TypeOK, history

\* TRA_set_state locks the page.
LEMMA fetch_inventory_pageKeeps ==
  ASSUME IInv, NEW a \in Attachments, fetch_inventory_page(a)
  PROVE  IInv'
<1> DEFINE r == att[a]  u == att'[a]
<1>1. /\ TypeOK /\ RecordOK(a) /\ PastOK(a) /\ AnswersOK(a)
      /\ r.pc = "latch" /\ tip_latch = NONE /\ tip_latch' = a
  BY Facts DEF fetch_inventory_page, At
<1>2. /\ u \in Attachment /\ att' = [att EXCEPT ![a] = u] /\ u.pc = "set"
      /\ u.tra_number = r.tra_number /\ u.tra_flags = r.tra_flags
      /\ u.tra_snapshot_number = r.tra_snapshot_number
      /\ u.number = r.number /\ u.state = r.state /\ u.caller = r.caller
  BY <1>1, GotoRecord DEF fetch_inventory_page, Steps
<1>3. UNCHANGED <<tip, tpc, latest_commit_number, next_transaction,
                  lock_owner, lock_data, dead, before, committing, answers>>
  BY DEF fetch_inventory_page, locks, history
<1>. HIDE DEF u
<1>4. Inside(a)
  BY <1>1, <1>2, <1>3 DEF Inside, u
<1>5. RecordOK(a)'
  BY <1>1, <1>2, <1>3 DEF RecordOK, Ending, Asking, u
<1>6. LatchOK(a)' /\ WordOK(a)'
  BY <1>1, <1>2 DEF LatchOK, WordOK, Latched, u
<1>7. PastOK(a)' /\ AnswersOK(a)'
  BY <1>1, <1>2, <1>3 DEF PastOK, AnswersOK, Ending, u
<1>. QED  BY <1>1, <1>2, <1>3, <1>4, <1>5, <1>6, <1>7, DataOfLock, LocalKeeps, TransactionsAssumption DEF TypeOK, history

\* setState returns to its caller.
LEMMA StateSetKeeps ==
  ASSUME IInv, NEW a \in Attachments, att[a].pc \in {"set", "store", "cached", "tweak"},
         NEW cn \in CacheWord, StateSet(a, cn),
         tpc' \in [Transactions -> CacheWord], cn = tpc'[att[a].number],
         CacheMoves(a), Follows(att[a].state, cn), att[a].state = "limbo" => cn = CN_LIMBO,
         UNCHANGED <<tip, tip_latch, latest_commit_number, next_transaction, locks,
                     before, committing>>
  PROVE  IInv'
<1> DEFINE r == att[a]  u == att'[a]
<1>1. /\ TypeOK /\ RecordOK(a) /\ LatchOK(a) /\ PastOK(a) /\ SnapshotOK(a) /\ AnswersOK(a)
      /\ WordOK(a) /\ r \in Attachment /\ r.number \in Transactions
  BY Facts DEF Ending, Asking
<1>2. UNCHANGED <<tip, tip_latch, latest_commit_number, next_transaction,
                  lock_owner, lock_data, dead, before, committing>>
  BY DEF locks, StateSet
<1>3. PageMoves(a) /\ LockMoves(a)
  BY <1>2, DataOfLock DEF PageMoves, LockMoves
<1>4. ASSUME UNCHANGED answers, u \in Attachment, att' = [att EXCEPT ![a] = u],
             u.pc # "store"
      PROVE  TypeOK' /\ Moves(a)
  <2>1. TypeOK'
    BY <1>1, <1>2, <1>4 DEF TypeOK
  <2>2. OthersStay(a)
    BY <1>1, <1>2, <1>4 DEF OthersStay, TypeOK
  <2>3. NumberMoves(a)
    BY <1>1, <1>2, <1>4 DEF NumberMoves, TypeOK, CN_PREHISTORIC
  <2>. QED  BY <2>1, <2>2, <2>3, <1>3 DEF Moves
<1>5. CASE tip_latch = a
  <2>1. Goto(a, "write") /\ UNCHANGED answers /\ r.pc \in {"set", "store"}
    BY <1>1, <1>5 DEF StateSet, LatchOK, Latched
  <2>2. /\ u \in Attachment /\ att' = [att EXCEPT ![a] = u] /\ u.pc = "write"
        /\ u.tra_number = r.tra_number /\ u.tra_flags = r.tra_flags
        /\ u.tra_snapshot_number = r.tra_snapshot_number
        /\ u.number = r.number /\ u.state = r.state /\ u.caller = r.caller
    BY <1>1, <2>1, GotoRecord DEF Steps
  <2>. HIDE DEF u
  <2>3. Inside(a)
    BY <1>1, <1>2, <2>1, <2>2 DEF Inside, u
  <2>4. RecordOK(a)'
    BY <1>1, <1>2, <2>1, <2>2 DEF RecordOK, Ending, Asking, u
  <2>5. LatchOK(a)' /\ WordOK(a)'
    BY <1>2, <1>5, <2>2 DEF LatchOK, WordOK, Latched, u
  <2>6. PastOK(a)' /\ AnswersOK(a)'
    BY <1>1, <1>2, <2>1, <2>2 DEF PastOK, AnswersOK, Ending, u
  <2>. QED  BY <1>4, <2>1, <2>2, <2>3, <2>4, <2>5, <2>6, InsideKeeps
<1>6. CASE tip_latch # a /\ r.pc = "tweak"
  <2>1. att' = [att EXCEPT ![a] = Ready(r)] /\ UNCHANGED answers
    BY <1>6 DEF StateSet
  <2>2. att'[a] = Ready(r)
    BY <1>1, <2>1 DEF TypeOK
  <2>3. /\ u \in Attachment /\ att' = [att EXCEPT ![a] = u] /\ u.pc = "ready"
        /\ u.tra_number = r.tra_number /\ u.tra_flags = r.tra_flags
        /\ u.tra_snapshot_number = r.tra_snapshot_number /\ u.caller = "none"
    BY <1>1, <2>1, <2>2, ReadyRecord
  <2>. HIDE DEF u
  <2>4. Inside(a)
    BY <1>1, <1>2, <1>6, <2>3 DEF Inside, RecordOK, u
  <2>5. RecordOK(a)'
    BY <1>1, <1>2, <1>6, <2>3 DEF RecordOK, Ending, Asking, u
  <2>6. LatchOK(a)' /\ WordOK(a)' /\ PastOK(a)'
    BY <1>2, <1>6, <2>3 DEF LatchOK, WordOK, PastOK, Latched, u
  <2>7. AnswersOK(a)'
    BY <1>1, <1>2, <2>1, <2>3 DEF AnswersOK, u
  <2>. QED  BY <1>4, <2>1, <2>3, <2>4, <2>5, <2>6, <2>7, InsideKeeps
<1>7. CASE tip_latch # a /\ r.pc # "tweak"
  <2>1. Return(a, cn) /\ r.pc = "cached"
    BY <1>1, <1>7 DEF StateSet, LatchOK, Latched
  <2>2. r.caller \in {"read", "wait"} /\ lock_owner[r.number] = NONE
        /\ r.number <= next_transaction
    BY <1>1, <2>1 DEF RecordOK, PastOK, Asking
  <2>3. ASSUME r.caller = "read"
        PROVE  r.number \notin before[a]
    BY <1>1, <2>1, <2>3 DEF AnswersOK
  <2>4. ASSUME r.caller = "read", Committed(cn), cn <= r.tra_snapshot_number
        PROVE  r.number \in before[a] \union committing[a]
    <3>1. tpc[r.number] = cn
      BY <1>1, <2>1, <2>4, WordFinal
    <3>. QED  BY <1>1, <2>1, <2>4, <3>1 DEF SnapshotOK, AnswersOK
  <2>. QED  BY <1>1, <1>2, <1>3, <1>7, <2>1, <2>2, <2>3, <2>4, ReturnKeeps DEF TypeOK, locks
<1>. QED  BY <1>5, <1>6, <1>7

\* setState refuses, draws a commit number, or stores a word in the cache.
LEMMA setStateKeeps ==
  ASSUME IInv, NEW a \in Attachments, setState(a)
  PROVE  IInv'
<1> DEFINE r == att[a]  t == r.number  u == att'[a]
           word == IF r.state = "dead" THEN CN_DEAD ELSE CN_LIMBO
<1>1. /\ TypeOK /\ RecordOK(a) /\ LatchOK(a) /\ PastOK(a) /\ AnswersOK(a) /\ WordOK(a)
      /\ r \in Attachment /\ t \in Transactions /\ a \notin dead
      /\ r.pc \in {"set", "cached", "tweak"}
  BY Facts DEF Ending, Asking, setState, At
<1>2. UNCHANGED <<tip, tip_latch, next_transaction, locks, before, committing>>
  BY DEF setState
<1>3. CASE Refused(tpc[t], r.state) /\ Bugcheck(a)
  <2>1. /\ u \in Attachment /\ att' = [att EXCEPT ![a] = u] /\ u.pc = "bugcheck"
        /\ u.tra_number = r.tra_number /\ u.tra_flags = r.tra_flags
        /\ u.tra_snapshot_number = r.tra_snapshot_number
        /\ u.number = r.number /\ u.state = r.state /\ u.caller = r.caller
    BY <1>1, <1>3, GotoRecord DEF Bugcheck, Steps
  <2>2. UNCHANGED <<tpc, latest_commit_number, answers>> /\ dead' = dead \union {a}
    BY <1>3 DEF Bugcheck
  <2>. HIDE DEF u
  <2>3. Inside(a)
    BY <1>1, <1>2, <2>1, <2>2 DEF Inside, locks, u
  <2>4. RecordOK(a)'
    BY <1>1, <1>2, <2>1, <2>2 DEF RecordOK, Ending, Asking, u
  <2>5. LatchOK(a)' /\ WordOK(a)' /\ PastOK(a)' /\ AnswersOK(a)'
    BY <1>1, <1>2, <2>1, <2>2 DEF LatchOK, WordOK, PastOK, AnswersOK, Latched, Ending, u
  <2>. QED  BY <1>1, <1>2, <2>1, <2>2, <2>3, <2>4, <2>5, DataOfLock, LocalKeeps
            DEF TypeOK, history, locks
<1>4. CASE /\ r.state = "committed" /\ Committed(tpc[t])
           /\ StateSet(a, tpc[t])
           /\ UNCHANGED <<tpc, latest_commit_number>>
  <2>1. tpc[t] \in CacheWord /\ tpc' \in [Transactions -> CacheWord] /\ tpc[t] = tpc'[t]
    BY <1>1, <1>4 DEF TypeOK
  <2>2. CacheMoves(a) /\ Follows(r.state, tpc[t])
    BY <1>4 DEF CacheMoves, Follows
  <2>. QED  BY <1>1, <1>2, <1>4, <2>1, <2>2, StateSetKeeps
<1>5. CASE /\ r.state = "committed" /\ tpc[t] \in {CN_ACTIVE, CN_LIMBO}
           /\ latest_commit_number < CN_MAX_NUMBER
           /\ latest_commit_number' = latest_commit_number + 1
           /\ att' = [att EXCEPT ![a].pc = "store", ![a].cn = latest_commit_number + 1]
           /\ UNCHANGED <<tpc, dead, answers>>
  <2> DEFINE v == [r EXCEPT !.pc = "store", !.cn = latest_commit_number + 1]
  <2>1. /\ CN_MAX_NUMBER \in Nat /\ latest_commit_number \in 1 .. CN_MAX_NUMBER
        /\ latest_commit_number' \in 1 .. CN_MAX_NUMBER
        /\ latest_commit_number + 1 \in CacheWord
    BY <1>1, <1>5, TransactionsAssumption
       DEF TypeOK, CN_PREHISTORIC, CacheWord, CN_ACTIVE, CN_LIMBO
  <2>2. r.pc = "set"
    BY <1>1, <1>5, <2>1, TransactionsAssumption
       DEF RecordOK, WordOK, Follows, Committed, CN_ACTIVE, CN_LIMBO, CN_PREHISTORIC
  <2>3. /\ v \in Attachment /\ v.pc = "store" /\ v.cn = latest_commit_number'
        /\ v.tra_number = r.tra_number /\ v.tra_flags = r.tra_flags
        /\ v.tra_snapshot_number = r.tra_snapshot_number
        /\ v.number = r.number /\ v.state = r.state /\ v.caller = r.caller
    BY <1>1, <1>5, <2>1 DEF Attachment, Steps
  <2>4. att' = [att EXCEPT ![a] = v]
    BY <1>5
  <2>. HIDE DEF v
  <2>5. att'[a] = v /\ \A b \in Attachments \ {a} : att'[b] = att[b]
    BY <1>1, <2>4 DEF TypeOK
  <2>6. TypeOK'
    <3>1. att' \in [Attachments -> Attachment]
      BY <1>1, <2>3, <2>4 DEF TypeOK
    <3>. QED  BY <1>1, <1>2, <1>5, <2>1, <3>1 DEF TypeOK, locks, CN_PREHISTORIC
  <2>7. Moves(a)
    <3>1. OthersStay(a) /\ PageMoves(a) /\ CacheMoves(a) /\ LockMoves(a)
      BY <1>2, <1>5, <2>5, DataOfLock DEF OthersStay, PageMoves, CacheMoves, LockMoves, locks
    <3>2. NumberMoves(a)
      BY <1>1, <1>2, <1>5, <2>1, <2>3, <2>5 DEF NumberMoves, TypeOK
    <3>. QED  BY <3>1, <3>2 DEF Moves
  <2>8. Inside(a)
    BY <1>1, <1>2, <1>5, <2>3, <2>5 DEF Inside, locks
  <2>9. RecordOK(a)'
    <3>1. /\ r.tra_number <= next_transaction /\ r.tra_number # 0
          /\ r.number \in 1 .. next_transaction /\ r.caller = "own"
          /\ r.number = r.tra_number
      BY <1>1, <1>5, <2>2 DEF RecordOK, Ending, Attachment
    <3>2. v.cn \in CN_PREHISTORIC .. latest_commit_number'
      BY <2>1, <2>3 DEF CN_PREHISTORIC
    <3>. QED  BY <1>2, <1>5, <2>3, <2>5, <3>1, <3>2 DEF RecordOK, Ending, Asking
  <2>10. LatchOK(a)' /\ WordOK(a)'
    BY <1>1, <1>2, <1>5, <2>2, <2>3, <2>5 DEF LatchOK, WordOK, Latched
  <2>11. PastOK(a)' /\ AnswersOK(a)'
    BY <1>1, <1>2, <1>5, <2>2, <2>3, <2>5 DEF PastOK, AnswersOK, Ending, locks
  <2>. QED  BY <2>6, <2>7, <2>8, <2>9, <2>10, <2>11, InsideKeeps
<1>6. CASE /\ r.state # "committed" /\ ~Refused(tpc[t], r.state)
           /\ tpc' = [tpc EXCEPT ![t] = word]
           /\ StateSet(a, word)
           /\ UNCHANGED latest_commit_number
  <2>1. word \in CacheWord
    BY TransactionsAssumption DEF CacheWord, CN_ACTIVE, CN_DEAD, CN_LIMBO
  <2>2. tpc' \in [Transactions -> CacheWord] /\ word = tpc'[t]
    BY <1>1, <1>6, <2>1 DEF TypeOK
  <2>3. CacheMoves(a)
    BY <1>1, <1>6 DEF CacheMoves, TypeOK
  <2>4. Follows(r.state, word) /\ (r.state = "limbo" => word = CN_LIMBO)
    BY <1>6, TransactionsAssumption DEF Follows, CN_ACTIVE, CN_DEAD, CN_LIMBO
  <2>. HIDE DEF word
  <2>. QED  BY <1>1, <1>2, <1>6, <2>1, <2>2, <2>3, <2>4, StateSetKeeps
<1>. QED  BY <1>3, <1>4, <1>5, <1>6 DEF setState

\* setState stores the commit number it has drawn.
LEMMA StoreCommitNumberKeeps ==
  ASSUME IInv, NEW a \in Attachments, StoreCommitNumber(a)
  PROVE  IInv'
<1> DEFINE r == att[a]
<1>1. /\ TypeOK /\ RecordOK(a) /\ r \in Attachment /\ r.number \in Transactions
      /\ r.pc = "store" /\ latest_commit_number <= CN_MAX_NUMBER
      /\ latest_commit_number \in Int /\ CN_MAX_NUMBER \in Int
  BY Facts, TransactionsAssumption DEF Ending, StoreCommitNumber, At, TypeOK, CN_PREHISTORIC
<1>2. /\ tpc' = [tpc EXCEPT ![r.number] = r.cn] /\ StateSet(a, r.cn)
      /\ UNCHANGED <<tip, tip_latch, latest_commit_number, next_transaction, locks,
                     before, committing>>
  BY DEF StoreCommitNumber
<1>3. r.cn \in CacheWord /\ r.cn \in CN_PREHISTORIC .. CN_MAX_NUMBER /\ r.state = "committed"
  BY <1>1 DEF Attachment, RecordOK, CN_PREHISTORIC
<1>4. tpc' \in [Transactions -> CacheWord] /\ tpc'[r.number] = r.cn
  BY <1>1, <1>2, <1>3 DEF TypeOK
<1>5. CacheMoves(a) /\ Follows(r.state, r.cn)
  BY <1>1, <1>2, <1>3 DEF CacheMoves, TypeOK, Follows, Committed
<1>. QED  BY <1>1, <1>2, <1>3, <1>4, <1>5, StateSetKeeps

\* TRA_set_state writes the page and unlocks it.
LEMMA WritePageKeeps ==
  ASSUME IInv, NEW a \in Attachments, WritePage(a)
  PROVE  IInv'
<1> DEFINE r == att[a]  u == att'[a]
<1>1. /\ TypeOK /\ RecordOK(a) /\ LatchOK(a) /\ PastOK(a) /\ AnswersOK(a) /\ WordOK(a)
      /\ r \in Attachment /\ r.number \in Transactions
      /\ r.pc = "write" /\ tip_latch = a
  BY Facts DEF Ending, Latched, WritePage, At, LatchOK
<1>2. /\ tip' = [tip EXCEPT ![r.number] = r.state] /\ tip_latch' = NONE
      /\ UNCHANGED <<tpc, latest_commit_number, next_transaction, locks, dead,
                     before, committing>>
  BY DEF WritePage
<1>3. /\ tip' \in [Transactions -> TipState] /\ NONE \notin Attachments
      /\ \A b \in Attachments \ {a} : tip_latch' = b <=> tip_latch = b
  BY <1>1, <1>2, TransactionsAssumption DEF TypeOK, Attachment
<1>4. PageMoves(a) /\ CacheMoves(a) /\ LockMoves(a)
  BY <1>1, <1>2, DataOfLock DEF PageMoves, CacheMoves, LockMoves, TypeOK, locks
<1>5. ASSUME UNCHANGED answers, u \in Attachment, att' = [att EXCEPT ![a] = u],
             u.pc \in {"release", "ready"}, u.pc = "ready" => u.caller = "none",
             u.pc = "release" => u.caller = "own",
             u.tra_number = r.tra_number, u.tra_flags = r.tra_flags,
             u.tra_snapshot_number = r.tra_snapshot_number,
             u.pc = "ready" => r.tra_flags # {}
      PROVE  IInv'
  <2>. HIDE DEF u
  <2>1. TypeOK'
    BY <1>1, <1>2, <1>3, <1>5 DEF TypeOK, locks
  <2>2. OthersStay(a)
    BY <1>1, <1>2, <1>3, <1>5 DEF OthersStay, TypeOK
  <2>3. NumberMoves(a)
    BY <1>1, <1>2, <1>5 DEF NumberMoves, TypeOK, CN_PREHISTORIC, u
  <2>4. Inside(a)
    BY <1>1, <1>2, <1>5 DEF Inside, locks, u
  <2>5. RecordOK(a)'
    BY <1>1, <1>2, <1>5 DEF RecordOK, Ending, Asking, u
  <2>6. LatchOK(a)' /\ WordOK(a)' /\ PastOK(a)'
    BY <1>2, <1>3, <1>5 DEF LatchOK, WordOK, PastOK, Latched, Ending, u
  <2>7. AnswersOK(a)'
    BY <1>1, <1>2, <1>5 DEF AnswersOK, Ending, u
  <2>. QED  BY <1>4, <2>1, <2>2, <2>3, <2>4, <2>5, <2>6, <2>7, InsideKeeps DEF Moves
<1>6. CASE r.caller = "own" /\ r.state # "limbo" /\ Goto(a, "release") /\ UNCHANGED answers
  <2>1. /\ u \in Attachment /\ att' = [att EXCEPT ![a] = u] /\ u.pc = "release"
        /\ u.tra_number = r.tra_number /\ u.tra_flags = r.tra_flags
        /\ u.tra_snapshot_number = r.tra_snapshot_number /\ u.caller = r.caller
    BY <1>1, <1>6, GotoRecord DEF Steps
  <2>. HIDE DEF u
  <2>. QED  BY <1>5, <1>6, <2>1
<1>7. CASE /\ r.caller = "own" /\ r.state = "limbo"
           /\ att' = [att EXCEPT ![a] = Ready(@)] /\ UNCHANGED answers
  <2>1. att'[a] = Ready(r) /\ att' = [att EXCEPT ![a] = Ready(r)]
    BY <1>1, <1>7 DEF TypeOK
  <2>2. /\ u \in Attachment /\ att' = [att EXCEPT ![a] = u] /\ u.pc = "ready"
        /\ u.tra_number = r.tra_number /\ u.tra_flags = r.tra_flags
        /\ u.tra_snapshot_number = r.tra_snapshot_number /\ u.caller = "none"
    BY <1>1, <2>1, ReadyRecord
  <2>3. r.tra_flags # {}
    BY <1>1, <1>7 DEF RecordOK, Ending
  <2>. HIDE DEF u
  <2>. QED  BY <1>5, <1>7, <2>2, <2>3
<1>8. CASE r.caller # "own" /\ Return(a, CN_DEAD)
  <2>1. /\ r.caller \in {"read", "wait"} /\ r.state = "dead" /\ r.number <= next_transaction
        /\ CN_DEAD \in CacheWord /\ ~Committed(CN_DEAD)
    BY <1>1, <1>8, TransactionsAssumption
       DEF RecordOK, Ending, Attachment, CacheWord, CN_DEAD, CN_ACTIVE, CN_LIMBO, Committed
  <2>2. tpc[r.number] = CN_DEAD /\ lock_owner[r.number] = NONE
    BY <1>1, <2>1 DEF WordOK, Follows, PastOK, Ending
  <2>3. r.caller = "read" => r.number \notin before[a]
    BY <1>1 DEF AnswersOK, Ending
  <2>. QED  BY <1>1, <1>2, <1>3, <1>4, <1>8, <2>1, <2>2, <2>3, ReturnKeeps DEF TypeOK
<1>. QED  BY <1>6, <1>7, <1>8 DEF WritePage

-----------------------------------------------------------------------------
(* Each step of TRA_snapshot_state and of TRA_wait keeps the invariant.    *)

\* TRA_snapshot_state and TRA_wait ask for another transaction's state.
LEMMA AskKeeps ==
  ASSUME IInv, NEW a \in Attachments, NEW pc, NEW caller, Ask(a, pc, caller),
         \/ pc = "cache" /\ caller = "read" /\ "read" \in Operations[a]
         \/ pc = "wait" /\ caller = "wait"
  PROVE  IInv'
<1> DEFINE r == att[a]
<1>1. /\ TypeOK /\ RecordOK(a) /\ LatchOK(a) /\ AnswersOK(a) /\ r \in Attachment
      /\ r.pc = "ready" /\ next_transaction \in Int /\ "reconnected" \notin r.tra_flags
  BY Facts DEF Ask, At
<1>2. PICK t \in 1 .. next_transaction :
        att' = [att EXCEPT ![a].pc = pc, ![a].number = t, ![a].caller = caller]
  BY DEF Ask
<1> DEFINE u == [r EXCEPT !.pc = pc, !.number = t, !.caller = caller]
<1>3. t \in Transactions
  BY <1>1, TransactionsAssumption DEF TypeOK, Transactions
<1>4. /\ u \in Attachment /\ u.pc = pc /\ u.caller = caller /\ u.number = t
      /\ u.tra_number = r.tra_number /\ u.tra_flags = r.tra_flags
      /\ u.tra_snapshot_number = r.tra_snapshot_number
  BY <1>1, <1>3 DEF Attachment, Steps
<1>5. att' = [att EXCEPT ![a] = u]
  BY <1>2
<1>. HIDE DEF u
<1>6. att'[a] = u
  BY <1>1, <1>5 DEF TypeOK
<1>7. UNCHANGED <<tip, tip_latch, tpc, latest_commit_number, next_transaction,
                  lock_owner, lock_data, dead, before, committing, answers>>
  BY DEF Ask, shared, locks, history
<1>8. Inside(a)
  BY <1>1, <1>4, <1>6, <1>7 DEF Inside, RecordOK
<1>9. RecordOK(a)'
  BY <1>1, <1>4, <1>6, <1>7 DEF RecordOK, Ending, Asking
<1>10. LatchOK(a)' /\ WordOK(a)'
  BY <1>1, <1>4, <1>6, <1>7 DEF LatchOK, WordOK, Latched
<1>11. PastOK(a)' /\ AnswersOK(a)'
  BY <1>1, <1>4, <1>6, <1>7 DEF PastOK, AnswersOK, Ending
<1>. QED  BY <1>1, <1>4, <1>5, <1>7, <1>8, <1>9, <1>10, <1>11, DataOfLock, LocalKeeps
          DEF TypeOK, history

\* TRA_wait does not get the lock.
LEMMA WaitFailsKeeps ==
  ASSUME IInv, NEW a \in Attachments, WaitFails(a)
  PROVE  IInv'
<1> DEFINE r == att[a]  u == Ready(r)
<1>1. /\ TypeOK /\ RecordOK(a) /\ LatchOK(a) /\ AnswersOK(a) /\ r \in Attachment
      /\ r.pc = "wait" /\ r.caller = "wait" /\ att' = [att EXCEPT ![a] = u]
  BY Facts DEF WaitFails, At, RecordOK
<1>2. /\ u \in Attachment /\ u.pc = "ready" /\ u.caller = "none"
      /\ u.tra_number = r.tra_number /\ u.tra_flags = r.tra_flags
      /\ u.tra_snapshot_number = r.tra_snapshot_number
  BY <1>1, ReadyRecord
<1>. HIDE DEF u
<1>3. att'[a] = u
  BY <1>1 DEF TypeOK
<1>4. UNCHANGED <<tip, tip_latch, tpc, latest_commit_number, next_transaction,
                  lock_owner, lock_data, dead, before, committing, answers>>
  BY DEF WaitFails, shared, locks, history
<1>5. Inside(a)
  BY <1>1, <1>2, <1>3, <1>4 DEF Inside
<1>6. RecordOK(a)'
  BY <1>1, <1>2, <1>3, <1>4 DEF RecordOK, Ending, Asking
<1>7. LatchOK(a)' /\ WordOK(a)' /\ PastOK(a)' /\ AnswersOK(a)'
  BY <1>1, <1>2, <1>3, <1>4 DEF LatchOK, WordOK, PastOK, AnswersOK, Latched
<1>. QED  BY <1>1, <1>2, <1>4, <1>5, <1>6, <1>7, DataOfLock, LocalKeeps DEF TypeOK, history

\* A step of an asking attachment that reads on.
LEMMA ReadOn ==
  ASSUME IInv, NEW a \in Attachments, att[a].pc \in {"wait", "cache", "lock_data", "fetch"},
         NEW u \in Attachment, att' = [att EXCEPT ![a] = u],
         UNCHANGED <<shared, lock_owner, dead, history>>,
         lock_data' \in [Transactions -> BOOLEAN],
         \A t \in Transactions : lock_owner[t] # NONE => lock_data'[t],
         u.tra_number = att[a].tra_number, u.tra_flags = att[a].tra_flags,
         u.tra_snapshot_number = att[a].tra_snapshot_number,
         u.number = att[a].number, u.caller = att[a].caller,
         u.pc \in {"cache", "lock_data", "fetch", "cached", "latch"},
         u.pc = "latch" => u.state = "dead",
         u.pc = "cached" => u.state # "active" /\ Follows(u.state, tpc[u.number]),
         u.caller = "wait" \/ u.pc \in {"fetch", "latch", "cached"} =>
             lock_owner[u.number] = NONE,
         u.caller = "read" /\ u.pc # "cache" => u.number \notin before[a]
  PROVE  IInv'
<1> DEFINE r == att[a]
<1>1. /\ TypeOK /\ RecordOK(a) /\ LatchOK(a) /\ AnswersOK(a) /\ r \in Attachment
      /\ r.number \in 1 .. next_transaction /\ r.caller \in {"read", "wait"}
      /\ r.tra_number # 0 /\ r.tra_number <= next_transaction
  BY Facts DEF RecordOK, Asking
<1>2. att'[a] = u
  BY <1>1 DEF TypeOK
<1>3. UNCHANGED <<tip, tip_latch, tpc, latest_commit_number, next_transaction,
                  dead, before, committing, answers>>
  BY DEF shared, history
<1>4. Inside(a)
  BY <1>1, <1>2, <1>3 DEF Inside
<1>5. RecordOK(a)'
  BY <1>1, <1>2, <1>3 DEF RecordOK, Ending, Asking
<1>6. LatchOK(a)' /\ WordOK(a)'
  BY <1>1, <1>2, <1>3 DEF LatchOK, WordOK, Latched
<1>7. PastOK(a)' /\ AnswersOK(a)'
  BY <1>1, <1>2, <1>3 DEF PastOK, AnswersOK, Ending
<1>. QED  BY <1>1, <1>3, <1>4, <1>5, <1>6, <1>7, LocalKeeps DEF TypeOK, history

\* TRA_wait gets the lock: its transaction has ended or its process is dead.
LEMMA WaitEndsKeeps ==
  ASSUME IInv, NEW a \in Attachments, WaitEnds(a)
  PROVE  IInv'
<1> DEFINE r == att[a]  u == att'[a]
<1>1. /\ TypeOK /\ r.pc = "wait" /\ r.caller = "wait" /\ lock_owner[r.number] = NONE
      /\ UNCHANGED <<shared, lock_owner, dead, history>>
  BY Facts DEF WaitEnds, At, RecordOK
<1>2. /\ u \in Attachment /\ att' = [att EXCEPT ![a] = u] /\ u.pc = "cache"
      /\ u.tra_number = r.tra_number /\ u.tra_flags = r.tra_flags
      /\ u.tra_snapshot_number = r.tra_snapshot_number
      /\ u.number = r.number /\ u.caller = r.caller
  BY <1>1, GotoRecord DEF WaitEnds, Steps
<1>3. /\ lock_data' \in [Transactions -> BOOLEAN]
      /\ \A t \in Transactions : lock_owner[t] # NONE => lock_data'[t]
  <2>1. lock_data' = [lock_data EXCEPT ![r.number] = @ /\ Waiters(r.number) # {a}]
    BY DEF WaitEnds
  <2>2. (lock_data[r.number] /\ Waiters(r.number) # {a}) \in BOOLEAN
    OBVIOUS
  <2>. QED  BY <1>1, <2>1, <2>2, DataOfLock DEF TypeOK
<1>. HIDE DEF u
<1>. QED  BY <1>1, <1>2, <1>3, ReadOn

\* snapshotState reads the cache.
LEMMA cacheStateKeeps ==
  ASSUME IInv, NEW a \in Attachments, cacheState(a)
  PROVE  IInv'
<1> DEFINE r == att[a]  u == att'[a]  cn == tpc[r.number]
<1>1. /\ TypeOK /\ RecordOK(a) /\ LatchOK(a) /\ PastOK(a) /\ SnapshotOK(a) /\ AnswersOK(a)
      /\ r \in Attachment /\ r.pc = "cache" /\ r.number \in Transactions
      /\ UNCHANGED <<shared, locks, dead, before, committing>>
  BY Facts DEF Asking, cacheState, At
<1>2. r.caller \in {"read", "wait"} /\ r.number <= next_transaction /\ cn \in CacheWord
  BY <1>1 DEF RecordOK, Asking, TypeOK
<1>3. ASSUME r.caller = "read"
      PROVE  /\ Committed(cn) /\ cn <= r.tra_snapshot_number =>
                  r.number \in before[a] \union committing[a]
             /\ ~(Committed(cn) /\ cn <= r.tra_snapshot_number) => r.number \notin before[a]
  BY <1>1, <1>3 DEF SnapshotOK, AnswersOK
<1>4. r.caller = "wait" => lock_owner[r.number] = NONE
  BY <1>1 DEF PastOK
<1>5. CASE (cn = CN_DEAD \/ Committed(cn)) /\ Return(a, cn)
  <2>1. /\ PageMoves(a) /\ CacheMoves(a) /\ tip_latch' # a
        /\ \A b \in Attachments \ {a} : tip_latch' = b <=> tip_latch = b
        /\ UNCHANGED <<tip, tip_latch, tpc, latest_commit_number, next_transaction>>
    BY <1>1 DEF PageMoves, CacheMoves, shared, LatchOK, Latched
  <2>. QED  BY <1>1, <1>2, <1>3, <1>4, <1>5, <2>1, ReturnKeeps DEF TypeOK
<1>6. CASE cn \in {CN_ACTIVE, CN_LIMBO} /\ Goto(a, "lock_data") /\ UNCHANGED answers
  <2>1. /\ u \in Attachment /\ att' = [att EXCEPT ![a] = u] /\ u.pc = "lock_data"
        /\ u.tra_number = r.tra_number /\ u.tra_flags = r.tra_flags
        /\ u.tra_snapshot_number = r.tra_snapshot_number
        /\ u.number = r.number /\ u.caller = r.caller
    BY <1>1, <1>6, GotoRecord DEF Steps
  <2>2. ~Committed(cn)
    BY <1>6, TransactionsAssumption DEF Committed, CN_ACTIVE, CN_LIMBO, CN_PREHISTORIC
  <2>. HIDE DEF u
  <2>. QED  BY <1>1, <1>3, <1>4, <1>6, <2>1, <2>2, DataOfLock, ReadOn DEF TypeOK, locks,
     history
<1>. QED  BY <1>5, <1>6 DEF cacheState

\* snapshotState looks at the data of the transaction's lock.
LEMMA LCK_read_dataKeeps ==
  ASSUME IInv, NEW a \in Attachments, LCK_read_data(a)
  PROVE  IInv'
<1> DEFINE r == att[a]  u == att'[a]
<1>1. /\ TypeOK /\ RecordOK(a) /\ LatchOK(a) /\ PastOK(a) /\ AnswersOK(a)
      /\ r \in Attachment /\ r.pc = "lock_data" /\ r.number \in Transactions
      /\ UNCHANGED <<shared, locks, dead, before, committing>>
  BY Facts DEF Asking, LCK_read_data, At
<1>2. r.caller \in {"read", "wait"} /\ r.number <= next_transaction
  BY <1>1 DEF RecordOK, Asking
<1>3. /\ r.caller = "read" => r.number \notin before[a]
      /\ r.caller = "wait" => lock_owner[r.number] = NONE
  BY <1>1 DEF AnswersOK, PastOK
<1>4. CASE Return(a, CN_ACTIVE)
  <2>1. /\ PageMoves(a) /\ CacheMoves(a) /\ tip_latch' # a
        /\ \A b \in Attachments \ {a} : tip_latch' = b <=> tip_latch = b
        /\ UNCHANGED <<tip, tip_latch, tpc, latest_commit_number, next_transaction>>
    BY <1>1 DEF PageMoves, CacheMoves, shared, LatchOK, Latched
  <2>2. CN_ACTIVE \in CacheWord /\ ~Committed(CN_ACTIVE) /\ CN_ACTIVE # CN_DEAD
    BY TransactionsAssumption
       DEF CacheWord, CN_ACTIVE, CN_LIMBO, CN_DEAD, Committed, CN_PREHISTORIC
  <2>. QED  BY <1>1, <1>2, <1>3, <1>4, <2>1, <2>2, ReturnKeeps DEF TypeOK
<1>5. CASE ~lock_data[r.number] /\ Goto(a, "fetch") /\ UNCHANGED answers
  <2>1. /\ u \in Attachment /\ att' = [att EXCEPT ![a] = u] /\ u.pc = "fetch"
        /\ u.tra_number = r.tra_number /\ u.tra_flags = r.tra_flags
        /\ u.tra_snapshot_number = r.tra_snapshot_number
        /\ u.number = r.number /\ u.caller = r.caller
    BY <1>1, <1>5, GotoRecord DEF Steps
  <2>2. lock_owner[r.number] = NONE
    BY <1>1, <1>5, DataOfLock
  <2>. HIDE DEF u
  <2>. QED  BY <1>1, <1>3, <1>5, <2>1, <2>2, DataOfLock, ReadOn DEF TypeOK, locks, history
<1>. QED  BY <1>4, <1>5 DEF LCK_read_data

\* snapshotState reads the page.
LEMMA TRA_fetch_stateKeeps ==
  ASSUME IInv, NEW a \in Attachments, TRA_fetch_state(a)
  PROVE  IInv'
<1> DEFINE r == att[a]  s == tip[r.number]
           u == [r EXCEPT !.pc = IF s = "active" THEN "latch" ELSE "cached",
                          !.state = IF s = "active" THEN "dead" ELSE s]
<1>1. /\ TypeOK /\ RecordOK(a) /\ PastOK(a) /\ AnswersOK(a)
      /\ r \in Attachment /\ r.pc = "fetch" /\ r.number \in Transactions
      /\ UNCHANGED <<shared, locks, dead, history>>
  BY Facts DEF Asking, TRA_fetch_state, At
<1>2. att' = [att EXCEPT ![a] = u]
  BY DEF TRA_fetch_state
<1>3. s \in TipState /\ Follows(s, tpc[r.number])
  BY <1>1 DEF IInv, TransactionOK, TypeOK
<1>4. /\ u \in Attachment
      /\ u.tra_number = r.tra_number /\ u.tra_flags = r.tra_flags
      /\ u.tra_snapshot_number = r.tra_snapshot_number
      /\ u.number = r.number /\ u.caller = r.caller
      /\ u.pc = IF s = "active" THEN "latch" ELSE "cached"
      /\ u.state = IF s = "active" THEN "dead" ELSE s
  BY <1>1, <1>3 DEF Attachment, Steps, TipState
<1>5. /\ r.caller = "read" => r.number \notin before[a]
      /\ r.caller \in {"read", "wait"} /\ lock_owner[r.number] = NONE
  BY <1>1 DEF AnswersOK, PastOK, RecordOK, Asking
<1>. HIDE DEF u
<1>. QED  BY <1>1, <1>2, <1>3, <1>4, <1>5, DataOfLock, ReadOn DEF TypeOK, locks

-----------------------------------------------------------------------------
(* Each step that starts or leaves a transaction keeps the invariant.      *)

\* An attachment that ends leaves its prepared transaction.
LEMMA DetachPreparedKeeps ==
  ASSUME IInv, NEW a \in Attachments, DetachPrepared(a)
  PROVE  IInv'
<1> DEFINE r == att[a]  u == att'[a]
<1>1. /\ TypeOK /\ RecordOK(a) /\ LatchOK(a) /\ AnswersOK(a) /\ r \in Attachment
      /\ r.pc = "ready" /\ r.tra_flags # {} /\ r.caller = "none"
  BY Facts DEF DetachPrepared, At, RecordOK
<1>2. /\ u \in Attachment /\ att' = [att EXCEPT ![a] = u] /\ u.pc = "release"
      /\ u.tra_number = r.tra_number /\ u.tra_flags = r.tra_flags
      /\ u.tra_snapshot_number = r.tra_snapshot_number
      /\ u.number = r.number /\ u.caller = r.caller
  BY <1>1, GotoRecord DEF DetachPrepared, Steps
<1>3. UNCHANGED <<tip, tip_latch, tpc, latest_commit_number, next_transaction,
                  lock_owner, lock_data, dead, before, committing, answers>>
  BY DEF DetachPrepared, shared, locks, history
<1>. HIDE DEF u
<1>4. Inside(a)
  BY <1>1, <1>2, <1>3 DEF Inside, u
<1>5. RecordOK(a)'
  BY <1>1, <1>2, <1>3 DEF RecordOK, Ending, Asking, u
<1>6. LatchOK(a)' /\ WordOK(a)' /\ PastOK(a)' /\ AnswersOK(a)'
  BY <1>1, <1>2, <1>3 DEF LatchOK, WordOK, PastOK, AnswersOK, Latched, u
<1>. QED  BY <1>1, <1>2, <1>3, <1>4, <1>5, <1>6, DataOfLock, LocalKeeps DEF TypeOK, history

\* A process dies at any step; what it has locked stays locked.
LEMMA CrashKeeps ==
  ASSUME IInv, NEW a \in Attachments, Crash(a)
  PROVE  IInv'
<1> DEFINE u == att[a]
<1>1. /\ TypeOK /\ RecordOK(a) /\ LatchOK(a) /\ WordOK(a) /\ PastOK(a) /\ AnswersOK(a)
      /\ LockOK(a) /\ SnapshotOK(a)
      /\ u \in Attachment /\ u.pc # "idle" /\ att' = att /\ dead' = dead \union {a}
  BY Facts DEF Crash
<1>2. UNCHANGED <<tip, tip_latch, tpc, latest_commit_number, next_transaction,
                  lock_owner, lock_data, before, committing, answers>>
  BY DEF Crash, shared, locks, history
<1>3. TypeOK'
  BY <1>1, <1>2 DEF TypeOK
<1>4. Moves(a)
  BY <1>1, <1>2, DataOfLock, LocalMoves DEF OthersStay
<1>5. RecordOK(a)'
  BY <1>1, <1>2 DEF RecordOK
<1>6. LatchOK(a)' /\ WordOK(a)' /\ LockOK(a)' /\ PastOK(a)' /\ AnswersOK(a)'
  BY <1>1, <1>2 DEF LatchOK, WordOK, LockOK, PastOK, AnswersOK
<1>7. SnapshotOK(a)' /\ AliveOK(a)'
  BY <1>1, <1>2 DEF SnapshotOK, AliveOK
<1>. QED  BY <1>3, <1>4, <1>5, <1>6, <1>7, StepKeeps DEF AttachmentOK

\* A transaction is started with its lock.
LEMMA transaction_startKeeps ==
  ASSUME IInv, NEW a \in Attachments, transaction_start(a)
  PROVE  IInv'
<1> DEFINE r == att[a]  t == next_transaction + 1
           u == [r EXCEPT !.pc = "starting", !.tra_number = t]
<1>1. /\ TypeOK /\ RecordOK(a) /\ LatchOK(a) /\ SnapshotOK(a) /\ AnswersOK(a)
      /\ r \in Attachment /\ r.pc = "idle" /\ a \notin dead
      /\ r.tra_flags = {} /\ r.caller = "none"
      /\ next_transaction \in Int /\ latest_commit_number \in Int
  BY Facts DEF transaction_start, At, RecordOK
<1>2. /\ att' = [att EXCEPT ![a] = u] /\ next_transaction' = t
      /\ lock_owner' = [lock_owner EXCEPT ![t] = a]
      /\ lock_data' = [lock_data EXCEPT ![t] = TRUE]
      /\ UNCHANGED <<tip, tip_latch, tpc, latest_commit_number, dead,
                     before, committing, answers>>
  BY DEF transaction_start, history
<1>3. /\ t \in Transactions /\ t \in 0 .. MaxTransactions /\ t > next_transaction /\ t # 0
  BY <1>1, TransactionsAssumption DEF transaction_start, TypeOK, Transactions
<1>4. TransactionOK(t) /\ tip[t] = "active" /\ tpc[t] = CN_ACTIVE
  BY <1>3 DEF IInv, TransactionOK
<1>5. /\ u \in Attachment /\ u.pc = "starting" /\ u.tra_number = t
      /\ u.tra_flags = {} /\ u.caller = "none"
      /\ u.tra_snapshot_number = r.tra_snapshot_number
  BY <1>1, <1>3 DEF Attachment, Steps
<1>. HIDE DEF u, t
<1>6. att'[a] = u /\ \A b \in Attachments \ {a} : att'[b] = att[b]
  BY <1>1, <1>2 DEF TypeOK
<1>7. /\ lock_owner'[t] = a
      /\ \A x \in Transactions : x # t => lock_owner'[x] = lock_owner[x]
      /\ \A x \in Transactions : lock_owner'[x] # NONE => lock_data'[x]
  BY <1>1, <1>2, <1>3, DataOfLock DEF TypeOK
<1>8. TypeOK'
  <2>1. att' \in [Attachments -> Attachment]
    BY <1>1, <1>2, <1>5 DEF TypeOK
  <2>2. lock_owner' \in [Transactions -> Attachments \union {NONE}]
    BY <1>1, <1>2, <1>3 DEF TypeOK
  <2>3. lock_data' \in [Transactions -> BOOLEAN]
    BY <1>1, <1>2, <1>3 DEF TypeOK
  <2>. QED  BY <1>1, <1>2, <1>3, <2>1, <2>2, <2>3 DEF TypeOK
<1>9. Moves(a)
  <2>1. OthersStay(a) /\ PageMoves(a) /\ CacheMoves(a)
    BY <1>2, <1>6 DEF OthersStay, PageMoves, CacheMoves
  <2>2. LockMoves(a)
    <3>1. t <= next_transaction'
      BY <1>1, <1>2 DEF t
    <3>. QED  BY <1>3, <1>7, <3>1 DEF LockMoves
  <2>3. NumberMoves(a)
    BY <1>1, <1>2, <1>5, <1>6 DEF NumberMoves, t
  <2>. QED  BY <2>1, <2>2, <2>3 DEF Moves
<1>10. RecordOK(a)'
  BY <1>1, <1>2, <1>3, <1>5, <1>6 DEF RecordOK, Ending, Asking, t
<1>11. LatchOK(a)' /\ WordOK(a)' /\ LockOK(a)' /\ PastOK(a)'
  BY <1>1, <1>2, <1>5, <1>6, <1>7 DEF LatchOK, WordOK, LockOK, PastOK, Latched
<1>12. AliveOK(a)' /\ SnapshotOK(a)' /\ AnswersOK(a)'
  BY <1>1, <1>2, <1>4, <1>5, <1>6 DEF AliveOK, SnapshotOK, AnswersOK, Ending
<1>. QED  BY <1>8, <1>9, <1>10, <1>11, <1>12, StepKeeps DEF AttachmentOK

\* A transaction takes its snapshot.
LEMMA beginSnapshotKeeps ==
  ASSUME IInv, NEW a \in Attachments, beginSnapshot(a)
  PROVE  IInv'
<1> DEFINE r == att[a]
           u == [r EXCEPT !.pc = "ready", !.tra_snapshot_number = latest_commit_number]
<1>1. /\ TypeOK /\ RecordOK(a) /\ LatchOK(a) /\ LockOK(a) /\ AnswersOK(a)
      /\ r \in Attachment /\ r.pc = "starting" /\ a \notin dead
      /\ r.tra_flags = {} /\ r.caller = "none"
  BY Facts DEF beginSnapshot, At, RecordOK
<1>2. /\ att' = [att EXCEPT ![a] = u]
      /\ UNCHANGED <<tip, tip_latch, tpc, latest_commit_number, next_transaction,
                     lock_owner, lock_data, dead, answers>>
  BY DEF beginSnapshot, shared, locks
<1>3. latest_commit_number \in CacheWord /\ latest_commit_number \in Int
  BY <1>1, TransactionsAssumption
     DEF TypeOK, CN_PREHISTORIC, CacheWord, CN_ACTIVE, CN_LIMBO
<1>4. /\ u \in Attachment /\ u.pc = "ready" /\ u.tra_number = r.tra_number
      /\ u.tra_flags = {} /\ u.caller = "none"
      /\ u.tra_snapshot_number = latest_commit_number
  BY <1>1, <1>3 DEF Attachment, Steps
<1>. HIDE DEF u
<1>5. att'[a] = u /\ \A b \in Attachments \ {a} : att'[b] = att[b]
  BY <1>1, <1>2 DEF TypeOK
<1> DEFINE seen == {t \in Transactions : Committed(tpc[t])}
           drawn == {att[b].number : b \in {c \in Attachments : att[c].pc = "store"}}
<1>6. seen \subseteq Transactions /\ drawn \subseteq Transactions
  <2>1. ASSUME NEW b \in Attachments, att[b].pc = "store"
        PROVE  att[b].number \in Transactions
    BY <2>1, Facts DEF Ending
  <2>. QED  BY <2>1
<1>7. /\ "read" \in Operations[a] => before'[a] = seen /\ committing'[a] = drawn
      /\ \A b \in Attachments \ {a} : before'[b] = before[b] /\ committing'[b] = committing[b]
      /\ before' \in [Attachments -> SUBSET Transactions]
      /\ committing' \in [Attachments -> SUBSET Transactions]
  <2>1. CASE "read" \in Operations[a]
    <3>1. before' = [before EXCEPT ![a] = seen] /\ committing' = [committing EXCEPT ![a] = drawn]
      BY <2>1 DEF beginSnapshot
    <3>. QED  BY <1>1, <1>6, <3>1 DEF TypeOK
  <2>2. CASE "read" \notin Operations[a]
    <3>1. before' = before /\ committing' = committing
      BY <2>2 DEF beginSnapshot
    <3>. QED  BY <1>1, <2>2, <3>1 DEF TypeOK
  <2>. QED  BY <2>1, <2>2
<1>8. TypeOK'
  <2>1. att' \in [Attachments -> Attachment]
    BY <1>1, <1>2, <1>4 DEF TypeOK
  <2>. QED  BY <1>1, <1>2, <1>7, <2>1 DEF TypeOK
<1>9. Moves(a)
  <2>1. OthersStay(a)
    BY <1>2, <1>5, <1>7 DEF OthersStay
  <2>. QED  BY <1>2, <1>4, <1>5, <2>1, DataOfLock, LocalMoves
<1>10. RecordOK(a)'
  BY <1>1, <1>2, <1>4, <1>5 DEF RecordOK, Ending, Asking
<1>11. LatchOK(a)' /\ WordOK(a)' /\ LockOK(a)' /\ PastOK(a)'
  BY <1>1, <1>2, <1>4, <1>5 DEF LatchOK, WordOK, LockOK, PastOK, Latched
<1>12. AliveOK(a)'
  BY <1>1, <1>2, <1>4, <1>5, <1>9, AliveKept
<1>13. SnapshotOK(a)'
  <2>1. ASSUME NEW t \in Transactions, Committed(tpc[t])
        PROVE  tpc[t] <= latest_commit_number
    BY <2>1 DEF IInv, TransactionOK
  <2>2. ASSUME NEW b \in Attachments, att'[b].pc = "store"
        PROVE  att'[b].number \in drawn
    BY <1>4, <1>5, <2>2
  <2>. HIDE DEF drawn
  <2>. QED  BY <1>2, <1>3, <1>4, <1>5, <1>7, <2>1, <2>2 DEF SnapshotOK
<1>14. AnswersOK(a)'
  BY <1>1, <1>2, <1>4, <1>5 DEF AnswersOK, Ending
<1>. QED  BY <1>8, <1>9, <1>10, <1>11, <1>12, <1>13, <1>14, StepKeeps DEF AttachmentOK

\* An attachment takes over a transaction in limbo.
LEMMA TRA_reconnectKeeps ==
  ASSUME IInv, NEW a \in Attachments, TRA_reconnect(a)
  PROVE  IInv'
<1>1. /\ TypeOK /\ LatchOK(a) /\ AnswersOK(a)
      /\ att[a].pc = "idle" /\ a \notin dead
      /\ next_transaction \in Int /\ next_transaction >= 0
      /\ latest_commit_number \in Int /\ latest_commit_number >= 1
  BY Facts DEF TRA_reconnect, At
<1>2. PICK t \in 1 .. next_transaction :
        /\ tip[t] = "limbo"
        /\ att' = [att EXCEPT ![a] = [Idle EXCEPT !.pc = "ready", !.tra_number = t,
                                        !.tra_flags = {"prepared", "reconnected"}]]
  BY DEF TRA_reconnect
<1> DEFINE u == [Idle EXCEPT !.pc = "ready", !.tra_number = t,
                             !.tra_flags = {"prepared", "reconnected"}]
<1>3. UNCHANGED <<tip, tip_latch, tpc, latest_commit_number, next_transaction,
                  lock_owner, lock_data, dead, before, committing, answers>>
  BY DEF TRA_reconnect, shared, locks, history
<1>4. t \in Transactions /\ t # 0 /\ t <= next_transaction /\ t \in Int
  BY <1>1, TransactionsAssumption DEF TypeOK, Transactions
<1>5. /\ u \in Attachment /\ u.pc = "ready" /\ u.tra_number = t
      /\ u.tra_flags = {"prepared", "reconnected"} /\ u.caller = "none"
      /\ u.tra_snapshot_number = CN_ACTIVE
  <2>1. CN_ACTIVE \in CacheWord
    BY TransactionsAssumption DEF CacheWord, CN_ACTIVE, CN_LIMBO
  <2>. QED  BY <1>4, <2>1 DEF Idle, Attachment, Steps, TipState
<1>. HIDE DEF u
<1>6. att' = [att EXCEPT ![a] = u]
  BY <1>2 DEF u
<1>7. att'[a] = u /\ \A b \in Attachments \ {a} : att'[b] = att[b]
  BY <1>1, <1>6 DEF TypeOK
<1>8. TypeOK'
  <2>1. att' \in [Attachments -> Attachment]
    BY <1>1, <1>5, <1>6 DEF TypeOK
  <2>. QED  BY <1>1, <1>3, <2>1 DEF TypeOK
<1>9. Moves(a)
  <2>1. OthersStay(a)
    BY <1>3, <1>7 DEF OthersStay
  <2>. QED  BY <1>3, <1>5, <1>7, <2>1, DataOfLock, LocalMoves
<1>10. RecordOK(a)'
  BY <1>1, <1>3, <1>4, <1>5, <1>7 DEF RecordOK, Ending, Asking
<1>11. LatchOK(a)' /\ WordOK(a)' /\ LockOK(a)' /\ PastOK(a)'
  BY <1>1, <1>2, <1>3, <1>5, <1>7 DEF LatchOK, WordOK, LockOK, PastOK, Latched
<1>12. AliveOK(a)' /\ SnapshotOK(a)' /\ AnswersOK(a)'
  BY <1>1, <1>3, <1>5, <1>7 DEF AliveOK, SnapshotOK, AnswersOK, Ending, CN_ACTIVE
<1>. QED  BY <1>8, <1>9, <1>10, <1>11, <1>12, StepKeeps DEF AttachmentOK

\* An idle attachment has a record of the right type.
LEMMA IdleRecord == Idle \in Attachment /\ Idle.pc = "idle"
<1>1. CN_ACTIVE \in CacheWord
  BY TransactionsAssumption DEF CacheWord, CN_ACTIVE, CN_LIMBO
<1>. QED  BY <1>1 DEF Idle, Attachment, Steps, TipState

\* A step of a that ends its transaction and leaves nothing behind.
LEMMA LeaveKeeps ==
  ASSUME IInv, NEW a \in Attachments, att' = [att EXCEPT ![a] = Idle],
         UNCHANGED <<tip, tpc, latest_commit_number, next_transaction>>,
         tip_latch' \in Attachments \union {NONE}, tip_latch' # a,
         \A b \in Attachments \ {a} : tip_latch' = b <=> tip_latch = b,
         dead' = dead \ {a},
         lock_owner' \in [Transactions -> Attachments \union {NONE}],
         lock_data' \in [Transactions -> BOOLEAN], LockMoves(a),
         answers' = [answers EXCEPT ![a] = {}], before' = [before EXCEPT ![a] = {}],
         committing' = [committing EXCEPT ![a] = {}]
  PROVE  IInv'
<1>1. TypeOK
  BY DEF IInv
<1>2. att'[a] = Idle /\ \A b \in Attachments \ {a} : att'[b] = att[b]
  BY <1>1 DEF TypeOK
<1>3. TypeOK'
  <2>1. att' \in [Attachments -> Attachment]
    BY <1>1, IdleRecord DEF TypeOK
  <2>2. /\ answers' \in [Attachments -> SUBSET (Transactions \X {"visible", "invisible"})]
        /\ before' \in [Attachments -> SUBSET Transactions]
        /\ committing' \in [Attachments -> SUBSET Transactions]
    BY <1>1 DEF TypeOK
  <2>. QED  BY <1>1, <2>1, <2>2 DEF TypeOK
<1>4. Moves(a)
  <2>1. OthersStay(a)
    BY <1>1, <1>2 DEF OthersStay, TypeOK
  <2>2. PageMoves(a) /\ CacheMoves(a)
    BY DEF PageMoves, CacheMoves
  <2>3. NumberMoves(a)
    BY <1>1, <1>2, IdleRecord DEF NumberMoves, TypeOK, CN_PREHISTORIC
  <2>. QED  BY <2>1, <2>2, <2>3 DEF Moves
<1>5. before'[a] = {} /\ answers'[a] = {} /\ a \notin dead'
      /\ next_transaction' \in Nat /\ latest_commit_number' \in Nat
  BY <1>1 DEF TypeOK, CN_PREHISTORIC
<1>6. AttachmentOK(a)'
  <2>1. /\ att'[a].pc = "idle" /\ att'[a].tra_number = 0 /\ att'[a].tra_flags = {}
        /\ att'[a].tra_snapshot_number = 0 /\ att'[a].caller = "none"
    BY <1>2 DEF Idle, CN_ACTIVE
  <2>2. RecordOK(a)'
    BY <1>5, <2>1 DEF RecordOK, Ending, Asking, CN_ACTIVE
  <2>3. LatchOK(a)' /\ WordOK(a)' /\ LockOK(a)' /\ PastOK(a)' /\ AliveOK(a)'
    BY <2>1 DEF LatchOK, WordOK, LockOK, PastOK, AliveOK, Latched
  <2>4. SnapshotOK(a)' /\ AnswersOK(a)'
    BY <1>5, <2>1 DEF SnapshotOK, AnswersOK
  <2>. QED  BY <2>2, <2>3, <2>4 DEF AttachmentOK
<1>. QED  BY <1>3, <1>4, <1>6, StepKeeps

\* A transaction's lock is released by the attachment that started it.
LEMMA TRA_release_transactionKeeps ==
  ASSUME IInv, NEW a \in Attachments, TRA_release_transaction(a)
  PROVE  IInv'
<1> DEFINE r == att[a]  t == r.tra_number
<1>1. /\ TypeOK /\ RecordOK(a) /\ LatchOK(a) /\ LockOK(a) /\ r \in Attachment
      /\ r.pc = "release" /\ a \notin dead
      /\ UNCHANGED <<tip, tip_latch, tpc, latest_commit_number, next_transaction, dead>>
      /\ att' = [att EXCEPT ![a] = Idle]
      /\ answers' = [answers EXCEPT ![a] = {}] /\ before' = [before EXCEPT ![a] = {}]
      /\ committing' = [committing EXCEPT ![a] = {}]
  BY Facts DEF TRA_release_transaction, At, shared
<1>2. tip_latch # a /\ dead' = dead \ {a}
  BY <1>1 DEF LatchOK, Latched
<1>3. /\ lock_owner' \in [Transactions -> Attachments \union {NONE}]
      /\ lock_data' \in [Transactions -> BOOLEAN] /\ LockMoves(a)
  <2>1. CASE UNCHANGED locks
    BY <1>1, <2>1, DataOfLock DEF TypeOK, LockMoves, locks
  <2>2. CASE /\ "reconnected" \notin r.tra_flags
             /\ lock_owner' = [lock_owner EXCEPT ![t] = NONE]
             /\ lock_data' = [lock_data EXCEPT ![t] = Waiters(t) # {}]
    <3>1. lock_owner[t] = a /\ t \in Transactions
      BY <1>1, <2>2 DEF LockOK, RecordOK, Attachment
    <3>2. (Waiters(t) # {}) \in BOOLEAN
      OBVIOUS
    <3>3. /\ lock_owner' \in [Transactions -> Attachments \union {NONE}]
          /\ lock_data' \in [Transactions -> BOOLEAN]
      BY <1>1, <2>2, <3>2 DEF TypeOK
    <3>4. /\ lock_owner'[t] = NONE
          /\ \A x \in Transactions : x # t => /\ lock_owner'[x] = lock_owner[x]
                                              /\ lock_data'[x] = lock_data[x]
      BY <1>1, <2>2, <3>1 DEF TypeOK
    <3>5. LockMoves(a)
      BY <3>1, <3>4, DataOfLock DEF LockMoves
    <3>. QED  BY <3>3, <3>5
  <2>. QED  BY <2>1, <2>2 DEF TRA_release_transaction
<1>. QED  BY <1>1, <1>2, <1>3, LeaveKeeps DEF TypeOK

\* The lock manager releases what a dead process held.
LEMMA purge_ownerKeeps ==
  ASSUME IInv, NEW a \in Attachments, purge_owner(a)
  PROVE  IInv'
<1>1. /\ TypeOK /\ a # NONE
      /\ UNCHANGED <<tip, tpc, latest_commit_number, next_transaction>>
      /\ att' = [att EXCEPT ![a] = Idle] /\ dead' = dead \ {a}
      /\ tip_latch' = (IF tip_latch = a THEN NONE ELSE tip_latch)
      /\ answers' = [answers EXCEPT ![a] = {}] /\ before' = [before EXCEPT ![a] = {}]
      /\ committing' = [committing EXCEPT ![a] = {}]
  BY Facts, TransactionsAssumption DEF purge_owner
<1>2. /\ lock_owner' = [t \in Transactions |-> IF lock_owner[t] = a THEN NONE ELSE lock_owner[t]]
      /\ lock_data' = [t \in Transactions |->
                         lock_data[t] /\ \/ lock_owner[t] \notin {a, NONE}
                                         \/ Waiters(t) \ {a} # {}]
  BY DEF purge_owner
<1>3. /\ lock_owner' \in [Transactions -> Attachments \union {NONE}]
      /\ lock_data' \in [Transactions -> BOOLEAN]
  BY <1>1, <1>2 DEF TypeOK
<1>4. LockMoves(a)
  BY <1>2, DataOfLock DEF LockMoves
<1>5. /\ tip_latch' \in Attachments \union {NONE} /\ tip_latch' # a
      /\ \A b \in Attachments \ {a} : tip_latch' = b <=> tip_latch = b
  BY <1>1, TransactionsAssumption DEF TypeOK
<1>. QED  BY <1>1, <1>3, <1>4, <1>5, LeaveKeeps

-----------------------------------------------------------------------------
(* The specification.                                                      *)

\* The cache is built from the page.
LEMMA loadInventoryPagesKeeps ==
  ASSUME IInv, loadInventoryPages
  PROVE  IInv'
<1>1. /\ TypeOK /\ dead = {} /\ \A a \in Attachments : att[a].pc = "idle"
      /\ latest_commit_number' = CN_PREHISTORIC
      /\ UNCHANGED <<tip, tip_latch, next_transaction, lock_owner, lock_data, att, dead,
                     before, committing, answers>>
  BY DEF IInv, loadInventoryPages, locks, history
<1> DEFINE word(s) == CASE s = "active" -> CN_ACTIVE [] s = "limbo" -> CN_LIMBO
                        [] s = "dead" -> CN_DEAD [] s = "committed" -> CN_PREHISTORIC
<1>2. ASSUME NEW t \in Transactions
      PROVE  /\ tpc'[t] \in CacheWord /\ Follows(tip[t], tpc'[t])
             /\ tip[t] = "active" => tpc'[t] = CN_ACTIVE
             /\ Committed(tpc'[t]) => tpc'[t] <= CN_PREHISTORIC
  <2>1. tpc'[t] = word(tip[t]) /\ tip[t] \in TipState
    BY <1>1 DEF loadInventoryPages, TypeOK
  <2>2. /\ CN_ACTIVE \in CacheWord /\ CN_LIMBO \in CacheWord /\ CN_DEAD \in CacheWord
        /\ CN_PREHISTORIC \in CacheWord /\ Committed(CN_PREHISTORIC)
        /\ ~Committed(CN_ACTIVE) /\ ~Committed(CN_LIMBO) /\ ~Committed(CN_DEAD)
        /\ CN_LIMBO # CN_ACTIVE /\ CN_PREHISTORIC <= CN_PREHISTORIC
    BY TransactionsAssumption
       DEF CacheWord, CN_ACTIVE, CN_LIMBO, CN_DEAD, CN_PREHISTORIC, Committed
  <2>. QED  BY <2>1, <2>2 DEF TipState, Follows
<1>3. TypeOK'
  <2>1. tpc' \in [Transactions -> CacheWord]
    BY <1>2 DEF loadInventoryPages
  <2>. QED  BY <1>1, <2>1, TransactionsAssumption DEF TypeOK, CN_PREHISTORIC
<1>4. ASSUME NEW a \in Attachments
      PROVE  AttachmentOK(a)'
  <2>1. /\ RecordOK(a) /\ LatchOK(a) /\ LockOK(a) /\ AnswersOK(a) /\ att[a].pc = "idle"
        /\ att[a].tra_number = 0
    BY <1>1, Facts DEF RecordOK
  <2>2. RecordOK(a)' /\ LatchOK(a)' /\ WordOK(a)' /\ LockOK(a)'
    BY <1>1, <2>1 DEF RecordOK, LatchOK, WordOK, LockOK, Ending, Asking
  <2>3. PastOK(a)' /\ AliveOK(a)' /\ AnswersOK(a)'
    BY <1>1, <2>1 DEF PastOK, AliveOK, AnswersOK, Ending, RecordOK
  <2>4. SnapshotOK(a)'
    BY <1>1, <2>1 DEF SnapshotOK, RecordOK, CN_ACTIVE, CN_PREHISTORIC
  <2>. QED  BY <2>2, <2>3, <2>4 DEF AttachmentOK
<1>5. ASSUME NEW t \in Transactions
      PROVE  TransactionOK(t)'
  BY <1>1, <1>2 DEF IInv, TransactionOK
<1>. QED  BY <1>3, <1>4, <1>5 DEF IInv

\* No transaction was started.
LEMMA InitKeeps == Init => IInv
<1>1. SUFFICES ASSUME Init
               PROVE  IInv
  OBVIOUS
<1>2. /\ tip = [t \in Transactions |-> "active"] /\ tip_latch = NONE
      /\ tpc = [t \in Transactions |-> CN_ACTIVE]
      /\ latest_commit_number = CN_PREHISTORIC /\ next_transaction = 0
      /\ lock_owner = [t \in Transactions |-> NONE]
      /\ lock_data = [t \in Transactions |-> FALSE]
      /\ att = [a \in Attachments |-> Idle] /\ dead = {}
      /\ before = [a \in Attachments |-> {}] /\ committing = [a \in Attachments |-> {}]
      /\ answers = [a \in Attachments |-> {}]
  BY <1>1 DEF Init
<1>3. /\ CN_ACTIVE \in CacheWord /\ CN_PREHISTORIC \in CN_PREHISTORIC .. CN_MAX_NUMBER
      /\ ~Committed(CN_ACTIVE) /\ 0 \in 0 .. MaxTransactions
  BY TransactionsAssumption DEF CacheWord, CN_ACTIVE, CN_LIMBO, CN_PREHISTORIC, Committed
<1>4. TypeOK
  BY <1>2, <1>3, IdleRecord DEF TypeOK, TipState
<1>5. \A a \in Attachments : AttachmentOK(a)
  <2>1. SUFFICES ASSUME NEW a \in Attachments
                 PROVE  AttachmentOK(a)
    OBVIOUS
  <2>2. /\ att[a].pc = "idle" /\ att[a].tra_number = 0 /\ att[a].tra_flags = {}
        /\ att[a].tra_snapshot_number = 0 /\ att[a].caller = "none" /\ a # NONE
        /\ before[a] = {} /\ answers[a] = {}
    BY <1>2, TransactionsAssumption DEF Idle, CN_ACTIVE
  <2>3. RecordOK(a)
    BY <1>2, <2>2 DEF RecordOK, Ending, Asking, CN_ACTIVE
  <2>4. LatchOK(a) /\ WordOK(a) /\ LockOK(a) /\ PastOK(a) /\ AliveOK(a)
    BY <1>2, <2>2 DEF LatchOK, WordOK, LockOK, PastOK, AliveOK, Latched
  <2>5. SnapshotOK(a) /\ AnswersOK(a)
    BY <1>2, <2>2 DEF SnapshotOK, AnswersOK, CN_PREHISTORIC
  <2>. QED  BY <2>3, <2>4, <2>5 DEF AttachmentOK
<1>6. \A t \in Transactions : TransactionOK(t)
  BY <1>2, <1>3 DEF TransactionOK, Follows
<1>. QED  BY <1>4, <1>5, <1>6 DEF IInv

\* Every step keeps the invariant.
LEMMA NextKeeps == IInv /\ [Next]_vars => IInv'
<1>1. SUFFICES ASSUME IInv, [Next]_vars
               PROVE  IInv'
  OBVIOUS
<1>2. CASE UNCHANGED vars
  BY <1>1, <1>2
     DEF vars, shared, locks, history, IInv, TypeOK, AttachmentOK, TransactionOK, RecordOK,
         LatchOK, WordOK, LockOK, PastOK, AliveOK, SnapshotOK, AnswersOK
<1>3. ASSUME NEW a \in Attachments, TRA_commit(a) \/ TRA_rollback(a) \/ TRA_prepare(a)
      PROVE  IInv'
  <2>1. /\ At(a, "ready")
        /\ \/ EndAs(a, "committed", {}) \/ EndAs(a, "dead", {})
           \/ EndAs(a, "limbo", {"prepared"})
    BY <1>3 DEF TRA_commit, TRA_rollback, TRA_prepare
  <2>. QED  BY <1>1, <2>1, EndAsKeeps DEF TipState
<1>4. ASSUME NEW a \in Attachments, TRA_snapshot_state(a) \/ TRA_wait(a)
      PROVE  IInv'
  BY <1>1, <1>4, AskKeeps DEF TRA_snapshot_state, TRA_wait
<1>5. ASSUME NEW a \in Attachments,
             \/ transaction_start(a) \/ beginSnapshot(a)
             \/ DetachPrepared(a) \/ TRA_reconnect(a) \/ TRA_release_transaction(a)
             \/ fetch_inventory_page(a) \/ setState(a) \/ StoreCommitNumber(a) \/ WritePage(a)
             \/ WaitFails(a) \/ WaitEnds(a)
             \/ cacheState(a) \/ LCK_read_data(a) \/ TRA_fetch_state(a)
             \/ Crash(a) \/ purge_owner(a)
      PROVE  IInv'
  BY <1>1, <1>5, transaction_startKeeps, beginSnapshotKeeps, DetachPreparedKeeps,
     TRA_reconnectKeeps, TRA_release_transactionKeeps, fetch_inventory_pageKeeps,
     setStateKeeps, StoreCommitNumberKeeps, WritePageKeeps, WaitFailsKeeps, WaitEndsKeeps,
     cacheStateKeeps, LCK_read_dataKeeps, TRA_fetch_stateKeeps, CrashKeeps, purge_ownerKeeps
<1>. QED  BY <1>1, <1>2, <1>3, <1>4, <1>5, loadInventoryPagesKeeps DEF Next

\* So the invariant always holds.
LEMMA InvariantAlways == Spec => []IInv
  BY InitKeeps, NextKeeps, PTL DEF Spec

-----------------------------------------------------------------------------
(* What holds of every execution.                                          *)

\* Transactions, attachments and the cache keep their types: commit numbers stay
\* below their bound, and only numbers of transactions that were started are
\* looked at.
THEOREM TransactionTypes == Spec => []TypeOK
<1>1. IInv => TypeOK
  BY DEF IInv
<1>. QED  BY <1>1, InvariantAlways, PTL

\* The cache of tpc.cpp never contradicts the inventory page, through stale
\* decisions, attachments that end the same transaction in limbo, the death of
\* processes between setState and the release of the page, and restarts.
THEOREM CacheFollowsPageAlways == Spec => []CacheFollowsPage
<1>1. IInv => CacheFollowsPage
  BY DEF IInv, TransactionOK, Follows, CacheFollowsPage
<1>. QED  BY <1>1, InvariantAlways, PTL

\* snapshotState and TRA_wait never mark dead a transaction that is at work: its
\* lock is read after its words in the cache and before the page.
THEOREM NotBuriedAliveAlways == Spec => []NotBuriedAlive
<1>1. IInv => NotBuriedAlive
  BY DEF IInv, AttachmentOK, AliveOK, NotBuriedAlive
<1>. QED  BY <1>1, InvariantAlways, PTL

\* A snapshot sees the commits the cache had when it began, and nothing else but
\* those that had drawn their number and not stored it, however commits, answers
\* and the marking of dead transactions interleave.
THEOREM SnapshotExactAlways == Spec => []SnapshotExact
<1>1. IInv => SnapshotExact
  BY DEF IInv, AttachmentOK, AnswersOK, SnapshotExact
<1>. QED  BY <1>1, InvariantAlways, PTL

\* Whoever calls TRA_set_state, and whatever it knew of the transaction, a state of
\* the page that ends a transaction is never overwritten by another.
THEOREM EndFinalAlways == Spec => EndFinal
<1>1. ASSUME IInv, [Next]_vars, NEW t \in Transactions, tip[t] \in {"committed", "dead"}
      PROVE  tip'[t] = tip[t]
  <2>1. ASSUME NEW a \in Attachments, WritePage(a)
        PROVE  tip'[t] = tip[t]
    <3>1. /\ TypeOK /\ RecordOK(a) /\ WordOK(a) /\ att[a] \in Attachment /\ att[a].pc = "write"
      BY <2>1, <1>1, Facts DEF WritePage, At
    <3>2. Follows(tip[t], tpc[t])
      BY <1>1 DEF IInv, TransactionOK
    <3>3. ASSUME t = att[a].number
          PROVE  att[a].state = tip[t]
      <4>1. /\ Follows(att[a].state, tpc[t]) /\ (att[a].state = "limbo" => tpc[t] = CN_LIMBO)
            /\ att[a].state \in {"limbo", "dead", "committed"}
        BY <3>1, <3>3 DEF WordOK, RecordOK, Ending, Attachment, TipState
      <4>2. ~Committed(CN_DEAD) /\ ~Committed(CN_LIMBO) /\ CN_DEAD # CN_LIMBO
        BY TransactionsAssumption DEF Committed, CN_DEAD, CN_LIMBO
      <4>. QED  BY <1>1, <3>2, <4>1, <4>2 DEF Follows
    <3>. QED  BY <1>1, <2>1, <3>1, <3>3 DEF WritePage, TypeOK
  <2>2. ASSUME NEW a \in Attachments,
               \/ transaction_start(a) \/ beginSnapshot(a)
               \/ TRA_commit(a) \/ TRA_rollback(a) \/ TRA_prepare(a)
               \/ DetachPrepared(a) \/ TRA_reconnect(a) \/ TRA_release_transaction(a)
        PROVE  tip' = tip
    BY <2>2
       DEF transaction_start, beginSnapshot, TRA_commit, TRA_rollback, TRA_prepare, EndAs,
           DetachPrepared, TRA_reconnect, TRA_release_transaction, shared
  <2>3. ASSUME NEW a \in Attachments,
               \/ fetch_inventory_page(a) \/ setState(a) \/ StoreCommitNumber(a)
               \/ TRA_snapshot_state(a) \/ TRA_wait(a) \/ WaitFails(a) \/ WaitEnds(a)
        PROVE  tip' = tip
    BY <2>3
       DEF fetch_inventory_page, setState, StoreCommitNumber, TRA_snapshot_state, TRA_wait,
           Ask, WaitFails, WaitEnds, shared
  <2>4. ASSUME NEW a \in Attachments,
               \/ cacheState(a) \/ LCK_read_data(a) \/ TRA_fetch_state(a)
               \/ Crash(a) \/ purge_owner(a)
        PROVE  tip' = tip
    BY <2>4 DEF cacheState, LCK_read_data, TRA_fetch_state, Crash, purge_owner, shared
  <2>5. CASE loadInventoryPages \/ UNCHANGED vars
    BY <2>5 DEF loadInventoryPages, vars, shared
  <2>. QED  BY <1>1, <2>1, <2>2, <2>3, <2>4, <2>5 DEF Next
<1>2. IInv /\ [Next]_vars =>
        [\A t \in Transactions : tip[t] \in {"committed", "dead"} => tip'[t] = tip[t]]_vars
  BY <1>1
<1>. QED  BY <1>2, InvariantAlways, PTL DEF Spec, EndFinal

=============================================================================
