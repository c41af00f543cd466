--------------------------- MODULE SnapshotListProofs -----------------------
(***************************************************************************)
(* The four invariants of SnapshotList, for any attachments, any of which  *)
(* may be killed at any store, and any number of slots.                    *)
(*                                                                         *)
(* The inductive invariant says what an attachment inside beginSnapshot,   *)
(* endSnapshot or updateActiveSnapshots knows of the slot it works on: the *)
(* mutex keeps it true while stores are made, and while a collector reads  *)
(* without the mutex it only relies on slots that do not change.           *)
(***************************************************************************)
EXTENDS SnapshotList, WellFoundedInduction, TLAPS

UserSteps ==
    {"rest", "load", "store", "publish", "watermark", "held", "clear", "free",
     "shrink", "count"}
CollectorSteps ==
    {"rest", "releases", "used", "scan", "probe", "read", "guard", "clear", "free",
     "shrink"}

\* Steps at which the mutex is held.
Allocating == {"load", "store", "publish", "watermark"}
Freeing == {"clear", "free", "shrink"}
Exclusive == Allocating \union Freeing \union {"count"}

\* Every attachment is at a step of its routines; the dead do nothing more.
ControlOK ==
    /\ DOMAIN pc = Attachments
    /\ \A a \in Users : pc[a] \in UserSteps
    /\ \A c \in Collectors : pc[c] \in CollectorSteps
    /\ \A a \in dead : pc[a] = "rest"

\* Stores are made under the mutex, and a release is counted below its bound.
MutexOK ==
    /\ \A a \in Attachments : pc[a] \in Exclusive => mutex = a
    /\ \A a \in Users :
         pc[a] \in Freeing \union {"count"} => snapshot_release_count < MaxReleases

\* The slot being taken is the first free one, until its attachment is stored.
Taken(a) ==
    /\ pc[a] \in Allocating =>
        /\ slot[a] \in Slots
        /\ slot[a] < slots_used
        /\ \A i \in Slots : i < slot[a] => slots[i].attachment_id # NONE
    /\ pc[a] \in {"load", "store", "publish"} => slots[slot[a]].attachment_id = NONE

\* A slot that carries a living user is its own, with the number it has loaded.
Owned(a) ==
    /\ pc[a] \in {"watermark", "held", "clear", "free"} =>
        slot[a] \in Slots /\ slots[slot[a]].attachment_id = a
    /\ pc[a] \in {"store", "publish", "watermark", "held"} => number[a] \in CommitNumbers
    /\ pc[a] \in {"publish", "watermark", "held"} => slots[slot[a]].snapshot = number[a]
    /\ pc[a] \notin {"store", "publish", "watermark", "held"} => number[a] = CN_ACTIVE

\* A slot being freed lies at or past the watermark, and is free at the end.
Freed(a) ==
    /\ pc[a] \in Freeing => slot[a] \in Slots
    /\ pc[a] \in {"clear", "free"} => min_free_slot <= slot[a]
    /\ pc[a] = "shrink" => slots[slot[a]].attachment_id = NONE

\* A collector works on a slot it has to read, and frees none but that of an
\* attachment it has found to be dead.
Looking == {"probe", "read", "guard"}

Scanning(c) ==
    /\ pc[c] \in Looking \union Freeing => slot[c] < scan[c].slots_used_org
    /\ pc[c] \in Looking => scan[c].attachment_id \in Attachments
    /\ pc[c] \in {"guard", "clear", "free"} => scan[c].attachment_id \in dead
    /\ pc[c] \in {"clear", "free"} => slots[slot[c]].attachment_id = scan[c].attachment_id
    /\ \A a \in Attachments : scan[c].att_states[a] = "dead" => a \in dead

\* A snapshot older than the last commit of an update was in its slot when the
\* update began, unless it was caught before.  It keeps the slot, which lies below
\* the point where the update stops, and its number is copied when the slot is read.
Reads == {"scan"} \union Looking \union Freeing

Needed(c) ==
    {a \in Users : number[a] # CN_ACTIVE /\ a \notin caught[c]
                    /\ number[a] < list[c].m_lastCommit}

Copied(c, a) ==
    /\ a \notin dead /\ pc[a] \in {"watermark", "held"}
    /\ pc[c] \in Reads \/ (pc[c] = "releases" /\ scan[c].path = "fast") =>
        slot[a] < scan[c].slots_used_org
    /\ pc[c] \in Looking /\ slot[c] = slot[a] => scan[c].attachment_id = a
    /\ pc[c] \in Reads /\ slot[a] < slot[c] => number[a] \in list[c].m_snapshots
    /\ pc[c] = "rest" /\ c \notin dead /\ scan[c].path # "return" =>
        number[a] \in list[c].m_snapshots

TakenOK == \A a \in Users : Taken(a)
OwnedOK == \A a \in Users : Owned(a)
FreedOK == \A a \in Attachments : Freed(a)
ScanOK == \A c \in Collectors : Scanning(c)
NeededOK ==
    \A c \in Collectors : /\ list[c].m_lastCommit <= latest_commit_number
                          /\ \A a \in Needed(c) : Copied(c, a)

IInv ==
    /\ TypeOK /\ ControlOK /\ MutexOK /\ TakenOK /\ OwnedOK /\ FreedOK /\ ScanOK
    /\ NeededOK /\ ListConsistent

USE SnapshotListAssumption
    DEF IInv, At, Goto, Attachments, UserSteps, CollectorSteps, Allocating, Freeing,
        Exclusive, Looking, Reads

---------------------------------------------------------------------------
(* The slot beginSnapshot takes, and the point where readers stop.         *)

\* A set of naturals that is not empty has a least element.
LEMMA LeastNatural ==
  ASSUME NEW S \in SUBSET Nat, S # {}
  PROVE  \E m \in S : \A k \in S : m <= k
<1>1. PICK m \in S : \A k \in S : <<k, m>> \notin OpToRel(<, Nat)
  BY WFMin, NatLessThanWellFounded
<1>2. \A k \in S : ~(k < m)
  BY <1>1 DEF OpToRel
<1> QED BY <1>2

\* A set of naturals below some n that is not empty has a greatest element.
LEMMA GreatestBelow ==
  ASSUME NEW n \in Nat, NEW S \in SUBSET (0 .. n), S # {}
  PROVE  \E m \in S : \A k \in S : k <= m
<1> DEFINE T == {n - k : k \in S}
<1>1. T \in SUBSET Nat /\ T # {}
  <2>1. \A k \in S : n - k \in Nat
    OBVIOUS
  <2> QED BY <2>1
<1>2. PICK t \in T : \A u \in T : t <= u
  BY <1>1, LeastNatural
<1>3. PICK m \in S : t = n - m
  BY <1>2
<1>4. ASSUME NEW k \in S
      PROVE  k <= m
  <2>1. n - k \in T
    OBVIOUS
  <2>2. n - m <= n - k
    BY <1>2, <1>3, <2>1
  <2> QED BY <2>2
<1> QED BY <1>4

\* beginSnapshot takes the first free slot.
LEMMA FreeSlotFirst ==
  ASSUME TypeOK, ListConsistent
  PROVE  /\ FreeSlot \in Nat
         /\ FreeSlot \in Slots => slots[FreeSlot].attachment_id = NONE
         /\ \A i \in Slots : i < FreeSlot => slots[i].attachment_id # NONE
<1> DEFINE free == {i \in min_free_slot .. slots_used - 1 : slots[i].attachment_id = NONE}
<1>1. min_free_slot \in Nat /\ slots_used \in Nat
  BY SnapshotListAssumption DEF TypeOK
<1>2. CASE free # {}
  <2>1. free \in SUBSET Nat
    BY <1>1
  <2>2. \E m \in free : \A k \in free : m <= k
    BY <1>2, <2>1, LeastNatural
  <2>3. FreeSlot = CHOOSE i \in free : \A j \in free : i <= j
    BY <1>2 DEF FreeSlot
  <2>4. FreeSlot \in free /\ \A j \in free : FreeSlot <= j
    BY <2>2, <2>3
  <2>5. ASSUME NEW i \in Slots, i < FreeSlot
        PROVE  slots[i].attachment_id # NONE
    <3>1. i \in Int /\ FreeSlot \in min_free_slot .. slots_used - 1
      BY <2>4 DEF Slots
    <3>2. i >= min_free_slot => i \in min_free_slot .. slots_used - 1
      BY <1>1, <2>5, <3>1
    <3>3. i \notin free
      BY <1>1, <2>4, <2>5, <3>1
    <3> QED BY <1>1, <3>1, <3>2, <3>3 DEF ListConsistent
  <2> QED BY <1>1, <2>1, <2>4, <2>5
<1>3. CASE free = {}
  <2>1. FreeSlot = IF min_free_slot > slots_used THEN min_free_slot ELSE slots_used
    BY <1>3 DEF FreeSlot
  <2>2. FreeSlot \in Slots => slots[FreeSlot].attachment_id = NONE
    BY <1>1, <2>1 DEF ListConsistent
  <2>3. ASSUME NEW i \in Slots, i < FreeSlot
        PROVE  slots[i].attachment_id # NONE
    <3>1. i \in Int /\ i >= 0
      BY DEF Slots
    <3>2. i \notin min_free_slot .. slots_used - 1 \/ slots[i].attachment_id # NONE
      BY <1>3
    <3> QED BY <1>1, <2>1, <2>3, <3>1, <3>2 DEF ListConsistent
  <2> QED BY <1>1, <2>1, <2>2, <2>3
<1> QED BY <1>2, <1>3

\* No slot in use is left between the new slots_used and slot i.
LEMMA UsedBelowLast ==
  ASSUME TypeOK, NEW i \in Slots
  PROVE  /\ UsedBelow(i) \in 0 .. i
         /\ \A j \in Slots : UsedBelow(i) <= j /\ j < i => slots[j].attachment_id = NONE
<1> DEFINE used == {j \in 0 .. i - 1 : slots[j].attachment_id # NONE}
<1>1. i \in Nat
  BY SnapshotListAssumption DEF Slots
<1>2. CASE used = {}
  <2>1. UsedBelow(i) = 0
    BY <1>2 DEF UsedBelow
  <2>2. ASSUME NEW j \in Slots, j < i
        PROVE  slots[j].attachment_id = NONE
    <3>1. j \in 0 .. i - 1
      BY <1>1, <2>2 DEF Slots
    <3> QED BY <1>2, <3>1
  <2> QED BY <1>1, <2>1, <2>2
<1>3. CASE used # {}
  <2> DEFINE m == CHOOSE j \in used : \A k \in used : k <= j
  <2>1. used \in SUBSET (0 .. i)
    BY <1>1
  <2>2. \E j \in used : \A k \in used : k <= j
    BY <1>1, <1>3, <2>1, GreatestBelow
  <2>3. m \in used /\ \A k \in used : k <= m
    BY <2>2
  <2>4. UsedBelow(i) = 1 + m
    BY <1>3 DEF UsedBelow
  <2> HIDE DEF m
  <2>5. ASSUME NEW j \in Slots, 1 + m <= j, j < i
        PROVE  slots[j].attachment_id = NONE
    <3>1. j \in 0 .. i - 1 /\ j \in Int /\ m \in Int
      BY <1>1, <2>3, <2>5 DEF Slots
    <3>2. j \notin used
      BY <2>3, <2>5, <3>1
    <3> QED BY <3>1, <3>2
  <2> QED BY <1>1, <2>3, <2>4, <2>5
<1> QED BY <1>2, <1>3

---------------------------------------------------------------------------
(* One attachment moves; what is said of the others does not change.       *)

\* Only attachment a moves.
OnlyMoves(a) ==
    /\ pc' \in [Attachments -> UserSteps \union CollectorSteps]
    /\ \A b \in Attachments \ {a} :
        pc'[b] = pc[b] /\ slot'[b] = slot[b] /\ number'[b] = number[b]

\* A user whose snapshot is not in its slot yet, or is over, is not relied upon: the
\* number it loads is not below what a collector loaded before.
LEMMA UserKeepsNeeded ==
  ASSUME IInv, NEW a \in Users, OnlyMoves(a),
         UNCHANGED <<latest_commit_number, list, scan, dead>>,
         \/ UNCHANGED <<number, caught>> /\ pc[a] \notin {"watermark", "held"}
         \/ UNCHANGED caught /\ number'[a] = latest_commit_number
         \/ Forget(a) /\ number'[a] = CN_ACTIVE
  PROVE  NeededOK'
<1>1. ASSUME NEW c \in Collectors, NEW b \in Needed(c)'
      PROVE  Copied(c, b)'
  <2>1. /\ b \in Users /\ number'[b] # CN_ACTIVE /\ b \notin caught'[c]
        /\ number'[b] < list[c].m_lastCommit
    BY <1>1 DEF Needed
  <2>2. b # a
    <3> SUFFICES ASSUME b = a
                 PROVE  FALSE
      OBVIOUS
    <3>1. CASE UNCHANGED <<number, caught>> /\ pc[a] \notin {"watermark", "held"}
      <4>1. a \in Needed(c)
        BY <2>1, <3>1 DEF Needed
      <4> QED BY <3>1, <4>1 DEF NeededOK, Copied
    <3>2. CASE UNCHANGED caught /\ number'[a] = latest_commit_number
      <4>1. list[c].m_lastCommit <= latest_commit_number
        BY DEF NeededOK
      <4>2. list[c].m_lastCommit \in Int /\ latest_commit_number \in Int
        BY DEF TypeOK, ActiveSnapshots, CommitNumbers, CN_PREHISTORIC, CN_ACTIVE
      <4> QED BY <2>1, <3>2, <4>1, <4>2
    <3> QED BY <2>1, <3>1, <3>2
  <2>3. b \notin caught[c] /\ number'[b] = number[b]
    BY <1>1, <2>1, <2>2 DEF Forget, OnlyMoves
  <2>4. b \in Needed(c) /\ Copied(c, b)
    BY <2>1, <2>3 DEF Needed, NeededOK
  <2>5. b \in Attachments \ {a} /\ c \in Attachments \ {a}
    BY <2>1, <2>2
  <2> QED BY <2>3, <2>4, <2>5 DEF OnlyMoves, Copied
<1>2. \A c \in Collectors : list[c].m_lastCommit <= latest_commit_number
  BY DEF NeededOK
<1> QED BY <1>1, <1>2 DEF NeededOK

\* A living collector goes on in its routine.
LEMMA CollectorKeepsControl ==
  ASSUME IInv, NEW a \in Collectors \ dead, OnlyMoves(a), UNCHANGED dead,
         pc'[a] \in CollectorSteps
  PROVE  ControlOK'
<1>1. DOMAIN pc' = Attachments
  BY DEF OnlyMoves
<1>2. \A b \in Users : pc'[b] \in UserSteps
  BY DEF OnlyMoves, ControlOK
<1>3. \A c \in Collectors : pc'[c] \in CollectorSteps
  BY DEF OnlyMoves, ControlOK
<1>4. \A b \in dead : pc'[b] = "rest"
  BY DEF OnlyMoves, ControlOK, TypeOK
<1> QED BY <1>1, <1>2, <1>3, <1>4 DEF ControlOK

\* A collector does not change what another one relies upon.
LEMMA OthersKeepNeeded ==
  ASSUME IInv, NEW a \in Collectors, OnlyMoves(a),
         UNCHANGED <<latest_commit_number, dead>>,
         \A c \in Collectors \ {a} :
            list'[c] = list[c] /\ scan'[c] = scan[c] /\ caught'[c] = caught[c],
         list'[a].m_lastCommit <= latest_commit_number,
         \A b \in Needed(a)' : Copied(a, b)'
  PROVE  NeededOK'
<1>1. ASSUME NEW c \in Collectors \ {a}, NEW b \in Needed(c)'
      PROVE  Copied(c, b)'
  <2>1. b \in Attachments \ {a} /\ c \in Attachments \ {a}
    BY <1>1 DEF Needed
  <2>2. b \in Needed(c)
    BY <1>1, <2>1 DEF Needed, OnlyMoves
  <2>3. Copied(c, b)
    BY <2>2 DEF NeededOK
  <2> QED BY <2>1, <2>3 DEF OnlyMoves, Copied
<1>2. \A c \in Collectors : list'[c].m_lastCommit <= latest_commit_number
  BY DEF NeededOK
<1> QED BY <1>1, <1>2 DEF NeededOK

\* Nor does one within an update, if it keeps to what it has found itself.
LEMMA CollectorKeepsNeeded ==
  ASSUME IInv, NEW a \in Collectors, OnlyMoves(a),
         UNCHANGED <<latest_commit_number, caught, dead>>,
         \A c \in Collectors \ {a} : list'[c] = list[c] /\ scan'[c] = scan[c],
         list'[a].m_lastCommit = list[a].m_lastCommit,
         \A b \in Needed(a) : Copied(a, b)'
  PROVE  NeededOK'
<1>1. ASSUME NEW b \in Needed(a)'
      PROVE  Copied(a, b)'
  <2>1. b \in Attachments \ {a}
    BY <1>1 DEF Needed
  <2>2. b \in Needed(a)
    BY <1>1, <2>1 DEF Needed, OnlyMoves
  <2> QED BY <2>2
<1>2. list'[a].m_lastCommit <= latest_commit_number
  BY DEF NeededOK
<1> QED BY <1>1, <1>2, OthersKeepNeeded

---------------------------------------------------------------------------
(* The copy of a collector, field by field.                                *)

\* Nothing has been read yet.
LEMMA NothingRead ==
  /\ NoScan \in Scan /\ NoList \in ActiveSnapshots
  /\ \A a \in Attachments : NoScan.att_states[a] = "unknown"
BY DEF NoScan, Scan, NoList, ActiveSnapshots

\* beginSnapshot locks the mutex and takes the first free slot.
LEMMA allocateSnapshotSlotKeeps ==
  ASSUME IInv, NEW a \in Attachments, allocateSnapshotSlot(a)
  PROVE  IInv'
<1>m. \A b \in Attachments : pc[b] \notin Exclusive
  BY DEF allocateSnapshotSlot, MutexOK
<1>u. a \in Users /\ OnlyMoves(a)
  BY DEF allocateSnapshotSlot, OnlyMoves, TypeOK, ControlOK
<1>f. FreeSlot \in Slots /\ FreeSlot >= 0
  BY FreeSlotFirst DEF allocateSnapshotSlot, Slots
<1>1. TypeOK'
  BY <1>f DEF allocateSnapshotSlot, TypeOK, copy, Slots
<1>2. ControlOK'
  BY DEF allocateSnapshotSlot, ControlOK
<1>3. MutexOK'
  BY DEF allocateSnapshotSlot, MutexOK
<1>4. TakenOK'
  <2>1. \A b \in Users : pc[b] \notin Allocating
    BY DEF MutexOK, allocateSnapshotSlot
  <2>2. Taken(a)'
    BY <1>u, <1>f, FreeSlotFirst DEF Taken, TypeOK, allocateSnapshotSlot, Slots
  <2> QED BY <2>1, <2>2 DEF TakenOK, Taken, TypeOK, ControlOK, allocateSnapshotSlot
<1>5. OwnedOK'
  BY DEF allocateSnapshotSlot, Owned, OwnedOK
<1>6. FreedOK'
  BY DEF allocateSnapshotSlot, Freed, FreedOK
<1>7. ScanOK'
  BY DEF allocateSnapshotSlot, Scanning, ScanOK, copy
<1>8. NeededOK'
  BY <1>u, UserKeepsNeeded DEF allocateSnapshotSlot, copy
<1>9. ListConsistent'
  BY <1>f DEF ListConsistent, TypeOK, Slots, allocateSnapshotSlot
<1> QED BY <1>1, <1>2, <1>3, <1>4, <1>5, <1>6, <1>7, <1>8, <1>9 DEF IInv

\* beginSnapshot loads the commit number its snapshot is taken at.
LEMMA LoadCommitNumberKeeps ==
  ASSUME IInv, NEW a \in Attachments, LoadCommitNumber(a)
  PROVE  IInv'
<1>m. \A b \in Attachments \ {a} : pc[b] \notin Exclusive
  BY DEF LoadCommitNumber, MutexOK
<1>u. a \in Users /\ OnlyMoves(a)
  BY DEF LoadCommitNumber, OnlyMoves, TypeOK, ControlOK
<1>1. TypeOK'
  BY DEF LoadCommitNumber, TypeOK, shared, copy
<1>2. ControlOK'
  BY DEF LoadCommitNumber, ControlOK
<1>3. MutexOK'
  BY DEF LoadCommitNumber, MutexOK
<1>4. TakenOK'
  BY <1>u, <1>m DEF LoadCommitNumber, TakenOK, Taken, shared
<1>5. OwnedOK'
  <2>1. Owned(a)'
    BY <1>u DEF LoadCommitNumber, OwnedOK, Owned, TypeOK, ControlOK, shared
  <2>2. ASSUME NEW b \in Users \ {a}
        PROVE  Owned(b)'
    BY <1>u DEF LoadCommitNumber, OnlyMoves, OwnedOK, Owned, shared
  <2> QED BY <2>1, <2>2 DEF OwnedOK
<1>6. FreedOK'
  BY <1>u, <1>m DEF LoadCommitNumber, FreedOK, Freed
<1>7. ScanOK'
  BY <1>u, <1>m DEF LoadCommitNumber, ScanOK, Scanning, copy
<1>8. NeededOK'
  BY <1>u, UserKeepsNeeded DEF LoadCommitNumber, TypeOK, shared, copy
<1>9. ListConsistent'
  BY DEF LoadCommitNumber, ListConsistent, shared
<1> QED BY <1>1, <1>2, <1>3, <1>4, <1>5, <1>6, <1>7, <1>8, <1>9 DEF IInv

\* beginSnapshot stores its number in the slot, which has no attachment yet.
LEMMA StoreSnapshotKeeps ==
  ASSUME IInv, NEW a \in Attachments, StoreSnapshot(a)
  PROVE  IInv'
<1>m. \A b \in Attachments \ {a} : pc[b] \notin Exclusive
  BY DEF StoreSnapshot, MutexOK
<1>u. a \in Users /\ OnlyMoves(a)
  BY DEF StoreSnapshot, OnlyMoves, ControlOK, own
<1>f. slot[a] \in Slots
  BY <1>u DEF StoreSnapshot, TakenOK, Taken
<1>1. TypeOK'
  BY <1>u, <1>f DEF StoreSnapshot, TypeOK, own, copy
<1>2. ControlOK'
  BY DEF StoreSnapshot, ControlOK
<1>3. MutexOK'
  BY DEF StoreSnapshot, MutexOK
<1>4. TakenOK'
  BY DEF StoreSnapshot, Taken, TakenOK, own
<1>5. OwnedOK'
  <2>1. slots[slot[a]].attachment_id = NONE /\ number[a] \in CommitNumbers
    BY <1>u DEF StoreSnapshot, TakenOK, Taken, OwnedOK, Owned
  <2>2. Owned(a)'
    BY <1>u, <1>f, <2>1 DEF StoreSnapshot, Owned, TypeOK, ControlOK, own
  <2>3. ASSUME NEW b \in Users \ {a}
        PROVE  Owned(b)'
    BY <1>m, <1>f, <2>1 DEF StoreSnapshot, OwnedOK, Owned, TypeOK, ControlOK, own
  <2> QED BY <2>2, <2>3 DEF OwnedOK
<1>6. FreedOK'
  BY DEF StoreSnapshot, Freed, FreedOK, own
<1>7. ScanOK'
  BY DEF StoreSnapshot, Scanning, ScanOK, own, copy
<1>8. NeededOK'
  BY <1>u, UserKeepsNeeded DEF StoreSnapshot, copy, own
<1>9. ListConsistent'
  BY DEF StoreSnapshot, ListConsistent
<1> QED BY <1>1, <1>2, <1>3, <1>4, <1>5, <1>6, <1>7, <1>8, <1>9 DEF IInv

\* beginSnapshot stores its attachment: from now on the slot is read.
LEMMA StoreAttachmentKeeps ==
  ASSUME IInv, NEW a \in Attachments, StoreAttachment(a)
  PROVE  IInv'
<1>m. \A b \in Attachments \ {a} : pc[b] \notin Exclusive
  BY DEF StoreAttachment, MutexOK
<1>u. a \in Users /\ OnlyMoves(a)
  BY DEF StoreAttachment, OnlyMoves, ControlOK, own
<1>f. slot[a] \in Slots
  BY <1>u DEF StoreAttachment, TakenOK, Taken
<1>1. TypeOK'
  BY <1>u, <1>f DEF StoreAttachment, TypeOK, own, copy
<1>2. ControlOK'
  BY DEF StoreAttachment, ControlOK
<1>3. MutexOK'
  BY DEF StoreAttachment, MutexOK
<1>4. TakenOK'
  BY <1>u, <1>m, <1>f DEF StoreAttachment, TakenOK, Taken, ControlOK, own
<1>5. OwnedOK'
  <2>1. slots[slot[a]].attachment_id = NONE
    BY <1>u DEF StoreAttachment, TakenOK, Taken
  <2>2. Owned(a)'
    BY <1>u, <1>f DEF StoreAttachment, OwnedOK, Owned, TypeOK, ControlOK, own
  <2>3. ASSUME NEW b \in Users \ {a}
        PROVE  Owned(b)'
    BY <1>m, <1>f, <2>1 DEF StoreAttachment, OwnedOK, Owned, TypeOK, ControlOK, own
  <2> QED BY <2>2, <2>3 DEF OwnedOK
<1>6. FreedOK'
  BY <1>u, <1>m DEF StoreAttachment, FreedOK, Freed
<1>7. ScanOK'
  BY <1>u, <1>m DEF StoreAttachment, ScanOK, Scanning, own, copy
<1>8. NeededOK'
  BY <1>u, UserKeepsNeeded DEF StoreAttachment, copy, own
<1>9. ListConsistent'
  <2>1. slot[a] < slots_used
    BY <1>u DEF StoreAttachment, TakenOK, Taken
  <2> QED BY <1>f, <2>1 DEF StoreAttachment, ListConsistent, TypeOK, own
<1> QED BY <1>1, <1>2, <1>3, <1>4, <1>5, <1>6, <1>7, <1>8, <1>9 DEF IInv

\* beginSnapshot moves the watermark past its slot, and its snapshot is complete.
LEMMA MoveWatermarkKeeps ==
  ASSUME IInv, NEW a \in Attachments, MoveWatermark(a)
  PROVE  IInv'
<1>m. \A b \in Attachments \ {a} : pc[b] \notin Exclusive
  BY DEF MoveWatermark, MutexOK
<1>u. a \in Users /\ OnlyMoves(a)
  BY DEF MoveWatermark, OnlyMoves, ControlOK, own
<1>f. slot[a] \in Slots
  BY <1>u DEF MoveWatermark, TakenOK, Taken
<1>1. TypeOK'
  BY <1>u, <1>f DEF MoveWatermark, TypeOK, own, copy, Slots
<1>2. ControlOK'
  BY DEF MoveWatermark, ControlOK
<1>3. MutexOK'
  BY DEF MoveWatermark, MutexOK, ControlOK
<1>4. TakenOK'
  BY DEF MoveWatermark, Taken, TakenOK, own
<1>5. OwnedOK'
  BY DEF MoveWatermark, Owned, OwnedOK, own
<1>6. FreedOK'
  BY <1>u, <1>m DEF MoveWatermark, FreedOK, Freed
<1>7. ScanOK'
  BY DEF MoveWatermark, Scanning, ScanOK, own, copy
<1>8. NeededOK'
  <2> SUFFICES ASSUME NEW c \in Collectors, NEW b \in Needed(c)'
               PROVE  Copied(c, b)'
    BY DEF MoveWatermark, NeededOK, copy
  <2>1. b \in Needed(c) /\ Copied(c, b) /\ b \in Users
    BY DEF MoveWatermark, NeededOK, Needed, own, copy
  <2> QED BY <1>u, <2>1 DEF MoveWatermark, OnlyMoves, Copied, own, copy
<1>9. ListConsistent'
  <2>1. \A i \in Slots : i < slot[a] => slots[i].attachment_id # NONE
    BY <1>u DEF MoveWatermark, TakenOK, Taken
  <2>2. slots[slot[a]].attachment_id # NONE
    BY <1>u DEF MoveWatermark, OwnedOK, Owned
  <2>3. ASSUME NEW i \in Slots, i < slot[a] + 1
        PROVE  slots[i].attachment_id # NONE
    BY <1>f, <2>1, <2>2, <2>3 DEF Slots
  <2> QED BY <1>f, <2>3 DEF MoveWatermark, ListConsistent, TypeOK, Slots
<1> QED BY <1>1, <1>2, <1>3, <1>4, <1>5, <1>6, <1>7, <1>8, <1>9 DEF IInv

\* endSnapshot locks the mutex and lowers the watermark: no collector relies upon
\* the snapshot any longer.
LEMMA endSnapshotKeeps ==
  ASSUME IInv, NEW a \in Attachments, endSnapshot(a)
  PROVE  IInv'
<1>m. \A b \in Attachments : pc[b] \notin Exclusive
  BY DEF endSnapshot, MutexOK
<1>u. a \in Users /\ OnlyMoves(a)
  BY DEF endSnapshot, OnlyMoves, TypeOK, ControlOK
<1>f. slot[a] \in Slots
  BY <1>u DEF endSnapshot, OwnedOK, Owned
<1>1. TypeOK'
  BY <1>u, <1>f DEF endSnapshot, Forget, TypeOK, Slots, Lowered
<1>2. ControlOK'
  BY DEF endSnapshot, ControlOK
<1>3. MutexOK'
  BY DEF endSnapshot, MutexOK
<1>4. TakenOK'
  BY DEF endSnapshot, Taken, TakenOK
<1>5. OwnedOK'
  <2>1. Owned(a)'
    BY <1>u DEF endSnapshot, OwnedOK, Owned, TypeOK, ControlOK
  <2>2. ASSUME NEW b \in Users \ {a}
        PROVE  Owned(b)'
    BY <1>u DEF endSnapshot, OnlyMoves, OwnedOK, Owned
  <2> QED BY <2>1, <2>2 DEF OwnedOK
<1>6. FreedOK'
  <2>1. Freed(a)'
    BY <1>f DEF endSnapshot, Freed, TypeOK, ControlOK, Lowered, Slots
  <2> QED BY <1>m, <2>1 DEF endSnapshot, FreedOK, Freed, TypeOK, ControlOK
<1>7. ScanOK'
  BY DEF endSnapshot, Scanning, ScanOK
<1>8. NeededOK'
  BY <1>u, UserKeepsNeeded DEF endSnapshot, TypeOK
<1>9. ListConsistent'
  BY <1>f DEF endSnapshot, ListConsistent, TypeOK, Lowered, Slots
<1> QED BY <1>1, <1>2, <1>3, <1>4, <1>5, <1>6, <1>7, <1>8, <1>9 DEF IInv

\* The number of a slot that is being freed is cleared.
LEMMA ClearSnapshotKeeps ==
  ASSUME IInv, NEW a \in Attachments, ClearSnapshot(a)
  PROVE  IInv'
<1>m. \A b \in Attachments \ {a} : pc[b] \notin Exclusive
  BY DEF ClearSnapshot, MutexOK
<1>f. slot[a] \in Slots
  BY DEF ClearSnapshot, FreedOK, Freed
<1>1. TypeOK'
  BY <1>f DEF ClearSnapshot, TypeOK, own, copy
<1>2. ControlOK'
  BY DEF ClearSnapshot, ControlOK
<1>3. MutexOK'
  BY DEF ClearSnapshot, MutexOK
<1>4. TakenOK'
  BY DEF ClearSnapshot, Taken, TakenOK, own
<1>5. OwnedOK'
  <2>1. Owned(a)' \/ a \notin Users
    BY <1>f DEF ClearSnapshot, OwnedOK, Owned, TypeOK, ControlOK, own
  <2>2. slots[slot[a]].attachment_id \in dead \union {a}
    BY DEF ClearSnapshot, OwnedOK, Owned, ScanOK, Scanning, ControlOK
  <2>3. ASSUME NEW b \in Users \ {a}
        PROVE  Owned(b)'
    BY <1>m, <1>f, <2>2 DEF ClearSnapshot, OwnedOK, Owned, TypeOK, ControlOK, own
  <2> QED BY <2>1, <2>3 DEF OwnedOK
<1>6. FreedOK'
  BY DEF ClearSnapshot, Freed, FreedOK, own
<1>7. ScanOK'
  BY DEF ClearSnapshot, Scanning, ScanOK, own, copy
<1>8. NeededOK'
  <2>1. OnlyMoves(a)
    BY DEF ClearSnapshot, OnlyMoves, TypeOK, ControlOK, own
  <2>2. CASE a \in Users
    BY <2>1, <2>2, UserKeepsNeeded DEF ClearSnapshot, TypeOK, own, copy
  <2>3. CASE a \in Collectors
    <3> SUFFICES ASSUME NEW b \in Needed(a)
                 PROVE  Copied(a, b)'
      BY <2>1, <2>3, CollectorKeepsNeeded DEF ClearSnapshot, copy
    <3>1. Copied(a, b) /\ b # a /\ b \in Users
      BY <2>1, <2>3 DEF NeededOK, Needed, TypeOK
    <3> QED BY <2>3, <3>1 DEF ClearSnapshot, Copied, TypeOK, ControlOK, own, copy
  <2> QED BY <2>2, <2>3
<1>9. ListConsistent'
  BY DEF ClearSnapshot, ListConsistent
<1> QED BY <1>1, <1>2, <1>3, <1>4, <1>5, <1>6, <1>7, <1>8, <1>9 DEF IInv

\* The attachment of a slot that is being freed is cleared.
LEMMA ClearAttachmentKeeps ==
  ASSUME IInv, NEW a \in Attachments, ClearAttachment(a)
  PROVE  IInv'
<1>m. \A b \in Attachments \ {a} : pc[b] \notin Exclusive
  BY DEF ClearAttachment, MutexOK
<1>f. slot[a] \in Slots
  BY DEF ClearAttachment, FreedOK, Freed
<1>1. TypeOK'
  BY <1>f DEF ClearAttachment, TypeOK, own, copy
<1>2. ControlOK'
  BY DEF ClearAttachment, ControlOK
<1>3. MutexOK'
  BY DEF ClearAttachment, MutexOK
<1>4. TakenOK'
  BY <1>m DEF ClearAttachment, TakenOK, Taken
<1>5. OwnedOK'
  <2>1. Owned(a)' \/ a \notin Users
    BY <1>f DEF ClearAttachment, OwnedOK, Owned, TypeOK, ControlOK, own
  <2>2. slots[slot[a]].attachment_id \in dead \union {a}
    BY DEF ClearAttachment, OwnedOK, Owned, ScanOK, Scanning, ControlOK
  <2>3. ASSUME NEW b \in Users \ {a}
        PROVE  Owned(b)'
    BY <1>m, <1>f, <2>2 DEF ClearAttachment, OwnedOK, Owned, TypeOK, ControlOK, own
  <2> QED BY <2>1, <2>3 DEF OwnedOK
<1>6. FreedOK'
  BY <1>m, <1>f DEF ClearAttachment, FreedOK, Freed, TypeOK, own
<1>7. ScanOK'
  BY <1>m DEF ClearAttachment, ScanOK, Scanning, ControlOK, own, copy
<1>8. NeededOK'
  <2>1. OnlyMoves(a)
    BY DEF ClearAttachment, OnlyMoves, TypeOK, ControlOK, own
  <2>2. CASE a \in Users
    BY <2>1, <2>2, UserKeepsNeeded DEF ClearAttachment, TypeOK, own, copy
  <2>3. CASE a \in Collectors
    <3> SUFFICES ASSUME NEW b \in Needed(a)
                 PROVE  Copied(a, b)'
      BY <2>1, <2>3, CollectorKeepsNeeded DEF ClearAttachment, copy
    <3>1. Copied(a, b) /\ b # a /\ b \in Users
      BY <2>1, <2>3 DEF NeededOK, Needed, TypeOK
    <3> QED BY <2>3, <3>1 DEF ClearAttachment, Copied, TypeOK, ControlOK, own, copy
  <2> QED BY <2>2, <2>3
<1>9. ListConsistent'
  <2>1. min_free_slot <= slot[a]
    BY DEF ClearAttachment, FreedOK, Freed
  <2> QED BY <1>f, <2>1 DEF ClearAttachment, ListConsistent, TypeOK, own
<1> QED BY <1>1, <1>2, <1>3, <1>4, <1>5, <1>6, <1>7, <1>8, <1>9 DEF IInv

\* slots_used goes down to the last slot in use.
LEMMA ShrinkUsedKeeps ==
  ASSUME IInv, NEW a \in Attachments, ShrinkUsed(a)
  PROVE  IInv'
<1>m. \A b \in Attachments \ {a} : pc[b] \notin Exclusive
  BY DEF ShrinkUsed, MutexOK
<1>s. ASSUME NEW c \in Collectors
      PROVE  /\ scan'[c] \in Scan
             /\ scan'[c].slots_used_org = scan[c].slots_used_org
             /\ scan'[c].att_states = scan[c].att_states
  <2> DEFINE u == [scan[c] EXCEPT !.attachment_id = NONE]
  <2>1. scan[c] \in Scan
    BY DEF TypeOK
  <2>2. u \in Scan /\ u.slots_used_org = scan[c].slots_used_org /\ u.att_states = scan[c].att_states
    BY <2>1 DEF Scan
  <2>3. scan'[c] \in {scan[c], u}
    BY DEF ShrinkUsed, TypeOK
  <2> HIDE DEF u
  <2> QED BY <2>1, <2>2, <2>3
<1>1. TypeOK'
  <2>1. slot[a] \in Slots
    BY DEF FreedOK, Freed, ShrinkUsed
  <2>2. UsedBelow(slot[a]) \in 0 .. slot[a]
    BY <2>1, UsedBelowLast
  <2>3. slots_used' \in 0 .. MaxSlots
    BY <2>1, <2>2 DEF TypeOK, Slots, ShrinkUsed
  <2>4. slot' \in [Attachments -> 0 .. MaxSlots]
    <3>1. slot[a] + 1 \in 0 .. MaxSlots /\ slot \in [Attachments -> 0 .. MaxSlots]
      BY <2>1 DEF TypeOK, Slots
    <3>2. slot' = slot \/ slot' = [slot EXCEPT ![a] = slot[a] + 1]
      BY DEF ShrinkUsed
    <3> QED BY <3>1, <3>2
  <2>5. scan' \in [Collectors -> Scan]
    BY SMTT(30) DEF TypeOK, Scan, ShrinkUsed
  <2> QED BY <2>3, <2>4, <2>5 DEF TypeOK, ShrinkUsed
<1>2. ControlOK'
  BY DEF ShrinkUsed, ControlOK, TypeOK
<1>3. MutexOK'
  BY DEF ShrinkUsed, MutexOK, ControlOK
<1>4. TakenOK'
  BY <1>m DEF ShrinkUsed, TakenOK, Taken, ControlOK
<1>5. OwnedOK'
  BY DEF ShrinkUsed, Owned, OwnedOK, TypeOK, ControlOK
<1>6. FreedOK'
  BY DEF ShrinkUsed, Freed, FreedOK, TypeOK, ControlOK
<1>7. ScanOK'
  <2> SUFFICES ASSUME NEW c \in Collectors
               PROVE  Scanning(c)'
    BY DEF ScanOK
  <2>1. Scanning(c)
    BY DEF ScanOK
  <2>2. /\ scan'[c].slots_used_org = scan[c].slots_used_org
        /\ scan'[c].att_states = scan[c].att_states
    BY <1>s
  <2>3. CASE c = a
    <3>1. pc'[c] = "scan" /\ dead' = dead
      BY <2>3 DEF ShrinkUsed, ControlOK
    <3> QED BY <2>1, <2>2, <3>1 DEF Scanning
  <2>4. CASE c # a
    <3>1. pc'[c] = pc[c] /\ slot'[c] = slot[c] /\ scan'[c] = scan[c] /\ dead' = dead
      BY <2>4 DEF ShrinkUsed, ControlOK, TypeOK
    <3> QED BY <1>m, <2>1, <2>4, <3>1 DEF Scanning
  <2> QED BY <2>3, <2>4
<1>8. NeededOK'
  <2>1. OnlyMoves(a)
    BY DEF ShrinkUsed, OnlyMoves, TypeOK, ControlOK
  <2>2. CASE a \in Users
    BY <2>1, <2>2, UserKeepsNeeded DEF ShrinkUsed, TypeOK
  <2>3. CASE a \in Collectors
    <3> SUFFICES ASSUME NEW b \in Needed(a)
                 PROVE  Copied(a, b)'
      BY <2>1, <2>3, CollectorKeepsNeeded DEF ShrinkUsed, TypeOK
    <3>1. Copied(a, b) /\ b # a /\ b \in Users
      BY <2>1, <2>3 DEF NeededOK, Needed, TypeOK
    <3>2. slot[b] # slot[a]
      BY <3>1 DEF ShrinkUsed, FreedOK, Freed, OwnedOK, Owned, Copied
    <3>3. slot[b] \in Int /\ slot[a] \in Int
      BY <3>1 DEF TypeOK
    <3>4. pc[a] = "shrink" /\ pc'[a] = "scan" /\ slot'[a] = slot[a] + 1 /\ list' = list
      BY <2>3 DEF ShrinkUsed, TypeOK, ControlOK
    <3>5. scan'[a].slots_used_org = scan[a].slots_used_org /\ dead' = dead
      BY <1>s, <2>3 DEF ShrinkUsed
    <3>6. b # a /\ pc'[b] = pc[b] /\ slot'[b] = slot[b] /\ number'[b] = number[b]
      BY <2>1, <3>1 DEF OnlyMoves
    <3> QED BY <3>1, <3>2, <3>3, <3>4, <3>5, <3>6 DEF Copied
  <2> QED BY <2>2, <2>3
<1>9. ListConsistent'
  <2>1. slot[a] \in Slots /\ slots[slot[a]].attachment_id = NONE
    BY DEF FreedOK, Freed, ShrinkUsed
  <2>2. ASSUME NEW i \in Slots, slots[i].attachment_id # NONE
        PROVE  i < slots_used'
    <3>1. i < slots_used /\ i # slot[a]
      BY <2>1, <2>2 DEF ListConsistent
    <3>2. UsedBelow(slot[a]) \in Nat /\ (i < slot[a] => i < UsedBelow(slot[a]))
      BY <2>1, <2>2, UsedBelowLast DEF Slots
    <3> QED BY <2>1, <3>1, <3>2 DEF ShrinkUsed, Slots, TypeOK
  <2> QED BY <2>2 DEF ShrinkUsed, ListConsistent
<1> QED BY <1>1, <1>2, <1>3, <1>4, <1>5, <1>6, <1>7, <1>8, <1>9 DEF IInv

\* endSnapshot counts the release and unlocks the mutex.
LEMMA CountReleaseKeeps ==
  ASSUME IInv, NEW a \in Attachments, CountRelease(a)
  PROVE  IInv'
<1>m. \A b \in Attachments \ {a} : pc[b] \notin Exclusive
  BY DEF CountRelease, MutexOK
<1>u. a \in Users /\ OnlyMoves(a)
  BY DEF CountRelease, OnlyMoves, TypeOK, ControlOK
<1>f. snapshot_release_count < MaxReleases
  BY <1>u DEF MutexOK, CountRelease
<1>1. TypeOK'
  BY <1>u, <1>f DEF TypeOK, CountRelease, copy
<1>2. ControlOK'
  BY DEF CountRelease, ControlOK
<1>3. MutexOK'
  BY DEF CountRelease, MutexOK, ControlOK
<1>4. TakenOK'
  BY DEF CountRelease, Taken, TakenOK
<1>5. OwnedOK'
  BY DEF CountRelease, Owned, OwnedOK
<1>6. FreedOK'
  BY DEF CountRelease, Freed, FreedOK
<1>7. ScanOK'
  BY DEF CountRelease, Scanning, ScanOK, copy
<1>8. NeededOK'
  BY <1>u, UserKeepsNeeded DEF CountRelease, copy
<1>9. ListConsistent'
  BY DEF CountRelease, ListConsistent
<1> QED BY <1>1, <1>2, <1>3, <1>4, <1>5, <1>6, <1>7, <1>8, <1>9 DEF IInv

\* updateActiveSnapshots begins: it is to find the snapshots complete by now.
LEMMA LoadLastCommitKeeps ==
  ASSUME IInv, NEW a \in Attachments, LoadLastCommit(a)
  PROVE  IInv'
<1>c. a \in Collectors \ dead /\ OnlyMoves(a)
  BY DEF LoadLastCommit, OnlyMoves, ControlOK, own
<1>p. PICK p \in {"slow", "fast"} :
        /\ scan' = [scan EXCEPT ![a].path = p]
        /\ pc'[a] = IF p = "slow" THEN "releases" ELSE "used"
  BY <1>c DEF LoadLastCommit, ControlOK
<1>s. /\ scan' \in [Collectors -> Scan] /\ scan'[a].path = p
      /\ scan'[a].att_states = scan[a].att_states
  <2> DEFINE u == [scan[a] EXCEPT !.path = p]
  <2>1. u \in Scan /\ u.path = p /\ u.att_states = scan[a].att_states
    BY <1>c DEF TypeOK, Scan
  <2>2. scan' = [scan EXCEPT ![a] = u]
    BY <1>p
  <2> HIDE DEF u
  <2> QED BY <1>c, <2>1, <2>2 DEF TypeOK
<1>1. TypeOK'
  <2>1. list' \in [Collectors -> ActiveSnapshots]
    <3>1. [list[a] EXCEPT !.m_lastCommit = latest_commit_number] \in ActiveSnapshots
      BY SMTT(30), <1>c DEF ActiveSnapshots, TypeOK
    <3> QED BY <3>1 DEF LoadLastCommit, TypeOK
  <2>2. caught' \in [Collectors -> SUBSET Users]
    BY DEF LoadLastCommit, TypeOK, Unpublished
  <2> QED BY <1>s, <2>1, <2>2 DEF LoadLastCommit, TypeOK, shared, own
<1>2. ControlOK'
  BY DEF LoadLastCommit, ControlOK
<1>3. MutexOK'
  BY DEF LoadLastCommit, MutexOK, shared
<1>4. TakenOK'
  BY <1>c DEF LoadLastCommit, TakenOK, Taken, OnlyMoves, shared
<1>5. OwnedOK'
  BY <1>c DEF LoadLastCommit, OwnedOK, Owned, OnlyMoves, shared
<1>6. FreedOK'
  BY <1>c DEF LoadLastCommit, FreedOK, Freed, OnlyMoves, shared
<1>7. ScanOK'
  <2>1. \A b \in Attachments : scan'[a].att_states[b] = scan[a].att_states[b]
    BY <1>s
  <2>2. Scanning(a)'
    BY <1>c, <1>p, <2>1 DEF LoadLastCommit, ScanOK, Scanning
  <2>3. ASSUME NEW c \in Collectors \ {a}
        PROVE  Scanning(c)'
    BY <1>c DEF LoadLastCommit, ScanOK, Scanning, TypeOK, ControlOK, shared, own
  <2> QED BY <2>2, <2>3 DEF ScanOK
<1>8. NeededOK'
  <2>1. list'[a].m_lastCommit = latest_commit_number /\ caught'[a] = Unpublished
    BY <1>c DEF LoadLastCommit, TypeOK
  <2>2. /\ UNCHANGED <<latest_commit_number, dead>>
        /\ \A c \in Collectors \ {a} :
             list'[c] = list[c] /\ scan'[c] = scan[c] /\ caught'[c] = caught[c]
    BY <1>c, <1>p DEF LoadLastCommit, TypeOK, shared
  <2>3. ASSUME NEW b \in Needed(a)'
        PROVE  Copied(a, b)'
    <3>1. b \in Users /\ b # a /\ number'[b] # CN_ACTIVE /\ b \notin Unpublished
      BY <1>c, <2>1, <2>3 DEF Needed
    <3>2. pc'[b] = pc[b] /\ number'[b] = number[b]
      BY <1>c, <3>1 DEF OnlyMoves
    <3>3. pc[b] \in {"watermark", "held"} /\ b \notin dead
      BY <3>1, <3>2 DEF OwnedOK, Owned, Unpublished, ControlOK
    <3> QED BY <1>p, <1>s, <2>2, <3>2, <3>3 DEF Copied
  <2>4. latest_commit_number <= latest_commit_number
    BY DEF TypeOK, CommitNumbers, CN_PREHISTORIC
  <2> QED BY <1>c, <2>1, <2>2, <2>3, <2>4, OthersKeepNeeded
<1>9. ListConsistent'
  BY DEF LoadLastCommit, ListConsistent, shared
<1> QED BY <1>1, <1>2, <1>3, <1>4, <1>5, <1>6, <1>7, <1>8, <1>9 DEF IInv

\* updateActiveSnapshots loads the number of releases and decides what it reads.
LEMMA LoadReleasesKeeps ==
  ASSUME IInv, NEW a \in Attachments, LoadReleases(a)
  PROVE  IInv'
<1>c. a \in Collectors \ dead /\ OnlyMoves(a)
  BY DEF LoadReleases, OnlyMoves, TypeOK, ControlOK, own, StartScan
<1>t. /\ UNCHANGED <<slots, slots_used, min_free_slot, latest_commit_number,
                     snapshot_release_count, mutex, number, caught, dead>>
      /\ scan[a] \in Scan /\ list[a] \in ActiveSnapshots
  BY <1>c DEF LoadReleases, StartScan, TypeOK, shared, own
<1>r. /\ scan' \in [Collectors -> Scan] /\ list' \in [Collectors -> ActiveSnapshots]
      /\ slot' \in [Attachments -> 0 .. MaxSlots]
      /\ pc'[a] \in {"used", "scan", "rest"}
      /\ \A b \in Attachments : scan'[a].att_states[b] \in {scan[a].att_states[b], "unknown"}
      /\ pc'[a] = "scan" => /\ scan[a].path = "fast" /\ slot'[a] = 0
                            /\ scan'[a].slots_used_org = scan[a].slots_used_org
      /\ pc'[a] = "rest" => scan'[a].path = "return"
  <2>1. CASE scan[a].path = "slow"
    <3>1. /\ pc'[a] = "used" /\ scan' = scan /\ slot' = slot
          /\ list' = [list EXCEPT ![a] = [list[a] EXCEPT !.m_releaseCount = snapshot_release_count]]
      BY <1>c, <2>1 DEF LoadReleases, ControlOK, TypeOK, own
    <3>2. [list[a] EXCEPT !.m_releaseCount = snapshot_release_count] \in ActiveSnapshots
      BY <1>t DEF ActiveSnapshots, TypeOK
    <3> QED BY <1>c, <1>t, <3>1, <3>2 DEF TypeOK
  <2>2. CASE scan[a].path = "fast" /\ pc'[a] = "scan"
    <3>1. /\ scan' = scan /\ slot' = [slot EXCEPT ![a] = 0]
          /\ list' = [list EXCEPT ![a] = [list[a] EXCEPT !.m_releaseCount = snapshot_release_count,
                                                         !.m_slots_used = scan[a].slots_used_org,
                                                         !.m_snapshots = {}]]
      BY <1>c, <2>2 DEF LoadReleases, StartScan, ControlOK, TypeOK
    <3>2. [list[a] EXCEPT !.m_releaseCount = snapshot_release_count,
                          !.m_slots_used = scan[a].slots_used_org,
                          !.m_snapshots = {}] \in ActiveSnapshots
      BY <1>c, <1>t DEF ActiveSnapshots, Scan, TypeOK
    <3> QED BY <1>c, <1>t, <2>2, <3>1, <3>2 DEF TypeOK
  <2>3. CASE scan[a].path = "fast" /\ pc'[a] # "scan"
    <3>1. /\ pc'[a] = "rest" /\ list' = list /\ slot' = slot
          /\ scan' = [scan EXCEPT ![a] = [NoScan EXCEPT !.path = "return"]]
      BY <1>c, <2>3 DEF LoadReleases, StartScan, ControlOK, TypeOK, own
    <3>2. LET u == [NoScan EXCEPT !.path = "return"]
          IN  /\ u \in Scan /\ u.path = "return"
              /\ \A b \in Attachments : u.att_states[b] = "unknown"
      BY DEF NoScan, Scan
    <3> QED BY <1>c, <1>t, <3>1, <3>2 DEF TypeOK
  <2> QED BY <2>1, <2>2, <2>3 DEF LoadReleases
<1>o. \A c \in Collectors \ {a} : scan'[c] = scan[c] /\ list'[c] = list[c]
  BY <1>c DEF LoadReleases, StartScan, TypeOK
<1>n. list'[a].m_lastCommit = list[a].m_lastCommit
  BY <1>c, <1>t DEF LoadReleases, StartScan, TypeOK, ActiveSnapshots
<1>1. TypeOK'
  BY <1>t, <1>r DEF TypeOK
<1>2. ControlOK'
  BY <1>c, <1>t, <1>r, CollectorKeepsControl
<1>3. MutexOK'
  BY <1>c, <1>t, <1>r DEF OnlyMoves, MutexOK
<1>4. TakenOK'
  BY <1>c, <1>t DEF OnlyMoves, TakenOK, Taken
<1>5. OwnedOK'
  BY <1>c, <1>t DEF OnlyMoves, OwnedOK, Owned
<1>6. FreedOK'
  BY <1>c, <1>t, <1>r DEF OnlyMoves, FreedOK, Freed
<1>7. ScanOK'
  BY <1>c, <1>t, <1>r, <1>o DEF OnlyMoves, ScanOK, Scanning
<1>8. NeededOK'
  <2> SUFFICES ASSUME NEW b \in Needed(a)
               PROVE  Copied(a, b)'
    BY <1>c, <1>t, <1>o, <1>n, CollectorKeepsNeeded
  <2>1. b \in Users /\ Copied(a, b) /\ slot[b] \in Nat
    BY <1>c DEF TypeOK, NeededOK, Needed
  <2>2. pc[a] = "releases" /\ b # a
    BY <1>c, <2>1 DEF LoadReleases
  <2> QED BY <1>c, <1>t, <1>r, <2>1, <2>2 DEF OnlyMoves, Copied
<1>9. ListConsistent'
  BY <1>t DEF ListConsistent
<1> QED BY <1>1, <1>2, <1>3, <1>4, <1>5, <1>6, <1>7, <1>8, <1>9 DEF IInv

\* updateActiveSnapshots loads the number of slots it has to read.
LEMMA LoadSlotsUsedKeeps ==
  ASSUME IInv, NEW a \in Attachments, LoadSlotsUsed(a)
  PROVE  IInv'
<1>c. a \in Collectors \ dead /\ OnlyMoves(a)
  BY DEF LoadSlotsUsed, OnlyMoves, TypeOK, ControlOK, own, StartScan
<1>t. /\ UNCHANGED <<slots, slots_used, min_free_slot, latest_commit_number,
                     snapshot_release_count, mutex, number, caught, dead>>
      /\ scan[a] \in Scan /\ list[a] \in ActiveSnapshots
  BY <1>c DEF LoadSlotsUsed, StartScan, TypeOK, shared, own
<1>r. /\ scan' \in [Collectors -> Scan]
      /\ scan'[a].slots_used_org = slots_used /\ scan'[a].att_states = scan[a].att_states
  <2> DEFINE u == [scan[a] EXCEPT !.slots_used_org = slots_used]
  <2>1. u \in Scan /\ u.slots_used_org = slots_used /\ u.att_states = scan[a].att_states
    BY <1>t DEF TypeOK, Scan
  <2>2. scan' = [scan EXCEPT ![a] = u]
    BY DEF LoadSlotsUsed
  <2> HIDE DEF u
  <2> QED BY <1>c, <2>1, <2>2 DEF TypeOK
<1>l. /\ list' \in [Collectors -> ActiveSnapshots]
      /\ slot' \in [Attachments -> 0 .. MaxSlots]
      /\ pc'[a] \in {"scan", "releases"}
      /\ pc'[a] = "scan" => slot'[a] = 0
  <2> DEFINE m == [list[a] EXCEPT !.m_snapshots = {}]
  <2>1. m \in ActiveSnapshots
    BY <1>t DEF ActiveSnapshots
  <2>2. list' = list \/ list' = [list EXCEPT ![a] = m]
    BY DEF LoadSlotsUsed
  <2>3. \/ pc'[a] = "scan" /\ slot' = [slot EXCEPT ![a] = 0]
        \/ pc'[a] = "releases" /\ slot' = slot
    BY <1>c DEF LoadSlotsUsed, StartScan, ControlOK, own
  <2>4. list' \in [Collectors -> ActiveSnapshots]
    <3> HIDE DEF m
    <3> QED BY <1>c, <2>1, <2>2 DEF TypeOK
  <2>5. slot' \in [Attachments -> 0 .. MaxSlots]
    BY <1>c, <2>3 DEF TypeOK
  <2> QED BY <1>c, <2>3, <2>4, <2>5 DEF TypeOK
<1>o. \A c \in Collectors \ {a} : scan'[c] = scan[c] /\ list'[c] = list[c]
  BY <1>c DEF LoadSlotsUsed, StartScan, TypeOK
<1>n. list'[a].m_lastCommit = list[a].m_lastCommit
  BY <1>c, <1>t DEF LoadSlotsUsed, StartScan, TypeOK, ActiveSnapshots
<1>1. TypeOK'
  BY <1>t, <1>r, <1>l DEF TypeOK
<1>2. ControlOK'
  BY <1>c, <1>t, <1>l, CollectorKeepsControl
<1>3. MutexOK'
  BY <1>c, <1>t, <1>l DEF OnlyMoves, MutexOK
<1>4. TakenOK'
  BY <1>c, <1>t DEF OnlyMoves, TakenOK, Taken
<1>5. OwnedOK'
  BY <1>c, <1>t DEF OnlyMoves, OwnedOK, Owned
<1>6. FreedOK'
  BY <1>c, <1>t, <1>l DEF OnlyMoves, FreedOK, Freed
<1>7. ScanOK'
  BY <1>c, <1>t, <1>r, <1>l, <1>o DEF OnlyMoves, ScanOK, Scanning
<1>8. NeededOK'
  <2> SUFFICES ASSUME NEW b \in Needed(a)
               PROVE  Copied(a, b)'
    BY <1>c, <1>t, <1>o, <1>n, CollectorKeepsNeeded
  <2>1. b \in Users /\ Copied(a, b) /\ slot[b] \in Nat /\ b # a
    BY <1>c DEF TypeOK, NeededOK, Needed
  <2>2. slot[b] < slots_used
    BY <2>1 DEF Copied, OwnedOK, Owned, ListConsistent
  <2> QED BY <1>c, <1>t, <1>r, <1>l, <2>1, <2>2 DEF OnlyMoves, Copied
<1>9. ListConsistent'
  BY <1>t DEF ListConsistent
<1> QED BY <1>1, <1>2, <1>3, <1>4, <1>5, <1>6, <1>7, <1>8, <1>9 DEF IInv

\* updateActiveSnapshots reads the attachment of a slot.
LEMMA ReadAttachmentKeeps ==
  ASSUME IInv, NEW a \in Attachments, ReadAttachment(a)
  PROVE  IInv'
<1>c. a \in Collectors \ dead /\ OnlyMoves(a)
  BY DEF ReadAttachment, OnlyMoves, TypeOK, ControlOK, NextSlot
<1>t. /\ UNCHANGED <<slots, slots_used, min_free_slot, latest_commit_number,
                     snapshot_release_count, mutex, number, list, caught, dead>>
      /\ scan[a] \in Scan /\ slot[a] < scan[a].slots_used_org /\ scan[a].slots_used_org \in 0 .. MaxSlots
      /\ slot[a] \in Slots /\ slots[slot[a]].attachment_id \in Attachments \union {NONE}
  BY <1>c DEF ReadAttachment, TypeOK, shared, Scan, Slots
<1>r. /\ scan' \in [Collectors -> Scan]
      /\ scan'[a].attachment_id = slots[slot[a]].attachment_id
      /\ scan'[a].att_states = scan[a].att_states
      /\ scan'[a].slots_used_org = scan[a].slots_used_org
      /\ \A c \in Collectors \ {a} : scan'[c] = scan[c]
  <2> DEFINE u == [scan[a] EXCEPT !.attachment_id = slots[slot[a]].attachment_id]
  <2>1. /\ u \in Scan /\ u.attachment_id = slots[slot[a]].attachment_id
        /\ u.att_states = scan[a].att_states /\ u.slots_used_org = scan[a].slots_used_org
    BY <1>t DEF Scan
  <2>2. scan' = [scan EXCEPT ![a] = u]
    BY DEF ReadAttachment
  <2> HIDE DEF u
  <2> QED BY <1>c, <2>1, <2>2 DEF TypeOK
<1>l. \/ /\ slots[slot[a]].attachment_id = NONE
         /\ slot' = [slot EXCEPT ![a] = slot[a] + 1] /\ pc'[a] = "scan"
      \/ /\ slots[slot[a]].attachment_id # NONE
         /\ slot' = slot /\ pc'[a] \in {"probe", "read"}
  BY <1>c DEF ReadAttachment, NextSlot, ControlOK
<1>1. TypeOK'
  <2>1. slot' \in [Attachments -> 0 .. MaxSlots]
    BY SMTT(30), <1>t, <1>l DEF TypeOK, Slots
  <2> QED BY <1>t, <1>r, <2>1 DEF TypeOK
<1>2. ControlOK'
  BY <1>c, <1>t, <1>l, CollectorKeepsControl
<1>3. MutexOK'
  BY <1>c, <1>t, <1>l DEF OnlyMoves, MutexOK
<1>4. TakenOK'
  BY <1>c, <1>t DEF OnlyMoves, TakenOK, Taken
<1>5. OwnedOK'
  BY <1>c, <1>t DEF OnlyMoves, OwnedOK, Owned
<1>6. FreedOK'
  BY <1>c, <1>t, <1>l DEF OnlyMoves, FreedOK, Freed
<1>7. ScanOK'
  BY <1>c, <1>t, <1>r, <1>l DEF OnlyMoves, ScanOK, Scanning
<1>8. NeededOK'
  <2> SUFFICES ASSUME NEW b \in Needed(a)
               PROVE  Copied(a, b)'
    BY <1>c, <1>t, <1>r, CollectorKeepsNeeded
  <2>1. b \in Users /\ Copied(a, b) /\ slot[b] \in Int /\ slot[a] \in Int /\ pc[a] = "scan"
    BY <1>c DEF TypeOK, NeededOK, Needed, ReadAttachment
  <2>2. slots[slot[b]].attachment_id = b
    BY <2>1 DEF Copied, OwnedOK, Owned
  <2>3. b # a /\ slot'[b] = slot[b]
    BY <1>c, <2>1 DEF OnlyMoves
  <2>4. slot'[a] \in {slot[a], slot[a] + 1}
    BY <1>c, <1>l DEF TypeOK
  <2>5. slot[b] < slot'[a] => number[b] \in list[a].m_snapshots
    <3>1. CASE slots[slot[a]].attachment_id = NONE
      <4>1. slot[b] # slot[a]
        BY <2>1, <2>2, <3>1
      <4>2. slot[b] < slot[a] + 1 => slot[b] < slot[a]
        BY <2>1, <4>1
      <4> QED BY <2>1, <2>4, <4>2 DEF Copied
    <3>2. CASE slots[slot[a]].attachment_id # NONE
      BY <1>c, <1>l, <2>1, <3>2 DEF Copied, TypeOK
    <3> QED BY <3>1, <3>2
  <2>6. pc'[a] \in {"probe", "read", "scan"}
        /\ (pc'[a] # "scan" /\ slot'[a] = slot[b] => scan'[a].attachment_id = b)
    BY <1>l, <1>r, <2>2
  <2> QED BY <1>c, <1>t, <1>r, <2>1, <2>3, <2>5, <2>6 DEF OnlyMoves, Copied
<1>9. ListConsistent'
  BY <1>t DEF ListConsistent
<1> QED BY <1>1, <1>2, <1>3, <1>4, <1>5, <1>6, <1>7, <1>8, <1>9 DEF IInv

\* updateActiveSnapshots asks the lock manager whether the attachment is alive.
LEMMA ProbeAttachmentKeeps ==
  ASSUME IInv, NEW a \in Attachments, ProbeAttachment(a)
  PROVE  IInv'
<1>c. a \in Collectors \ dead /\ OnlyMoves(a)
  <2>1. pc' \in [Attachments -> UserSteps \union CollectorSteps]
    BY ZenonT(60) DEF ProbeAttachment, ControlOK
  <2> QED BY <2>1 DEF ProbeAttachment, OnlyMoves, ControlOK, own
<1>t. /\ UNCHANGED <<slots, slots_used, min_free_slot, latest_commit_number,
                     snapshot_release_count, mutex, slot, number, list, caught, dead>>
      /\ scan[a] \in Scan /\ scan[a].attachment_id \in Attachments
      /\ pc[a] = "probe" /\ slot[a] < scan[a].slots_used_org
  BY <1>c DEF ProbeAttachment, TypeOK, shared, own, ScanOK, Scanning
<1>k. PICK state \in {"unknown", "alive", "dead"} :
        /\ scan' = [scan EXCEPT ![a].att_states[scan[a].attachment_id] = state]
        /\ pc'[a] = IF state = "alive" THEN "read" ELSE "guard"
        /\ state # "alive" => state = "dead" /\ scan[a].attachment_id \in dead
  <2>1. scan[a].att_states[scan[a].attachment_id] \in {"unknown", "alive", "dead"}
    BY <1>t DEF Scan
  <2>2. scan[a].att_states[scan[a].attachment_id] = "dead" => scan[a].attachment_id \in dead
    BY <1>c, <1>t DEF ScanOK, Scanning
  <2> QED BY ZenonT(60), <1>c, <2>1, <2>2 DEF ProbeAttachment, ControlOK
<1>r. /\ scan' \in [Collectors -> Scan]
      /\ scan'[a].attachment_id = scan[a].attachment_id
      /\ scan'[a].slots_used_org = scan[a].slots_used_org
      /\ \A b \in Attachments : scan'[a].att_states[b] = "dead" => b \in dead
      /\ \A c \in Collectors \ {a} : scan'[c] = scan[c]
  <2> DEFINE s == [scan[a].att_states EXCEPT ![scan[a].attachment_id] = state]
             u == [scan[a] EXCEPT !.att_states = s]
  <2>1. scan[a].att_states \in [Attachments -> {"unknown", "alive", "dead"}]
    BY <1>t DEF Scan
  <2>2. s \in [Attachments -> {"unknown", "alive", "dead"}]
    BY <2>1
  <2>3. \A b \in Attachments : s[b] = "dead" => b \in dead
    BY <1>c, <1>t, <1>k, <2>1 DEF ScanOK, Scanning
  <2>4. /\ u \in Scan /\ u.attachment_id = scan[a].attachment_id
        /\ u.att_states = s /\ u.slots_used_org = scan[a].slots_used_org
    BY <1>t, <2>2 DEF Scan
  <2>5. scan' = [scan EXCEPT ![a] = u]
    BY <1>k
  <2> HIDE DEF u, s
  <2> QED BY <1>c, <2>3, <2>4, <2>5 DEF TypeOK
<1>1. TypeOK'
  BY <1>t, <1>r DEF TypeOK
<1>2. ControlOK'
  BY <1>c, <1>t, <1>k, CollectorKeepsControl
<1>3. MutexOK'
  BY <1>c, <1>t, <1>k DEF OnlyMoves, MutexOK
<1>4. TakenOK'
  BY <1>c, <1>t DEF OnlyMoves, TakenOK, Taken
<1>5. OwnedOK'
  BY <1>c, <1>t DEF OnlyMoves, OwnedOK, Owned
<1>6. FreedOK'
  BY <1>c, <1>t, <1>k DEF OnlyMoves, FreedOK, Freed
<1>7. ScanOK'
  BY <1>c, <1>t, <1>k, <1>r DEF OnlyMoves, ScanOK, Scanning
<1>8. NeededOK'
  <2> SUFFICES ASSUME NEW b \in Needed(a)
               PROVE  Copied(a, b)'
    BY <1>c, <1>t, <1>r, CollectorKeepsNeeded
  <2>1. b \in Users /\ Copied(a, b) /\ b # a
    BY <1>c DEF TypeOK, NeededOK, Needed
  <2> QED BY <1>c, <1>t, <1>k, <1>r, <2>1 DEF OnlyMoves, Copied
<1>9. ListConsistent'
  BY <1>t DEF ListConsistent
<1> QED BY <1>1, <1>2, <1>3, <1>4, <1>5, <1>6, <1>7, <1>8, <1>9 DEF IInv

\* updateActiveSnapshots locks the mutex and frees the slot of a dead attachment if
\* it is still that attachment's.
LEMMA GuardSlotKeeps ==
  ASSUME IInv, NEW a \in Attachments, GuardSlot(a)
  PROVE  IInv'
<1>c. a \in Collectors \ dead /\ OnlyMoves(a)
  BY DEF GuardSlot, OnlyMoves, ControlOK, own
<1>m. \A b \in Attachments \ {a} : pc[b] \notin Exclusive
  BY DEF GuardSlot, MutexOK
<1>t. /\ UNCHANGED <<slots, slots_used, latest_commit_number,
                     snapshot_release_count, slot, number, list, scan, caught, dead>>
      /\ pc[a] = "guard" /\ mutex' = a /\ slot[a] < scan[a].slots_used_org /\ slot[a] \in Slots
      /\ scan[a].attachment_id \in dead
  <2>1. pc[a] = "guard" /\ slot[a] < scan[a].slots_used_org /\ scan[a].attachment_id \in dead
    BY <1>c DEF GuardSlot, ScanOK, Scanning
  <2>2. slot[a] \in Slots
    BY <1>c, <2>1 DEF TypeOK, Scan, Slots
  <2> QED BY <2>1, <2>2 DEF GuardSlot, own, copy
<1>k. \/ /\ pc'[a] = "clear" /\ min_free_slot' = Lowered(slot[a])
         /\ slots[slot[a]].attachment_id = scan[a].attachment_id
      \/ pc'[a] = "scan" /\ min_free_slot' = min_free_slot
  BY <1>c DEF GuardSlot, ControlOK
<1>l. /\ min_free_slot' \in 0 .. MaxSlots /\ min_free_slot' <= min_free_slot
      /\ pc'[a] = "clear" => min_free_slot' <= slot[a]
  BY <1>c, <1>t, <1>k DEF Lowered, TypeOK, Slots
<1>1. TypeOK'
  BY <1>c, <1>t, <1>l DEF TypeOK
<1>2. ControlOK'
  BY <1>c, <1>t, <1>k, CollectorKeepsControl
<1>3. MutexOK'
  BY <1>c, <1>t, <1>k, <1>m DEF OnlyMoves, MutexOK
<1>4. TakenOK'
  BY <1>c, <1>t DEF OnlyMoves, TakenOK, Taken
<1>5. OwnedOK'
  BY <1>c, <1>t DEF OnlyMoves, OwnedOK, Owned
<1>6. FreedOK'
  BY <1>c, <1>t, <1>k, <1>l, <1>m DEF OnlyMoves, FreedOK, Freed
<1>7. ScanOK'
  BY <1>c, <1>t, <1>k DEF OnlyMoves, ScanOK, Scanning
<1>8. NeededOK'
  <2> SUFFICES ASSUME NEW b \in Needed(a)
               PROVE  Copied(a, b)'
    BY <1>c, <1>t, CollectorKeepsNeeded
  <2>1. b \in Users /\ Copied(a, b) /\ b # a
    BY <1>c DEF TypeOK, NeededOK, Needed
  <2> QED BY <1>c, <1>t, <1>k, <2>1 DEF OnlyMoves, Copied
<1>9. ListConsistent'
  <2>1. \A i \in Slots : i \in Int
    BY DEF Slots
  <2> QED BY <1>t, <1>l, <2>1 DEF ListConsistent, TypeOK
<1> QED BY <1>1, <1>2, <1>3, <1>4, <1>5, <1>6, <1>7, <1>8, <1>9 DEF IInv

\* updateActiveSnapshots copies the number in a slot.
LEMMA ReadSnapshotKeeps ==
  ASSUME IInv, NEW a \in Attachments, ReadSnapshot(a)
  PROVE  IInv'
<1>c. a \in Collectors \ dead /\ OnlyMoves(a)
  BY DEF ReadSnapshot, OnlyMoves, ControlOK, TypeOK, NextSlot
<1>t. /\ UNCHANGED <<slots, slots_used, min_free_slot, latest_commit_number,
                     snapshot_release_count, mutex, number, caught, dead>>
      /\ pc[a] = "read" /\ slot[a] < scan[a].slots_used_org /\ slot[a] \in Slots
      /\ slots[slot[a]].snapshot \in CommitNumbers \union {CN_ACTIVE}
      /\ scan[a] \in Scan /\ list[a] \in ActiveSnapshots
  <2>1. pc[a] = "read" /\ slot[a] < scan[a].slots_used_org /\ scan[a] \in Scan
    BY <1>c DEF ReadSnapshot, ScanOK, Scanning, TypeOK
  <2>2. slot[a] \in Slots
    BY <1>c, <2>1 DEF TypeOK, Scan, Slots
  <2> QED BY <1>c, <2>1, <2>2 DEF ReadSnapshot, shared, TypeOK
<1>r. /\ scan' \in [Collectors -> Scan]
      /\ scan'[a].att_states = scan[a].att_states
      /\ scan'[a].slots_used_org = scan[a].slots_used_org
      /\ \A c \in Collectors \ {a} : scan'[c] = scan[c]
  <2> DEFINE u == [scan[a] EXCEPT !.attachment_id = NONE]
  <2>1. /\ u \in Scan
        /\ u.att_states = scan[a].att_states /\ u.slots_used_org = scan[a].slots_used_org
    BY <1>t DEF Scan
  <2>2. scan' = [scan EXCEPT ![a] = u]
    BY DEF ReadSnapshot
  <2> HIDE DEF u
  <2> QED BY <1>c, <2>1, <2>2 DEF TypeOK
<1>n. /\ list' \in [Collectors -> ActiveSnapshots]
      /\ list[a].m_snapshots \subseteq list'[a].m_snapshots
      /\ list'[a].m_lastCommit = list[a].m_lastCommit
      /\ slots[slot[a]].snapshot \in CommitNumbers =>
            slots[slot[a]].snapshot \in list'[a].m_snapshots
      /\ \A c \in Collectors \ {a} : list'[c] = list[c]
  <2> DEFINE S == list[a].m_snapshots \union ({slots[slot[a]].snapshot} \ {CN_ACTIVE})
             m == [list[a] EXCEPT !.m_snapshots = S]
  <2>1. S \in SUBSET CommitNumbers
    BY <1>t DEF ActiveSnapshots
  <2>2. m \in ActiveSnapshots /\ m.m_snapshots = S /\ m.m_lastCommit = list[a].m_lastCommit
    BY <1>t, <2>1 DEF ActiveSnapshots
  <2>3. list' = [list EXCEPT ![a] = m]
    BY DEF ReadSnapshot
  <2>4. list[a].m_snapshots \subseteq S
    OBVIOUS
  <2>5. slots[slot[a]].snapshot \in CommitNumbers => slots[slot[a]].snapshot \in S
    BY DEF CommitNumbers, CN_ACTIVE, CN_PREHISTORIC
  <2> HIDE DEF m, S
  <2> QED BY <1>c, <2>2, <2>3, <2>4, <2>5 DEF TypeOK
<1>l. slot' = [slot EXCEPT ![a] = slot[a] + 1] /\ pc'[a] = "scan"
  BY <1>c DEF ReadSnapshot, NextSlot, ControlOK
<1>1. TypeOK'
  <2>1. slot' \in [Attachments -> 0 .. MaxSlots]
    BY <1>t, <1>l DEF TypeOK, Slots
  <2> QED BY <1>t, <1>r, <1>n, <2>1 DEF TypeOK
<1>2. ControlOK'
  BY <1>c, <1>t, <1>l, CollectorKeepsControl
<1>3. MutexOK'
  BY <1>c, <1>t, <1>l DEF OnlyMoves, MutexOK
<1>4. TakenOK'
  BY <1>c, <1>t DEF OnlyMoves, TakenOK, Taken
<1>5. OwnedOK'
  BY <1>c, <1>t DEF OnlyMoves, OwnedOK, Owned
<1>6. FreedOK'
  BY <1>c, <1>t, <1>l DEF OnlyMoves, FreedOK, Freed
<1>7. ScanOK'
  BY <1>c, <1>t, <1>r, <1>l DEF OnlyMoves, ScanOK, Scanning
<1>8. NeededOK'
  <2> SUFFICES ASSUME NEW b \in Needed(a)
               PROVE  Copied(a, b)'
    BY <1>c, <1>t, <1>r, <1>n, CollectorKeepsNeeded
  <2>1. b \in Users /\ Copied(a, b) /\ b # a /\ slot[b] \in Int /\ slot[a] \in Int
    BY <1>c DEF TypeOK, NeededOK, Needed
  <2>2. slots[slot[b]].snapshot = number[b] /\ number[b] \in CommitNumbers
    BY <2>1 DEF Copied, OwnedOK, Owned
  <2>3. slot[b] < slot[a] + 1 => number[b] \in list'[a].m_snapshots
    <3>1. CASE slot[b] = slot[a]
      BY <1>n, <2>2, <3>1
    <3>2. CASE slot[b] # slot[a]
      <4>1. slot[b] < slot[a] + 1 => slot[b] < slot[a]
        BY <2>1, <3>2
      <4> QED BY <1>t, <1>n, <2>1, <4>1 DEF Copied
    <3> QED BY <3>1, <3>2
  <2>4. slot'[a] = slot[a] + 1
    BY <1>c, <1>l DEF TypeOK
  <2> QED BY <1>c, <1>t, <1>r, <1>l, <2>1, <2>3, <2>4 DEF OnlyMoves, Copied
<1>9. ListConsistent'
  BY <1>t DEF ListConsistent
<1> QED BY <1>1, <1>2, <1>3, <1>4, <1>5, <1>6, <1>7, <1>8, <1>9 DEF IInv

\* updateActiveSnapshots ends its scan of the slots.
LEMMA EndScanKeeps ==
  ASSUME IInv, NEW a \in Attachments, EndScan(a)
  PROVE  IInv'
<1>c. a \in Collectors \ dead /\ OnlyMoves(a)
  BY DEF EndScan, OnlyMoves, ControlOK, TypeOK
<1>m. mutex' \in {mutex, NONE} /\ \A b \in Attachments \ {a} : mutex = b => mutex' = b
  BY DEF EndScan
<1>t. /\ UNCHANGED <<slots, slots_used, min_free_slot, latest_commit_number,
                     snapshot_release_count, number, dead>>
      /\ pc[a] = "scan" /\ pc'[a] = "rest" /\ slot[a] >= scan[a].slots_used_org
      /\ scan' = [scan EXCEPT ![a] = NoScan] /\ slot' = [slot EXCEPT ![a] = 0]
      /\ \/ list' = list /\ caught' = caught
         \/ list' = [list EXCEPT ![a] = NoList] /\ caught' = [caught EXCEPT ![a] = {}]
  BY <1>c DEF EndScan, shared, ControlOK
<1>1. TypeOK'
  BY <1>c, <1>m, <1>t, NothingRead DEF TypeOK
<1>2. ControlOK'
  BY <1>c, <1>t, CollectorKeepsControl
<1>3. MutexOK'
  BY <1>c, <1>m, <1>t DEF OnlyMoves, MutexOK
<1>4. TakenOK'
  BY <1>c, <1>t DEF OnlyMoves, TakenOK, Taken
<1>5. OwnedOK'
  BY <1>c, <1>t DEF OnlyMoves, OwnedOK, Owned
<1>6. FreedOK'
  BY <1>c, <1>t DEF OnlyMoves, FreedOK, Freed
<1>7. ScanOK'
  <2>1. Scanning(a)'
    BY <1>c, <1>t, NothingRead DEF Scanning, TypeOK
  <2>2. ASSUME NEW c \in Collectors \ {a}
        PROVE  Scanning(c)'
    BY <1>c, <1>t DEF OnlyMoves, ScanOK, Scanning
  <2> QED BY <2>1, <2>2 DEF ScanOK
<1>8. NeededOK'
  <2>1. CASE list' = list /\ caught' = caught
    <3> SUFFICES ASSUME NEW b \in Needed(a)
                 PROVE  Copied(a, b)'
      BY <1>c, <1>t, <2>1, CollectorKeepsNeeded DEF TypeOK
    <3>1. b \in Users /\ Copied(a, b) /\ b # a
      BY <1>c DEF NeededOK, Needed
    <3>2. slot[b] \in Int /\ slot[a] \in Int /\ scan[a].slots_used_org \in Int
      BY <1>c, <3>1 DEF TypeOK, Scan
    <3>3. slot[b] < scan[a].slots_used_org
      BY <1>t, <3>1 DEF Copied
    <3>4. number[b] \in list[a].m_snapshots
      BY <1>t, <3>1, <3>2, <3>3 DEF Copied
    <3> QED BY <1>c, <1>t, <2>1, <3>1, <3>4 DEF OnlyMoves, Copied
  <2>2. CASE list' = [list EXCEPT ![a] = NoList] /\ caught' = [caught EXCEPT ![a] = {}]
    <3>1. list'[a].m_lastCommit = 0
      BY <1>c, <2>2 DEF TypeOK, NoList, CN_ACTIVE
    <3>2. \A b \in Users : number'[b] \in Nat
      BY <1>t DEF TypeOK, CommitNumbers, CN_PREHISTORIC, CN_ACTIVE
    <3>3. Needed(a)' = {}
      BY <3>1, <3>2 DEF Needed
    <3>4. 0 <= latest_commit_number
      BY DEF TypeOK, CommitNumbers, CN_PREHISTORIC
    <3>5. \A c \in Collectors \ {a} :
             list'[c] = list[c] /\ scan'[c] = scan[c] /\ caught'[c] = caught[c]
      BY <1>c, <1>t, <2>2 DEF TypeOK
    <3> QED BY <1>c, <1>t, <3>1, <3>3, <3>4, <3>5, OthersKeepNeeded
  <2> QED BY <1>t, <2>1, <2>2
<1>9. ListConsistent'
  BY <1>t DEF ListConsistent
<1> QED BY <1>1, <1>2, <1>3, <1>4, <1>5, <1>6, <1>7, <1>8, <1>9 DEF IInv

\* A process dies at any step; what it stored stays.
LEMMA KillKeeps ==
  ASSUME IInv, NEW a \in Attachments, Kill(a)
  PROVE  IInv'
<1>k. OnlyMoves(a) /\ a \notin dead /\ UNCHANGED <<slots, slots_used, min_free_slot>>
  BY DEF Kill, OnlyMoves, TypeOK, ControlOK, shared
<1>1. TypeOK'
  BY <1>k DEF Kill, Forget, TypeOK, shared
<1>2. ControlOK'
  BY DEF Kill, ControlOK
<1>3. MutexOK'
  BY <1>k DEF Kill, MutexOK, OnlyMoves, shared
<1>4. TakenOK'
  BY <1>k DEF Kill, TakenOK, Taken, OnlyMoves
<1>5. OwnedOK'
  <2>1. ASSUME a \in Users
        PROVE  Owned(a)'
    BY <1>k, <2>1 DEF Kill, Owned, TypeOK, ControlOK
  <2>2. ASSUME NEW b \in Users \ {a}
        PROVE  Owned(b)'
    BY <1>k DEF Kill, OnlyMoves, OwnedOK, Owned
  <2> QED BY <2>1, <2>2 DEF OwnedOK
<1>6. FreedOK'
  BY <1>k DEF Kill, FreedOK, Freed, OnlyMoves
<1>7. ScanOK'
  BY <1>k DEF Kill, ScanOK, Scanning, OnlyMoves
<1>8. NeededOK'
  <2> SUFFICES ASSUME NEW c \in Collectors, NEW b \in Needed(c)'
               PROVE  Copied(c, b)'
    BY DEF Kill, NeededOK, shared
  <2>1. b \in Needed(c) /\ b # a /\ b \in Users
    BY DEF Kill, Forget, TypeOK, Needed
  <2>a. Copied(c, b)
    BY <2>1 DEF NeededOK
  <2>2. CASE c = a
    BY <1>k, <2>1, <2>a, <2>2 DEF OnlyMoves, Kill, Copied, ControlOK
  <2>3. CASE c # a
    BY <1>k, <2>1, <2>a, <2>3 DEF OnlyMoves, Kill, Copied, ControlOK
  <2> QED BY <2>2, <2>3
<1>9. ListConsistent'
  BY <1>k DEF Kill, ListConsistent
<1> QED BY <1>1, <1>2, <1>3, <1>4, <1>5, <1>6, <1>7, <1>8, <1>9 DEF IInv

---------------------------------------------------------------------------
(* The specification.                                                      *)

\* A commit number is drawn.
LEMMA CommitKeeps ==
  ASSUME IInv, Commit
  PROVE  IInv'
<1>1. UNCHANGED <<slots, slots_used, min_free_slot, snapshot_release_count,
                  mutex, pc, slot, number, list, scan, caught, dead>>
  BY DEF Commit, own, copy
<1>2. TypeOK'
  BY <1>1 DEF Commit, TypeOK, CommitNumbers, CN_PREHISTORIC
<1>3. ControlOK' /\ MutexOK' /\ ListConsistent'
  BY <1>1 DEF ControlOK, MutexOK, ListConsistent
<1>4. TakenOK' /\ OwnedOK' /\ FreedOK'
  BY <1>1 DEF TakenOK, Taken, OwnedOK, Owned, FreedOK, Freed
<1>5. ScanOK'
  BY <1>1 DEF ScanOK, Scanning
<1>6. NeededOK'
  <2>1. latest_commit_number \in Int /\ \A c \in Collectors : list[c].m_lastCommit \in Int
    BY DEF TypeOK, ActiveSnapshots, CommitNumbers, CN_PREHISTORIC, CN_ACTIVE
  <2>2. \A c \in Collectors : list[c].m_lastCommit <= latest_commit_number + 1
    BY <2>1 DEF NeededOK
  <2> QED BY <1>1, <2>2 DEF Commit, NeededOK, Needed, Copied
<1> QED BY <1>2, <1>3, <1>4, <1>5, <1>6

\* The list begins empty.
LEMMA InitKeeps ==
  ASSUME Init
  PROVE  IInv
<1>1. TypeOK
  BY NothingRead DEF Init, TypeOK, CommitNumbers, CN_PREHISTORIC, CN_ACTIVE
<1>2. ControlOK /\ MutexOK /\ ListConsistent
  BY DEF Init, ControlOK, MutexOK, ListConsistent, Slots
<1>3. TakenOK /\ OwnedOK /\ FreedOK
  BY DEF Init, TakenOK, Taken, OwnedOK, Owned, FreedOK, Freed
<1>4. ScanOK /\ NeededOK
  BY NothingRead DEF Init, ScanOK, Scanning, NeededOK, Needed, NoList, CN_ACTIVE, CN_PREHISTORIC
<1> QED BY <1>1, <1>2, <1>3, <1>4

\* Every step keeps the invariant.
LEMMA NextKeeps ==
  ASSUME IInv, [Next]_vars
  PROVE  IInv'
<1>1. CASE UNCHANGED vars
  <2>1. UNCHANGED <<slots, slots_used, min_free_slot, latest_commit_number,
                    snapshot_release_count, mutex, pc, slot, number, list, scan, caught, dead>>
    BY <1>1 DEF vars, shared, own, copy
  <2>2. TypeOK' /\ ControlOK' /\ MutexOK' /\ ListConsistent'
    BY <2>1 DEF TypeOK, ControlOK, MutexOK, ListConsistent
  <2>3. TakenOK' /\ OwnedOK' /\ FreedOK' /\ ScanOK' /\ NeededOK'
    BY <2>1 DEF TakenOK, Taken, OwnedOK, Owned, FreedOK, Freed, ScanOK, Scanning,
       NeededOK, Needed, Copied
  <2> QED BY <2>2, <2>3
<1>2. CASE Commit
  BY <1>2, CommitKeeps
<1>3. ASSUME NEW a \in Attachments,
             \/ allocateSnapshotSlot(a) \/ LoadCommitNumber(a)
             \/ StoreSnapshot(a) \/ StoreAttachment(a) \/ MoveWatermark(a)
      PROVE  IInv'
  BY <1>3, allocateSnapshotSlotKeeps, LoadCommitNumberKeeps, StoreSnapshotKeeps,
     StoreAttachmentKeeps, MoveWatermarkKeeps
<1>4. ASSUME NEW a \in Attachments,
             \/ endSnapshot(a) \/ ClearSnapshot(a) \/ ClearAttachment(a)
             \/ ShrinkUsed(a) \/ CountRelease(a)
      PROVE  IInv'
  BY <1>4, endSnapshotKeeps, ClearSnapshotKeeps, ClearAttachmentKeeps,
     ShrinkUsedKeeps, CountReleaseKeeps
<1>5. ASSUME NEW a \in Attachments,
             \/ LoadLastCommit(a) \/ LoadReleases(a) \/ LoadSlotsUsed(a)
             \/ ReadAttachment(a) \/ ProbeAttachment(a) \/ GuardSlot(a)
             \/ ReadSnapshot(a) \/ EndScan(a) \/ Kill(a)
      PROVE  IInv'
  BY <1>5, LoadLastCommitKeeps, LoadReleasesKeeps, LoadSlotsUsedKeeps,
     ReadAttachmentKeeps, ProbeAttachmentKeeps, GuardSlotKeeps, ReadSnapshotKeeps,
     EndScanKeeps, KillKeeps
<1> QED
  <2> HIDE DEF IInv
  <2> QED BY <1>1, <1>2, <1>3, <1>4, <1>5 DEF Next

\* So the invariant always holds.
LEMMA InvariantAlways == Spec => []IInv
<1>1. Init => IInv
  BY InitKeeps
<1>2. IInv /\ [Next]_vars => IInv'
  BY NextKeeps
<1> HIDE DEF IInv
<1> QED BY <1>1, <1>2, PTL DEF Spec

\* The list of snapshots keeps its types: slots and counters stay within their
\* bounds, whatever the interleaving of beginSnapshot, endSnapshot,
\* updateActiveSnapshots and the death of processes.
THEOREM ListTypes == Spec => []TypeOK
<1>1. IInv => TypeOK
  OBVIOUS
<1> HIDE DEF IInv
<1> QED BY <1>1, InvariantAlways, PTL

\* Wherever a process dies, the watermark and slots_used of tpc.cpp bound the
\* free and the used slots.
THEOREM ListConsistentAlways == Spec => []ListConsistent
<1>1. IInv => ListConsistent
  OBVIOUS
<1> HIDE DEF IInv
<1> QED BY <1>1, InvariantAlways, PTL

\* endSnapshot finds the snapshot of its attachment in its slot (the bugchecks of
\* deallocateSnapshotSlot are never met), whatever slots are freed around it.
THEOREM SnapshotKeptAlways == Spec => []SnapshotKept
<1>1. IInv => SnapshotKept
  <2> SUFFICES ASSUME IInv, NEW a \in Users \ dead, pc[a] = "held"
               PROVE  /\ slot[a] < slots_used
                      /\ slots[slot[a]] = [attachment_id |-> a, snapshot |-> number[a]]
    BY DEF SnapshotKept
  <2>1. /\ slot[a] \in Slots /\ slots[slot[a]].attachment_id = a
        /\ slots[slot[a]].snapshot = number[a]
    BY DEF OwnedOK, Owned
  <2>2. slot[a] < slots_used
    BY <2>1 DEF ListConsistent
  <2>3. slots[slot[a]] = [attachment_id |-> a, snapshot |-> number[a]]
    BY <2>1 DEF TypeOK
  <2> QED BY <2>2, <2>3
<1> HIDE DEF IInv
<1> QED BY <1>1, InvariantAlways, PTL

---------------------------------------------------------------------------
(* What garbage collection makes of the copy.                              *)

\* The snapshot a version belongs to is not older than the version.
LEMMA SnapshotNotOlder ==
  ASSUME TypeOK, NEW c \in Collectors, NEW cn \in Nat,
         getSnapshotForVersion(c, cn) # CN_ACTIVE
  PROVE  cn <= list[c].m_lastCommit /\ cn <= getSnapshotForVersion(c, cn)
<1> DEFINE m == list[c]
           later == {s \in m.m_snapshots : s >= cn}
<1>1. m.m_lastCommit \in Nat /\ m.m_snapshots \in SUBSET Nat
  BY DEF TypeOK, ActiveSnapshots, CommitNumbers, CN_PREHISTORIC, CN_ACTIVE
<1>2. cn <= m.m_lastCommit
  BY <1>1 DEF getSnapshotForVersion
<1>3. CASE later # {}
  <2>1. \E s \in later : \A u \in later : s <= u
    BY <1>1, <1>3, LeastNatural
  <2>2. getSnapshotForVersion(c, cn) = CHOOSE s \in later : \A u \in later : s <= u
    BY <1>1, <1>2, <1>3 DEF getSnapshotForVersion
  <2>3. getSnapshotForVersion(c, cn) \in later
    BY <2>1, <2>2
  <2> QED BY <1>1, <1>2, <2>3
<1>4. CASE later = {}
  BY <1>1, <1>2, <1>4 DEF getSnapshotForVersion
<1> QED BY <1>2, <1>3, <1>4

\* A version committed just before a snapshot in the copy belongs to it.
LEMMA SnapshotOfItself ==
  ASSUME TypeOK, NEW c \in Collectors, NEW cn \in list[c].m_snapshots,
         cn <= list[c].m_lastCommit
  PROVE  getSnapshotForVersion(c, cn) = cn
<1> DEFINE m == list[c]
           later == {s \in m.m_snapshots : s >= cn}
<1>1. m.m_lastCommit \in Nat /\ m.m_snapshots \in SUBSET Nat
  BY DEF TypeOK, ActiveSnapshots, CommitNumbers, CN_PREHISTORIC, CN_ACTIVE
<1>2. cn \in later /\ \A u \in later : cn <= u
  BY <1>1
<1>3. getSnapshotForVersion(c, cn) = CHOOSE s \in later : \A u \in later : s <= u
  BY <1>1, <1>2 DEF getSnapshotForVersion
<1>4. \A s \in later : (\A u \in later : s <= u) => s = cn
  BY <1>1, <1>2
<1> QED BY <1>2, <1>3, <1>4

\* VIO_intermediate_gc never removes a version that a snapshot needs, taken before,
\* during or after the collector's last scan of the slots: no slot freed, reused or
\* cleaned makes updateActiveSnapshots miss it, and those it does not find have
\* numbers at or past its last commit.  Left out are only the snapshots caught
\* between their number and their slot when the scan began.
THEOREM ScannedListSafeAlways == Spec => []ScannedListSafe
<1>1. IInv => ScannedListSafe
  <2> SUFFICES ASSUME IInv, NEW c \in Collectors \ dead, NEW a \in Users,
                      pc[c] = "rest", scan[c].path # "return",
                      number[a] # CN_ACTIVE, a \notin caught[c],
                      Going(c, number[a], number[a] + 1)
               PROVE  FALSE
    BY DEF ScannedListSafe, KeptFor
  <2> DEFINE s == number[a]
  <2>1. TypeOK /\ s \in Nat
    BY DEF TypeOK, CommitNumbers, CN_PREHISTORIC, CN_ACTIVE
  <2>2. list[c].m_lastCommit \in Nat
    BY <2>1 DEF TypeOK, ActiveSnapshots, CommitNumbers, CN_PREHISTORIC, CN_ACTIVE
  <2>3. getSnapshotForVersion(c, s + 1) # CN_ACTIVE /\
        getSnapshotForVersion(c, s) = getSnapshotForVersion(c, s + 1)
    BY DEF Going
  <2>4. s + 1 <= list[c].m_lastCommit /\ s + 1 <= getSnapshotForVersion(c, s + 1)
    <3> HIDE DEF IInv, s
    <3> QED BY <2>1, <2>3, SnapshotNotOlder
  <2>5. a \in Needed(c)
    BY <2>1, <2>2, <2>4 DEF Needed
  <2>6. s \in list[c].m_snapshots
    BY <2>5 DEF NeededOK, Copied
  <2>7. getSnapshotForVersion(c, s) = s
    <3> HIDE DEF IInv, s
    <3> QED BY <2>1, <2>2, <2>4, <2>6, SnapshotOfItself
  <2> HIDE DEF IInv, s
  <2> QED BY <2>1, <2>3, <2>4, <2>7
<1> HIDE DEF IInv
<1> QED BY <1>1, InvariantAlways, PTL
=============================================================================
