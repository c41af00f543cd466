---------------------------- MODULE SnapshotList ----------------------------
(***************************************************************************)
(* The list of active snapshots in shared memory (TipCache::SnapshotList,  *)
(* tpc.cpp), and the copy of it by which an attachment decides which       *)
(* record versions no snapshot needs (ActiveSnapshots, Attachment.cpp).    *)
(*                                                                         *)
(* Slots are changed under a mutex, one store at a time, and read without  *)
(* it.  A process may be killed between any two stores; the mutex then     *)
(* falls free.                                                             *)
(***************************************************************************)
EXTENDS Integers, FiniteSets

CONSTANTS
    Users,        \* attachments that take snapshots
    Collectors,   \* attachments that collect garbage
    Releasing,    \* users that end their snapshots
    Staying,      \* collectors that stay; any other detaches after one update,
                  \* and a new attachment comes in its place
    NONE,         \* no attachment: a free slot, a free mutex
    Mortal,       \* attachments that may be killed
    MaxSlots,     \* slots allocated
    MaxCommits,   \* bound: the largest commit number
    MaxReleases   \* bound: snapshots are taken and released until so many were

ASSUME SnapshotListAssumption ==
    /\ Users \intersect Collectors = {}
    /\ NONE \notin Users \union Collectors
    /\ Releasing \subseteq Users
    /\ Staying \subseteq Collectors
    /\ Mortal \subseteq Users \union Collectors
    /\ MaxSlots \in Nat /\ MaxCommits \in Nat \ {0} /\ MaxReleases \in Nat

Attachments == Users \union Collectors
Slots == 0 .. MaxSlots - 1
CN_ACTIVE == 0
CN_PREHISTORIC == 1
CommitNumbers == CN_PREHISTORIC .. MaxCommits

VARIABLES
    slots,                  \* attachment_id and snapshot of every slot
    slots_used,
    min_free_slot,
    mutex,                  \* holder of the list's mutex
    latest_commit_number,
    snapshot_release_count,
    pc,                     \* next step of each attachment
    slot,                   \* the slot it works on
    number,                 \* the snapshot number it holds or is about to store
    list,                   \* the ActiveSnapshots of each collector
    scan,                   \* what an update in progress has read
    dead,                   \* attachments killed
    caught                  \* history: users that had loaded a number, and not
                            \* published their slot, when a collector's last
                            \* update began

shared == <<slots, slots_used, min_free_slot, latest_commit_number, snapshot_release_count>>
own == <<slot, number>>
copy == <<list, scan, caught>>
vars == <<shared, mutex, pc, own, copy, dead>>

ActiveSnapshots ==
    [m_lastCommit : CommitNumbers \union {CN_ACTIVE},
     m_releaseCount : 0 .. MaxReleases,
     m_slots_used : 0 .. MaxSlots,
     m_snapshots : SUBSET CommitNumbers]

\* The locals of updateActiveSnapshots: the path taken, the slots to read, the
\* attachment found in the slot, and which attachments are known to be dead.
Scan ==
    [path : {"none", "slow", "fast", "return"},
     slots_used_org : 0 .. MaxSlots,
     attachment_id : Attachments \union {NONE},
     att_states : [Attachments -> {"unknown", "alive", "dead"}]]

NoScan ==
    [path |-> "none", slots_used_org |-> 0, attachment_id |-> NONE,
     att_states |-> [a \in Attachments |-> "unknown"]]

NoList ==
    [m_lastCommit |-> CN_ACTIVE, m_releaseCount |-> 0, m_slots_used |-> 0,
     m_snapshots |-> {}]

Init ==
    /\ slots = [i \in Slots |-> [attachment_id |-> NONE, snapshot |-> CN_ACTIVE]]
    /\ slots_used = 0
    /\ min_free_slot = 0
    /\ mutex = NONE
    /\ latest_commit_number = CN_PREHISTORIC
    /\ snapshot_release_count = 0
    /\ pc = [a \in Attachments |-> "rest"]
    /\ slot = [a \in Attachments |-> 0]
    /\ number = [a \in Attachments |-> CN_ACTIVE]
    /\ list = [c \in Collectors |-> NoList]
    /\ scan = [c \in Collectors |-> NoScan]
    /\ dead = {}
    /\ caught = [c \in Collectors |-> {}]

At(a, s) == a \notin dead /\ pc[a] = s
Goto(a, s) == pc' = [pc EXCEPT ![a] = s]

-----------------------------------------------------------------------------
(* beginSnapshot and endSnapshot.                                          *)

\* The first free slot from min_free_slot on, else a slot past those used.
FreeSlot ==
    LET free == {i \in min_free_slot .. slots_used - 1 : slots[i].attachment_id = NONE}
    IN  IF free # {} THEN CHOOSE i \in free : \A j \in free : i <= j
        ELSE IF min_free_slot > slots_used THEN min_free_slot ELSE slots_used

\* beginSnapshot locks the mutex and takes a slot.
allocateSnapshotSlot(a) ==
    /\ At(a, "rest") /\ a \in Users
    /\ snapshot_release_count < MaxReleases
    /\ mutex = NONE
    /\ FreeSlot < MaxSlots
    /\ mutex' = a
    /\ slot' = [slot EXCEPT ![a] = FreeSlot]
    /\ slots_used' = IF FreeSlot >= slots_used THEN FreeSlot + 1 ELSE slots_used
    /\ Goto(a, "load")
    /\ UNCHANGED <<slots, min_free_slot, latest_commit_number, snapshot_release_count,
                   number, copy, dead>>

LoadCommitNumber(a) ==
    /\ At(a, "load")
    /\ number' = [number EXCEPT ![a] = latest_commit_number]
    /\ Goto(a, "store")
    /\ UNCHANGED <<shared, mutex, slot, copy, dead>>

StoreSnapshot(a) ==
    /\ At(a, "store")
    /\ slots' = [slots EXCEPT ![slot[a]].snapshot = number[a]]
    /\ Goto(a, "publish")
    /\ UNCHANGED <<slots_used, min_free_slot, latest_commit_number,
                   snapshot_release_count, mutex, own, copy, dead>>

StoreAttachment(a) ==
    /\ At(a, "publish")
    /\ slots' = [slots EXCEPT ![slot[a]].attachment_id = a]
    /\ Goto(a, "watermark")
    /\ UNCHANGED <<slots_used, min_free_slot, latest_commit_number,
                   snapshot_release_count, mutex, own, copy, dead>>

MoveWatermark(a) ==
    /\ At(a, "watermark")
    /\ min_free_slot' = slot[a] + 1
    /\ mutex' = NONE
    /\ Goto(a, "held")
    /\ UNCHANGED <<slots, slots_used, latest_commit_number, snapshot_release_count,
                   own, copy, dead>>

\* The four stores of deallocateSnapshotSlot, for endSnapshot, which locks the
\* mutex first, and for the update that finds the slot of a dead attachment.
Lowered(i) == IF min_free_slot > i THEN i ELSE min_free_slot

\* The snapshot of attachment a is over.
Forget(a) == caught' = [c \in Collectors |-> caught[c] \ {a}]

\* Mutant: the watermark stays where it was.
endSnapshot_high(a) ==
    /\ At(a, "held") /\ a \in Releasing
    /\ snapshot_release_count < MaxReleases
    /\ mutex = NONE
    /\ mutex' = a
    /\ number' = [number EXCEPT ![a] = CN_ACTIVE]
    /\ Forget(a)
    /\ Goto(a, "clear")
    /\ UNCHANGED <<shared, slot, list, scan, dead>>

endSnapshot(a) ==
    /\ At(a, "held") /\ a \in Releasing
    /\ snapshot_release_count < MaxReleases
    /\ mutex = NONE
    /\ mutex' = a
    /\ min_free_slot' = Lowered(slot[a])
    /\ number' = [number EXCEPT ![a] = CN_ACTIVE]
    /\ Forget(a)
    /\ Goto(a, "clear")
    /\ UNCHANGED <<slots, slots_used, latest_commit_number, snapshot_release_count,
                   slot, list, scan, dead>>

ClearSnapshot(a) ==
    /\ At(a, "clear")
    /\ slots' = [slots EXCEPT ![slot[a]].snapshot = CN_ACTIVE]
    /\ Goto(a, "free")
    /\ UNCHANGED <<slots_used, min_free_slot, latest_commit_number,
                   snapshot_release_count, mutex, own, copy, dead>>

ClearAttachment(a) ==
    /\ At(a, "free")
    /\ slots' = [slots EXCEPT ![slot[a]].attachment_id = NONE]
    /\ Goto(a, "shrink")
    /\ UNCHANGED <<slots_used, min_free_slot, latest_commit_number,
                   snapshot_release_count, mutex, own, copy, dead>>

\* One past the last slot in use below i.
UsedBelow(i) ==
    LET used == {j \in 0 .. i - 1 : slots[j].attachment_id # NONE}
    IN  IF used = {} THEN 0 ELSE 1 + CHOOSE j \in used : \A k \in used : k <= j

ShrinkUsed(a) ==
    /\ At(a, "shrink")
    /\ slots_used' = IF slot[a] = slots_used - 1 THEN UsedBelow(slot[a]) ELSE slots_used
    /\ \/ /\ a \in Users
          /\ Goto(a, "count")
          /\ UNCHANGED <<slot, scan>>
       \/ /\ a \in Collectors
          /\ Goto(a, "scan")
          /\ slot' = [slot EXCEPT ![a] = @ + 1]
          /\ scan' = [scan EXCEPT ![a].attachment_id = NONE]
    /\ UNCHANGED <<slots, min_free_slot, latest_commit_number, snapshot_release_count,
                   mutex, number, list, caught, dead>>

\* Mutant: the release is counted with the slot and again at the end.
CountRelease_twice(a) ==
    /\ At(a, "count")
    /\ snapshot_release_count' = snapshot_release_count + 2
    /\ mutex' = NONE
    /\ slot' = [slot EXCEPT ![a] = 0]
    /\ Goto(a, "rest")
    /\ UNCHANGED <<slots, slots_used, min_free_slot, latest_commit_number, number,
                   copy, dead>>

CountRelease(a) ==
    /\ At(a, "count")
    /\ snapshot_release_count' = snapshot_release_count + 1
    /\ mutex' = NONE
    /\ slot' = [slot EXCEPT ![a] = 0]
    /\ Goto(a, "rest")
    /\ UNCHANGED <<slots, slots_used, min_free_slot, latest_commit_number, number,
                   copy, dead>>

-----------------------------------------------------------------------------
(* updateActiveSnapshots.                                                  *)

\* Users that have loaded their number and not yet published the slot it is in.
Unpublished == {a \in Users : pc[a] \in {"store", "publish"}}

\* The commit number is read first.  The first update of an attachment takes
\* the slow path.
LoadLastCommit(c) ==
    /\ At(c, "rest") /\ c \in Collectors
    /\ list' = [list EXCEPT ![c].m_lastCommit = latest_commit_number]
    /\ scan' = [scan EXCEPT ![c].path =
                  IF list[c].m_lastCommit = CN_ACTIVE THEN "slow" ELSE "fast"]
    /\ caught' = [caught EXCEPT ![c] = Unpublished]
    /\ Goto(c, IF list[c].m_lastCommit = CN_ACTIVE THEN "releases" ELSE "used")
    /\ UNCHANGED <<shared, mutex, own, dead>>

StartScan(c) ==
    /\ Goto(c, "scan")
    /\ slot' = [slot EXCEPT ![c] = 0]
    /\ UNCHANGED <<shared, mutex, number, caught, dead>>

LoadReleases(c) ==
    /\ At(c, "releases")
    /\ \/ /\ scan[c].path = "slow"
          /\ list' = [list EXCEPT ![c].m_releaseCount = snapshot_release_count]
          /\ Goto(c, "used")
          /\ UNCHANGED <<shared, mutex, own, scan, caught, dead>>
       \/ /\ scan[c].path = "fast"
          /\ \/ list[c].m_releaseCount # snapshot_release_count
             \/ list[c].m_slots_used # scan[c].slots_used_org
          /\ list' = [list EXCEPT ![c].m_releaseCount = snapshot_release_count,
                                  ![c].m_slots_used = scan[c].slots_used_org,
                                  ![c].m_snapshots = {}]
          /\ UNCHANGED scan
          /\ StartScan(c)
       \/ /\ scan[c].path = "fast"
          /\ list[c].m_releaseCount = snapshot_release_count
          /\ list[c].m_slots_used = scan[c].slots_used_org
          /\ scan' = [scan EXCEPT ![c] = [NoScan EXCEPT !.path = "return"]]
          /\ Goto(c, "rest")
          /\ UNCHANGED <<shared, mutex, own, list, caught, dead>>

LoadSlotsUsed(c) ==
    /\ At(c, "used")
    /\ scan' = [scan EXCEPT ![c].slots_used_org = slots_used]
    /\ \/ /\ scan[c].path = "slow"
          /\ list' = [list EXCEPT ![c].m_snapshots = {}]
          /\ StartScan(c)
       \/ /\ scan[c].path = "fast"
          /\ Goto(c, "releases")
          /\ UNCHANGED <<shared, mutex, own, list, caught, dead>>

NextSlot(c) ==
    /\ slot' = [slot EXCEPT ![c] = @ + 1]
    /\ Goto(c, "scan")

ReadAttachment(c) ==
    LET id == slots[slot[c]].attachment_id IN
    /\ At(c, "scan")
    /\ slot[c] < scan[c].slots_used_org
    /\ scan' = [scan EXCEPT ![c].attachment_id = id]
    /\ \/ id = NONE /\ NextSlot(c)
       \/ /\ id # NONE
          /\ Goto(c, IF scan[c].path = "slow" THEN "probe" ELSE "read")
          /\ UNCHANGED slot
    /\ UNCHANGED <<shared, mutex, number, list, caught, dead>>

\* An attachment is dead if its LCK_attachment lock can be had.  The lock
\* manager may not have noticed yet that a process is gone.
ProbeAttachment(c) ==
    LET id == scan[c].attachment_id
        known == scan[c].att_states[id]
    IN  /\ At(c, "probe")
        /\ \E state \in IF known # "unknown" THEN {known}
                        ELSE IF id \in dead THEN {"alive", "dead"} ELSE {"alive"} :
            /\ scan' = [scan EXCEPT ![c].att_states[id] = state]
            /\ Goto(c, IF state = "alive" THEN "read" ELSE "guard")
        /\ UNCHANGED <<shared, mutex, own, list, caught, dead>>

\* Mutant: the slot is not looked at again.
GuardSlot_blind(c) ==
    /\ At(c, "guard")
    /\ mutex \in {NONE, c}
    /\ mutex' = c
    /\ min_free_slot' = Lowered(slot[c])
    /\ Goto(c, "clear")
    /\ UNCHANGED <<slots, slots_used, latest_commit_number, snapshot_release_count,
                   own, copy, dead>>

\* The slot of a dead attachment is freed under the mutex, unless it was reused
\* while the mutex was waited for.  The mutex is kept until the scan ends.
GuardSlot(c) ==
    /\ At(c, "guard")
    /\ mutex \in {NONE, c}
    /\ mutex' = c
    /\ \/ /\ slots[slot[c]].attachment_id = scan[c].attachment_id
          /\ min_free_slot' = Lowered(slot[c])
          /\ Goto(c, "clear")
       \/ /\ slots[slot[c]].attachment_id # scan[c].attachment_id
          /\ Goto(c, "scan")
          /\ UNCHANGED min_free_slot
    /\ UNCHANGED <<slots, slots_used, latest_commit_number, snapshot_release_count,
                   own, copy, dead>>

ReadSnapshot(c) ==
    LET cn == slots[slot[c]].snapshot IN
    /\ At(c, "read")
    /\ list' = [list EXCEPT ![c].m_snapshots = @ \union ({cn} \ {CN_ACTIVE})]
    /\ scan' = [scan EXCEPT ![c].attachment_id = NONE]
    /\ NextSlot(c)
    /\ UNCHANGED <<shared, mutex, number, caught, dead>>

\* Mutant: the commit number is read when the slots have been, not before.
EndScan_late(c) ==
    /\ At(c, "scan")
    /\ slot[c] >= scan[c].slots_used_org
    /\ mutex' = IF mutex = c THEN NONE ELSE mutex
    /\ scan' = [scan EXCEPT ![c] = NoScan]
    /\ slot' = [slot EXCEPT ![c] = 0]
    /\ \/ /\ c \in Staying
          /\ list' = [list EXCEPT ![c].m_lastCommit = latest_commit_number]
          /\ UNCHANGED caught
       \/ /\ c \notin Staying
          /\ list' = [list EXCEPT ![c] = NoList]
          /\ caught' = [caught EXCEPT ![c] = {}]
    /\ Goto(c, "rest")
    /\ UNCHANGED <<shared, number, dead>>

\* The mutex, if it was needed, is released with the guard.
EndScan(c) ==
    /\ At(c, "scan")
    /\ slot[c] >= scan[c].slots_used_org
    /\ mutex' = IF mutex = c THEN NONE ELSE mutex
    /\ scan' = [scan EXCEPT ![c] = NoScan]
    /\ slot' = [slot EXCEPT ![c] = 0]
    /\ \/ c \in Staying /\ UNCHANGED <<list, caught>>
       \/ /\ c \notin Staying
          /\ list' = [list EXCEPT ![c] = NoList]
          /\ caught' = [caught EXCEPT ![c] = {}]
    /\ Goto(c, "rest")
    /\ UNCHANGED <<shared, number, dead>>

\* The snapshot a version committed as cn belongs to.
getSnapshotForVersion(c, cn) ==
    LET m == list[c]
        later == {s \in m.m_snapshots : s >= cn}
    IN  IF cn > m.m_lastCommit THEN CN_ACTIVE
        ELSE IF later # {} THEN CHOOSE s \in later : \A u \in later : s <= u
        ELSE m.m_lastCommit

\* VIO_intermediate_gc: of two versions next to each other that belong to the
\* same snapshot, the older one goes.
Going(c, older, newer) ==
    /\ getSnapshotForVersion(c, newer) # CN_ACTIVE
    /\ getSnapshotForVersion(c, older) = getSnapshotForVersion(c, newer)

-----------------------------------------------------------------------------

\* Some transaction commits.
Commit ==
    /\ latest_commit_number < MaxCommits
    /\ latest_commit_number' = latest_commit_number + 1
    /\ UNCHANGED <<slots, slots_used, min_free_slot, snapshot_release_count,
                   mutex, pc, own, copy, dead>>

\* What a process knew dies with it; what it stored stays.
Kill(a) ==
    /\ a \in Mortal \ dead
    /\ dead' = dead \union {a}
    /\ mutex' = IF mutex = a THEN NONE ELSE mutex
    /\ Goto(a, "rest")
    /\ slot' = [slot EXCEPT ![a] = 0]
    /\ number' = [number EXCEPT ![a] = CN_ACTIVE]
    /\ Forget(a)
    /\ UNCHANGED <<shared, list, scan>>

Next ==
    \/ Commit
    \/ \E a \in Attachments :
        \/ allocateSnapshotSlot(a) \/ LoadCommitNumber(a)
        \/ StoreSnapshot(a) \/ StoreAttachment(a) \/ MoveWatermark(a)
        \/ endSnapshot(a) \/ ClearSnapshot(a) \/ ClearAttachment(a)
        \/ ShrinkUsed(a) \/ CountRelease(a)
        \/ LoadLastCommit(a) \/ LoadReleases(a) \/ LoadSlotsUsed(a)
        \/ ReadAttachment(a) \/ ProbeAttachment(a) \/ GuardSlot(a)
        \/ ReadSnapshot(a) \/ EndScan(a) \/ Kill(a)

Spec == Init /\ [][Next]_vars

-----------------------------------------------------------------------------
(* What must hold.                                                         *)

\* The type of the state.
TypeOK ==
    /\ slots \in [Slots -> [attachment_id : Attachments \union {NONE},
                            snapshot : CommitNumbers \union {CN_ACTIVE}]]
    /\ slots_used \in 0 .. MaxSlots
    /\ min_free_slot \in 0 .. MaxSlots
    /\ mutex \in Attachments \union {NONE}
    /\ latest_commit_number \in CommitNumbers
    /\ snapshot_release_count \in 0 .. MaxReleases
    /\ slot \in [Attachments -> 0 .. MaxSlots]
    /\ number \in [Attachments -> CommitNumbers \union {CN_ACTIVE}]
    /\ list \in [Collectors -> ActiveSnapshots]
    /\ scan \in [Collectors -> Scan]
    /\ dead \subseteq Attachments
    /\ caught \in [Collectors -> SUBSET Users]

\* Wherever a process is killed, the list can be used by the next one: no free
\* slot lies below the watermark where the search for one starts, and no used
\* one at or past slots_used, where readers stop.
\* (tpc_proto.h: kept consistent at all times.)
ListConsistent ==
    \A i \in Slots :
        /\ slots[i].attachment_id = NONE => i >= min_free_slot
        /\ slots[i].attachment_id # NONE => i < slots_used

\* A living attachment that has a snapshot finds it in its slot, whatever the
\* cleaning of slots of dead attachments does: endSnapshot never meets its two
\* bugchecks, and readers of the list find the number.
SnapshotKept ==
    \A a \in Users \ dead :
        pc[a] = "held" => /\ slot[a] < slots_used
                          /\ slots[slot[a]] = [attachment_id |-> a, snapshot |-> number[a]]

\* The versions s and s + 1 never belong to the same snapshot for collector c
\* if attachment a has, or is about to publish, a snapshot s.  One whose number
\* was loaded before the update began and whose slot was published later is left
\* out: the update may miss it.
KeptFor(c, a) ==
    (number[a] # CN_ACTIVE /\ a \notin caught[c] /\ number[a] < latest_commit_number) =>
        ~Going(c, number[a], number[a] + 1)

\* A collector that read the slots keeps the version every snapshot needs, taken
\* before its update, during it or after, with slots freed, reused and cleaned
\* under it.  The only snapshots it may miss were caught between their number and
\* their slot.  (tpc.cpp: new snapshots will have numbers >= lastCommit and we
\* don't GC them.)
ScannedListSafe ==
    \A c \in Collectors \ dead : \A a \in Users :
        (pc[c] = "rest" /\ scan[c].path # "return") => KeptFor(c, a)

\* So does one that took the fast path and read no slot.  (tpc.cpp: no snapshot
\* with CN less than m_lastCommit could be missed at activeSnapshots.)
ListSafe == \A c \in Collectors \ dead : \A a \in Users : pc[c] = "rest" => KeptFor(c, a)
=============================================================================
