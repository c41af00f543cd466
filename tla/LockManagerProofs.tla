------------------------ MODULE LockManagerProofs ------------------------
(***************************************************************************)
(* Type correctness and LockTableInv are invariants of the lock manager,   *)
(* for any owners, processes, locks and requests.                          *)
(*                                                                         *)
(* Every routine that changes a lock block keeps it consistent (BlockInv): *)
(* its counters and its state agree with its requests, and the requests    *)
(* granted tolerate each other.  The heart of the argument is that it is   *)
(* enough to compare a request with the highest level granted, and that    *)
(* post_pending, granting one request after the other, does so with counts *)
(* that are up to date.                                                    *)
(*                                                                         *)
(* The proof for the table then works on the record of the state, as the   *)
(* routines of LockManager do: each of them maps a good table to a good    *)
(* table, hence each action does.                                          *)
(***************************************************************************)
EXTENDS LockManager, FiniteSetTheorems, WellFoundedInduction, SequenceTheorems, TLAPS

(* Lock blocks.                                                            *)

USE DEF LCK_none, LCK_null, LCK_SR, LCK_PR, LCK_SW, LCK_PW, LCK_EX

\* Every non-empty set of naturals has a least element.
LEMMA LeastElement ==
  ASSUME NEW S \in SUBSET Nat, S # {}
  PROVE  \E m \in S : \A k \in S : m <= k
<1>1. PICK m \in S : \A k \in S : <<k, m>> \notin OpToRel(<, Nat)
  BY WFMin, NatLessThanWellFounded
<1>2. \A k \in S : ~(k < m)
  BY <1>1 DEF OpToRel
<1> QED BY <1>2

\* The compatibility matrix of lock.cpp is symmetric: a new request may be compared
\* with the state of the lock, or a holder with the new request.
LEMMA CompatibilitySymmetric ==
  ASSUME NEW a \in Level, NEW b \in Level
  PROVE  compatibility(a, b) <=> compatibility(b, a)
BY DEF compatibility, Tolerates, Level

\* A level compatible with the highest level of mutually compatible holders is
\* compatible with every lower one: this is why the lock manager may test a
\* request against lbl_state alone, although SW and PR exclude each other.
LEMMA CompatibilityLower ==
  ASSUME NEW a \in Level, NEW h \in Level, NEW m \in Level,
         m <= h, compatibility(a, h), m = h \/ compatibility(m, h)
  PROVE  compatibility(a, m)
BY DEF compatibility, Tolerates, Level

\* lock_state returns the highest counted level, and that level is counted.
LEMMA LockStateHighest ==
  ASSUME NEW counts \in [GrantedLevel -> Int]
  PROVE  /\ lock_state(counts) \in Level
         /\ lock_state(counts) # LCK_none => counts[lock_state(counts)] > 0
         /\ \A m \in GrantedLevel : counts[m] > 0 => m <= lock_state(counts)
BY DEF lock_state, Level, GrantedLevel

\* The loop of downgrade() that lowers the level stops, at or below the held level.
LEMMA DowngradeLevelType ==
  ASSUME NEW held \in Level, NEW p \in Level
  PROVE  /\ DowngradeLevel(held, p) \in Level
         /\ DowngradeLevel(held, p) <= held
<1> DEFINE P(s) == /\ s = LCK_none \/ compatibility(p, s)
                   /\ \A t \in (s + 1) .. held : ~compatibility(p, t)
<1>1. \E s \in 0 .. held : P(s)
  <2> DEFINE Good == {n \in Nat : n <= held /\ \A t \in (n + 1) .. held : ~compatibility(p, t)}
  <2>1. held \in Good
    BY DEF Level
  <2>2. PICK m \in Good : \A k \in Good : m <= k
    BY <2>1, LeastElement
  <2>3. m = 0 \/ compatibility(p, m)
    <3> SUFFICES ASSUME m # 0, ~compatibility(p, m) PROVE FALSE
      OBVIOUS
    <3>1. m - 1 \in Good
      BY DEF Level
    <3> QED BY <2>2, <3>1
  <2> QED BY <2>2, <2>3 DEF Level
<1> QED BY <1>1 DEF DowngradeLevel, Level

--------------------------------------------------------------------------
(* Counting.                                                              *)

HeldCounts(f) == [m \in GrantedLevel |-> Cardinality({r \in Requests : f[r] = m})]

AllCompatible(f) == \A r, s \in Requests : r # s => compatibility(f[r], f[s])

\* Sets of requests are finite and have a cardinality.
LEMMA RequestSubsetsFinite ==
  ASSUME NEW S \in SUBSET Requests
  PROVE  IsFiniteSet(S) /\ Cardinality(S) \in Nat
BY RequestsAssumption, FS_Subset, FS_CardinalityType

\* Counting the requests at each level gives natural numbers.
LEMMA HeldCountsType ==
  ASSUME NEW f \in [Requests -> Level]
  PROVE  HeldCounts(f) \in [GrantedLevel -> Nat]
<1>1. \A m \in GrantedLevel : Cardinality({r \in Requests : f[r] = m}) \in Nat
  BY RequestSubsetsFinite
<1> QED BY <1>1 DEF HeldCounts

\* Counting after a request with no level has been given one: one more there.
LEMMA HeldCountsUpdate ==
  ASSUME NEW f \in [Requests -> Level], NEW r \in Requests, NEW t \in Level, f[r] = LCK_none
  PROVE  HeldCounts([f EXCEPT ![r] = t]) = Count(HeldCounts(f), t)
<1> DEFINE g == [f EXCEPT ![r] = t]
<1>1. ASSUME NEW m \in GrantedLevel
      PROVE  Cardinality({x \in Requests : g[x] = m}) =
               Cardinality({x \in Requests : f[x] = m}) + IF m = t THEN 1 ELSE 0
  <2>0. IsFiniteSet({x \in Requests : f[x] = m}) /\ Cardinality({x \in Requests : f[x] = m}) \in Nat
    BY RequestSubsetsFinite
  <2>1. CASE m = t
    <3>1. {x \in Requests : g[x] = m} = {x \in Requests : f[x] = m} \cup {r}
      BY <2>1
    <3>2. r \notin {x \in Requests : f[x] = m}
      BY DEF GrantedLevel
    <3> QED BY <2>0, <2>1, <3>1, <3>2, FS_AddElement
  <2>2. CASE m # t
    <3>1. {x \in Requests : g[x] = m} = {x \in Requests : f[x] = m}
      BY <2>2 DEF GrantedLevel
    <3>2. Cardinality({x \in Requests : g[x] = m}) = Cardinality({x \in Requests : f[x] = m})
      BY <3>1
    <3> HIDE DEF g
    <3> QED BY <2>0, <2>2, <3>2
  <2> QED BY <2>1, <2>2
<1> QED BY <1>1, HeldCountsType DEF HeldCounts, Count

\* Counting after a request has lost its level: one less there.
LEMMA HeldCountsErase ==
  ASSUME NEW f \in [Requests -> Level], NEW r \in Requests
  PROVE  HeldCounts([f EXCEPT ![r] = LCK_none]) = Uncount(HeldCounts(f), f[r])
<1> DEFINE g == [f EXCEPT ![r] = LCK_none]
<1>1. ASSUME NEW m \in GrantedLevel
      PROVE  Cardinality({x \in Requests : g[x] = m}) =
               Cardinality({x \in Requests : f[x] = m}) - IF m = f[r] THEN 1 ELSE 0
  <2>0. IsFiniteSet({x \in Requests : f[x] = m}) /\ Cardinality({x \in Requests : f[x] = m}) \in Nat
    BY RequestSubsetsFinite
  <2>1. CASE m = f[r]
    <3>1. {x \in Requests : g[x] = m} = {x \in Requests : f[x] = m} \ {r}
      BY <2>1 DEF GrantedLevel
    <3> QED BY <2>0, <2>1, <3>1, FS_RemoveElement
  <2>2. CASE m # f[r]
    <3>1. {x \in Requests : g[x] = m} = {x \in Requests : f[x] = m}
      BY <2>2 DEF GrantedLevel
    <3> QED BY <2>0, <2>2, <3>1
  <2> QED BY <2>1, <2>2
<1> QED BY <1>1, HeldCountsType DEF HeldCounts, Uncount

\* The state of the lock is the highest level held, and somebody holds it.
LEMMA HeldCountsHighest ==
  ASSUME NEW f \in [Requests -> Level]
  PROVE  /\ lock_state(HeldCounts(f)) \in Level
         /\ \A r \in Requests : f[r] <= lock_state(HeldCounts(f))
         /\ lock_state(HeldCounts(f)) # LCK_none =>
              \E r \in Requests : f[r] = lock_state(HeldCounts(f))
<1> DEFINE c == HeldCounts(f)
           h == lock_state(c)
<1>1. c \in [GrantedLevel -> Nat]
  BY HeldCountsType
<1>2. /\ h \in Level
      /\ h # LCK_none => c[h] > 0
      /\ \A m \in GrantedLevel : c[m] > 0 => m <= h
  BY <1>1, LockStateHighest
<1>3. ASSUME NEW r \in Requests PROVE f[r] <= h
  <2>1. CASE f[r] = LCK_none
    BY <1>2, <2>1 DEF Level
  <2>2. CASE f[r] # LCK_none
    <3>1. f[r] \in GrantedLevel
      BY <2>2 DEF Level, GrantedLevel
    <3>2. {x \in Requests : f[x] = f[r]} # {}
      OBVIOUS
    <3>3. c[f[r]] # 0 /\ c[f[r]] \in Nat
      BY <3>1, <3>2, <1>1, RequestSubsetsFinite, FS_EmptySet DEF HeldCounts
    <3> QED BY <1>2, <3>1, <3>3
  <2> QED BY <2>1, <2>2
<1>4. ASSUME h # LCK_none PROVE \E r \in Requests : f[r] = h
  <2>1. h \in GrantedLevel
    BY <1>2, <1>4 DEF Level, GrantedLevel
  <2>2. Cardinality({x \in Requests : f[x] = h}) > 0
    BY <1>2, <1>4, <2>1 DEF HeldCounts
  <2>3. {x \in Requests : f[x] = h} # {}
    BY <2>2, FS_EmptySet
  <2> QED BY <2>3
<1> QED BY <1>2, <1>3, <1>4

\* The safety argument of grant(): a request compatible with the state of the lock
\* computed without it can be granted beside all the other holders.
LEMMA GrantCompatible ==
  ASSUME NEW f \in [Requests -> Level], NEW r \in Requests, NEW t \in Level,
         AllCompatible(f),
         compatibility(t, lock_state(HeldCounts([f EXCEPT ![r] = LCK_none])))
  PROVE  AllCompatible([f EXCEPT ![r] = t])
<1> DEFINE g == [f EXCEPT ![r] = LCK_none]
           h == lock_state(HeldCounts(g))
<1>1. g \in [Requests -> Level]
  BY DEF Level
<1>2. ASSUME NEW x \in Requests, x # r PROVE compatibility(t, f[x])
  <2>1. h \in Level /\ f[x] <= h
    BY <1>1, <1>2, HeldCountsHighest
  <2>2. CASE h = LCK_none
    <3>1. f[x] = LCK_none
      BY <2>1, <2>2 DEF Level
    <3> QED BY <3>1, <2>2 
  <2>3. CASE h # LCK_none
    <3>1. PICK y \in Requests : g[y] = h
      BY <1>1, <2>3, HeldCountsHighest
    <3>2. y # r /\ f[y] = h
      BY <3>1, <2>3
    <3>3. f[x] = h \/ compatibility(f[x], h)
      BY <3>2 DEF AllCompatible
    <3> QED BY <2>1, <3>3, CompatibilityLower
  <2> QED BY <2>2, <2>3
<1>3. ASSUME NEW x \in Requests, x # r PROVE compatibility(f[x], t)
  BY <1>2, <1>3, CompatibilitySymmetric
<1> QED BY <1>2, <1>3 DEF AllCompatible

--------------------------------------------------------------------------
(* post_pending.                                                          *)

\* The levels held once the pending requests in S have been granted.
HeldAfter(B, S) ==
  [r \in Requests |-> IF r \in S THEN B.lrq_requested[r] ELSE B.lrq_state[r]]

\* The counts after granting a set of requests are those of the levels then held.
LEMMA CountsAfterGrants ==
  ASSUME NEW B \in Block, CountsAgree(B), NEW S \in SUBSET Requests
  PROVE  CountsAfter(B, S) = HeldCounts(HeldAfter(B, S))
<1> DEFINE f == B.lrq_state
           t == B.lrq_requested
           g == HeldAfter(B, S)
<1>1. f \in [Requests -> Level] /\ t \in [Requests -> Level]
  BY DEF Block
<1>2. ASSUME NEW m \in GrantedLevel
      PROVE  Cardinality({r \in Requests : g[r] = m}) =
               B.lbl_counts[m] - Cardinality({r \in S : f[r] = m})
                               + Cardinality({r \in S : t[r] = m})
  <2> DEFINE F == {r \in Requests : f[r] = m}
             L == {r \in S : f[r] = m}
             G == {r \in S : t[r] = m}
  <2>1. /\ IsFiniteSet(F) /\ Cardinality(F) \in Nat
        /\ IsFiniteSet(L) /\ Cardinality(L) \in Nat
        /\ IsFiniteSet(G) /\ Cardinality(G) \in Nat
    BY RequestSubsetsFinite
  <2>2. {r \in Requests : g[r] = m} = (F \ S) \cup G
    BY DEF HeldAfter
  <2>3. F \cap S = L
    OBVIOUS
  <2>4. (F \ S) \cap G = {}
    OBVIOUS
  <2>5. IsFiniteSet(F \ S) /\ Cardinality(F \ S) = Cardinality(F) - Cardinality(L)
    <3> HIDE DEF F, L, G
    <3>1. IsFiniteSet(F \ S) /\ Cardinality(F \ S) = Cardinality(F) - Cardinality(F \cap S)
      BY <2>1, FS_Difference, Zenon
    <3> QED BY <2>3, <3>1, Zenon
  <2>6. Cardinality((F \ S) \cup G) = Cardinality(F \ S) + Cardinality(G) - Cardinality((F \ S) \cap G)
    <3> HIDE DEF F, L, G
    <3> QED BY <2>1, <2>5, FS_Union, Zenon
  <2>7. Cardinality((F \ S) \cap G) = 0
    BY <2>4, FS_EmptySet
  <2>8. B.lbl_counts[m] = Cardinality(F)
    BY DEF CountsAgree
  <2>9. Cardinality((F \ S) \cup G) = B.lbl_counts[m] - Cardinality(L) + Cardinality(G)
    <3> HIDE DEF F, L, G
    <3> QED BY <2>1, <2>5, <2>6, <2>7, <2>8
  <2> QED BY <2>2, <2>9, Zenon
<1> QED BY <1>2 DEF CountsAfter, HeldCounts

\* The pending requests ahead of the first refused one, and no others, are
\* granted; each of them fits the levels held when its turn comes.
LEMMA GrantedAllCompatible ==
  ASSUME NEW B \in Block, BlockInv(B)
  PROVE  AllCompatible(HeldAfter(B, Granted(B)))
<1> DEFINE q == B.lbl_requests
           Ahead(i) == PendingAhead(B, i)
           Held(i) == HeldAfter(B, Ahead(i))
<1>1. q \in Seq(Requests) /\ Len(q) \in Nat /\ DOMAIN q = 1 .. Len(q)
  BY DEF Block
<1>2. B.lrq_state \in [Requests -> Level] /\ B.lrq_requested \in [Requests -> Level]
  BY DEF Block
<1>3. ASSUME NEW S \in SUBSET Requests
      PROVE  HeldAfter(B, S) \in [Requests -> Level]
  BY <1>2 DEF HeldAfter
<1>4. ASSUME NEW i \in 1 .. (Len(q) + 1) PROVE Ahead(i) \in SUBSET Requests
  BY <1>1 DEF PendingAhead
<1> DEFINE Reached(i) == \A j \in Refused(B) : i <= j
           Bad == {i \in 1 .. (Len(q) + 1) : Reached(i) /\ ~AllCompatible(Held(i))}
<1>5. Bad = {}
  <2> SUFFICES ASSUME Bad # {} PROVE FALSE
    OBVIOUS
  <2>1. PICK n \in Bad : \A k \in Bad : n <= k
    <3>1. Bad \in SUBSET Nat
      BY <1>1
    <3> QED BY <3>1, LeastElement
  <2>2. n # 1
    <3>1. Ahead(1) = {}
      BY DEF PendingAhead
    <3>2. Held(1) = B.lrq_state
      BY <3>1, <1>2 DEF HeldAfter
    <3>3. AllCompatible(Held(1))
      BY <3>2 DEF BlockInv, HeldCompatible, AllCompatible
    <3> QED BY <2>1, <3>3
  <2> DEFINE i == n - 1
             r == q[i]
  <2>3. i \in 1 .. Len(q) /\ r \in Requests /\ n = i + 1
    BY <1>1, <2>1, <2>2
  <2>4. Refused(B) \in SUBSET (1 .. Len(q))
    BY <1>1 DEF Refused
  <2>5. Reached(i)
    BY <2>1, <2>3, <2>4
  <2>6. AllCompatible(Held(i))
    BY <2>1, <2>3, <2>5
  <2>7. CASE ~IsPending(B, r)
    <3>1. Ahead(n) = Ahead(i)
      BY <2>3, <2>7 DEF PendingAhead
    <3> QED BY <2>1, <2>6, <3>1
  <2>8. CASE IsPending(B, r)
    <3>1. Ahead(n) = Ahead(i) \cup {r}
      BY <2>3, <2>8 DEF PendingAhead
    <3>2. r \notin Ahead(i)
      <4>0. \A j, k \in 1 .. Len(q) : q[j] = q[k] => j = k
        BY <1>1 DEF BlockInv, NoDuplicates
      <4>1. \A j \in 1 .. (i - 1) : q[j] # q[i]
        <5> HIDE DEF q, i, Bad
        <5> QED BY <1>1, <2>3, <4>0
      <4> QED BY <4>1 DEF PendingAhead
    <3>3. Held(n) = [Held(i) EXCEPT ![r] = B.lrq_requested[r]]
      BY <2>3, <3>1 DEF HeldAfter
    <3>4. Held(i)[r] = B.lrq_state[r]
      BY <2>3, <3>2 DEF HeldAfter
    <3>5. grantable(B, i)
      BY <1>1, <2>1, <2>3, <2>8 DEF Refused
    <3>6. compatibility(B.lrq_requested[r], lock_state(HeldCounts([Held(i) EXCEPT ![r] = LCK_none])))
      <4> DEFINE S == Ahead(i)
      <4>1. S \in SUBSET Requests /\ Held(i) \in [Requests -> Level]
        BY <1>3, <1>4, <2>3
      <4>2. CountsAfter(B, S) = HeldCounts(Held(i))
        BY <4>1, CountsAfterGrants DEF BlockInv
      <4>3. HeldCounts([Held(i) EXCEPT ![r] = LCK_none]) = Uncount(CountsAfter(B, S), B.lrq_state[r])
        BY <2>3, <3>4, <4>1, <4>2, HeldCountsErase
      <4>4. CASE B.lrq_state[r] # LCK_none
        BY <3>5, <4>3, <4>4 DEF grantable
      <4>5. CASE B.lrq_state[r] = LCK_none
        <5>1. [Held(i) EXCEPT ![r] = LCK_none] = Held(i)
          BY <3>4, <4>1, <4>5
        <5>2. S = {} => B.lbl_state = lock_state(HeldCounts(Held(i)))
          <6> SUFFICES ASSUME S = {} PROVE B.lbl_state = lock_state(HeldCounts(Held(i)))
            OBVIOUS
          <6>1. Held(i) = B.lrq_state
            BY <1>2 DEF HeldAfter
          <6>2. B.lbl_counts = HeldCounts(B.lrq_state)
            BY DEF Block, BlockInv, CountsAgree, HeldCounts
          <6> QED BY <6>1, <6>2 DEF BlockInv, CountsAgree
        <5> QED BY <3>5, <4>2, <4>5, <5>1, <5>2 DEF grantable
      <4> QED BY <4>4, <4>5
    <3>7. AllCompatible(Held(n))
      <4>1. Held(i) \in [Requests -> Level]
        BY <1>3, <1>4, <2>3
      <4>2. B.lrq_requested[r] \in Level
        BY <1>2, <2>3
      <4> QED BY <2>3, <2>6, <3>3, <3>6, <4>1, <4>2, GrantCompatible
    <3> QED BY <2>1, <3>7
  <2> QED BY <2>7, <2>8
<1>6. PICK n \in 1 .. (Len(q) + 1) : Reached(n) /\ Granted(B) = Ahead(n)
  <2>1. CASE Refused(B) = {}
    <3>1. Reached(Len(q) + 1)
      BY <2>1
    <3>2. Granted(B) = Ahead(Len(q) + 1)
      BY <1>1, <2>1 DEF Granted, PendingAhead
    <3> QED BY <1>1, <3>1, <3>2
  <2>2. CASE Refused(B) # {}
    <3>1. Refused(B) \in SUBSET Nat /\ Refused(B) \subseteq 1 .. Len(q)
      BY <1>1 DEF Refused
    <3>2. PICK m \in Refused(B) : \A k \in Refused(B) : m <= k
      BY <2>2, <3>1, LeastElement
    <3>3. Granted(B) = Ahead(m)
      BY <1>1, <3>1, <3>2 DEF Granted, PendingAhead
    <3> QED BY <1>1, <3>1, <3>2, <3>3
  <2> QED BY <2>1, <2>2
<1> QED BY <1>5, <1>6

--------------------------------------------------------------------------
(* Every routine maps good blocks to good blocks.                         *)

GoodBlock == {B \in Block : BlockInv(B)}

\* C is a good block with the requests of B, none of them newly pending.
Keeps(B, C) ==
  /\ C \in GoodBlock
  /\ Queued(C) = Queued(B)
  /\ \A r \in Requests : IsPending(C, r) => IsPending(B, r)

\* The entries of q at the n positions P, in the order f.
Listed(q, P, n, f) ==
  /\ EntriesAt(q, P) = [k \in 1 .. n |-> q[f[k]]]
  /\ \A j, k \in 1 .. n : f[j] = f[k] => j = k
  /\ \A i \in P : \E k \in 1 .. n : f[k] = i

\* Selecting positions of a sequence lists the entries at these positions, each
\* position once.
LEMMA EntriesAtIs ==
  ASSUME NEW S, NEW q \in Seq(S), NEW P \in SUBSET DOMAIN q
  PROVE  \E n \in Nat : \E f \in [1 .. n -> P] : Listed(q, P, n, f)
<1> DEFINE n == Cardinality(P)
           Upto(i) == {j \in P : j <= i}
           rank == [i \in P |-> Cardinality(Upto(i))]
<1>1. P \in SUBSET Nat /\ Len(q) \in Nat /\ DOMAIN q = 1 .. Len(q)
  OBVIOUS
<1>2. IsFiniteSet(P) /\ n \in Nat
  <2>1. IsFiniteSet(1 .. Len(q)) /\ P \in SUBSET (1 .. Len(q))
    BY <1>1, FS_Interval
  <2> QED BY <2>1, FS_Subset, FS_CardinalityType
<1>3. ASSUME NEW i \in P
      PROVE  /\ IsFiniteSet(Upto(i)) /\ Cardinality(Upto(i)) \in Nat
             /\ Cardinality(Upto(i)) <= n /\ Cardinality(Upto(i)) # 0
  <2>1. Upto(i) \in SUBSET P /\ i \in Upto(i)
    BY <1>1
  <2> HIDE DEF Upto
  <2> QED BY <1>2, <2>1, FS_Subset, FS_CardinalityType, FS_EmptySet
<1>4. rank \in [P -> 1 .. n]
  BY <1>2, <1>3
<1>5. ASSUME NEW i \in P, NEW j \in P, rank[i] = rank[j], i < j PROVE FALSE
  <2>1. Upto(i) \in SUBSET Upto(j) /\ j \in Upto(j) /\ j \notin Upto(i)
    BY <1>1, <1>5
  <2>2. Cardinality(Upto(i)) = Cardinality(Upto(j))
    BY <1>5
  <2> HIDE DEF Upto
  <2> QED BY <1>3, <2>1, <2>2, FS_Subset
<1>6. \A i, j \in P : rank[i] = rank[j] => i = j
  <2> HIDE DEF rank
  <2> QED BY <1>1, <1>5
<1> HIDE DEF rank
<1>7. rank \in Injection(P, 1 .. n)
  BY <1>4, <1>6 DEF Injection, IsInjective
<1>8. IsFiniteSet(1 .. n) /\ Cardinality(1 .. n) = n
  BY <1>2, FS_Interval
<1>9. rank \in Surjection(P, 1 .. n)
  BY <1>7, <1>8, FS_Injection
<1>10. ASSUME NEW k \in 1 .. n PROVE \E i \in P : Cardinality({j \in P : j <= i}) = k
  <2>1. PICK i \in P : rank[i] = k
    BY <1>9 DEF Surjection
  <2> QED BY <2>1 DEF rank
<1> DEFINE f == [k \in 1 .. n |-> CHOOSE i \in P : Cardinality({j \in P : j <= i}) = k]
<1>11. ASSUME NEW k \in 1 .. n PROVE f[k] \in P /\ rank[f[k]] = k
  <2>1. f[k] \in P /\ Cardinality({j \in P : j <= f[k]}) = k
    BY <1>10
  <2> HIDE DEF f
  <2> QED BY <2>1 DEF rank
<1>12. EntriesAt(q, P) = [k \in 1 .. n |-> q[f[k]]]
  BY DEF EntriesAt
<1>13. f \in [1 .. n -> P]
  BY <1>10
<1> HIDE DEF f, n
<1>14. ASSUME NEW i \in P PROVE \E k \in 1 .. n : f[k] = i
  <2>1. rank[i] \in 1 .. n
    BY <1>4
  <2>2. f[rank[i]] \in P /\ rank[f[rank[i]]] = rank[i]
    BY <1>11, <2>1
  <2> QED BY <1>6, <2>1, <2>2
<1>15. \A j, k \in 1 .. n : f[j] = f[k] => j = k
  BY <1>11
<1> QED BY <1>2, <1>12, <1>13, <1>14, <1>15 DEF Listed

\* Selecting positions of a sequence gives a sequence over the same set.
LEMMA EntriesAtType ==
  ASSUME NEW S, NEW q \in Seq(S), NEW P \in SUBSET DOMAIN q
  PROVE  EntriesAt(q, P) \in Seq(S)
<1>1. PICK n \in Nat : \E f \in [1 .. n -> P] : Listed(q, P, n, f)
  BY EntriesAtIs
<1>2. PICK f \in [1 .. n -> P] : EntriesAt(q, P) = [k \in 1 .. n |-> q[f[k]]]
  BY <1>1 DEF Listed
<1>3. \A k \in 1 .. n : q[f[k]] \in S
  OBVIOUS
<1> QED BY <1>2, <1>3

\* Taking a request out of a queue closes the gap at its place.
LEMMA RemoveRequestIs ==
  ASSUME NEW q \in Seq(Requests), NEW r \in Requests,
         \E i \in DOMAIN q : q[i] = r
  PROVE  \E n \in 1 .. Len(q) :
           /\ q[n] = r
           /\ RemoveRequest(q, r) = [i \in 1 .. (Len(q) - 1) |-> IF i < n THEN q[i] ELSE q[i + 1]]
<1> DEFINE n == CHOOSE i \in DOMAIN q : q[i] = r
           p == [i \in 1 .. (Len(q) - 1) |-> IF i < n THEN q[i] ELSE q[i + 1]]
<1>1. n \in 1 .. Len(q) /\ q[n] = r
  OBVIOUS
<1> HIDE DEF n
<1>2. SubSeq(q, 1, n - 1) \o SubSeq(q, n + 1, Len(q)) = p
  <2> DEFINE a == SubSeq(q, 1, n - 1)
             b == SubSeq(q, n + 1, Len(q))
  <2>1. a \in Seq(Requests) /\ Len(a) = n - 1 /\ \A i \in 1 .. (n - 1) : a[i] = q[i]
    BY <1>1
  <2>2. /\ b \in Seq(Requests) /\ Len(b) = Len(q) - n
        /\ \A i \in 1 .. (Len(q) - n) : b[i] = q[n + i]
    BY <1>1
  <2> HIDE DEF a, b
  <2>3. a \o b \in Seq(Requests) /\ Len(a \o b) = Len(q) - 1
    <3>1. a \o b \in Seq(Requests) /\ Len(a \o b) = Len(a) + Len(b)
      BY <2>1, <2>2
    <3>2. Len(a) + Len(b) = Len(q) - 1
      BY <1>1, <2>1, <2>2
    <3> QED BY <3>1, <3>2
  <2>4. p \in Seq(Requests) /\ Len(p) = Len(q) - 1
    BY <1>1
  <2>5. ASSUME NEW i \in 1 .. (Len(q) - 1) PROVE (a \o b)[i] = p[i]
    <3>1. CASE i < n
      <4>1. i \in 1 .. (n - 1) /\ i \in 1 .. Len(a)
        BY <1>1, <2>1, <3>1
      <4>2. (a \o b)[i] = a[i]
        BY <2>1, <2>2, <4>1
      <4>3. p[i] = q[i]
        BY <3>1
      <4> QED BY <2>1, <4>1, <4>2, <4>3, Zenon
    <3>2. CASE i >= n
      <4>1. (a \o b)[i] = b[i - (n - 1)]
        BY <1>1, <2>1, <2>2, <3>2
      <4> QED BY <1>1, <2>2, <3>2, <4>1
    <3>3. i < n \/ i >= n
      BY <1>1
    <3> QED BY <3>1, <3>2, <3>3, Zenon
  <2> HIDE DEF p
  <2>6. a \o b = p
    BY <2>3, <2>4, <2>5, SeqEqual
  <2> QED BY <2>6 DEF a, b
<1>3. RemoveRequest(q, r) = p
  BY <1>2 DEF RemoveRequest, RemoveAt, n
<1> QED BY <1>1, <1>3

\* Taking a request out of a queue in which it stands once leaves the others.
LEMMA RemoveRequestProperties ==
  ASSUME NEW q \in Seq(Requests), NEW r \in Requests,
         \A i, j \in DOMAIN q : q[i] = q[j] => i = j,
         \E i \in DOMAIN q : q[i] = r
  PROVE  LET p == RemoveRequest(q, r)
         IN  /\ p \in Seq(Requests)
             /\ \A i, j \in DOMAIN p : p[i] = p[j] => i = j
             /\ {p[i] : i \in DOMAIN p} = {q[i] : i \in DOMAIN q} \ {r}
<1>1. PICK n \in 1 .. Len(q) :
        /\ q[n] = r
        /\ RemoveRequest(q, r) = [i \in 1 .. (Len(q) - 1) |-> IF i < n THEN q[i] ELSE q[i + 1]]
  BY RemoveRequestIs
<1> DEFINE p == [i \in 1 .. (Len(q) - 1) |-> IF i < n THEN q[i] ELSE q[i + 1]]
<1>3. RemoveRequest(q, r) = p
  BY <1>1
<1>4. p \in Seq(Requests)
  BY <1>1
<1>5. \A i, j \in DOMAIN p : p[i] = p[j] => i = j
  BY <1>1
<1>6. {p[i] : i \in DOMAIN p} = {q[i] : i \in DOMAIN q} \ {r}
  <2>1. ASSUME NEW i \in DOMAIN p PROVE p[i] \in {q[j] : j \in DOMAIN q} \ {r}
    BY <1>1
  <2>2. ASSUME NEW j \in DOMAIN q, q[j] # r PROVE \E i \in DOMAIN p : p[i] = q[j]
    <3>1. CASE j < n
      BY <1>1, <3>1
    <3>2. CASE j > n
      <4>1. j - 1 \in DOMAIN p /\ p[j - 1] = q[j]
        BY <1>1, <3>2
      <4> QED BY <4>1
    <3> QED BY <1>1, <2>2, <3>1, <3>2
  <2> QED BY <2>1, <2>2
<1> DEFINE Removed(s) == /\ s \in Seq(Requests)
                         /\ \A i, j \in DOMAIN s : s[i] = s[j] => i = j
                         /\ {s[i] : i \in DOMAIN s} = {q[i] : i \in DOMAIN q} \ {r}
<1> HIDE DEF p
<1>7. Removed(p)
  BY <1>4, <1>5, <1>6
<1>8. Removed(RemoveRequest(q, r))
  <2> HIDE DEF Removed
  <2> QED BY <1>3, <1>7
<1> QED BY <1>8

\* Putting a request at the end of a queue adds it and nothing else.
LEMMA AppendRequestProperties ==
  ASSUME NEW q \in Seq(Requests), NEW r \in Requests
  PROVE  LET p == Append(q, r)
         IN  /\ p \in Seq(Requests)
             /\ {p[i] : i \in DOMAIN p} = {q[i] : i \in DOMAIN q} \cup {r}
             /\ (r \notin {q[i] : i \in DOMAIN q} /\ \A i, j \in DOMAIN q : q[i] = q[j] => i = j)
                  => \A i, j \in DOMAIN p : p[i] = p[j] => i = j
<1> DEFINE p == Append(q, r)
<1>1. /\ p \in Seq(Requests) /\ Len(p) = Len(q) + 1 /\ Len(q) \in Nat
      /\ p[Len(q) + 1] = r /\ \A i \in 1 .. Len(q) : p[i] = q[i]
      /\ DOMAIN p = 1 .. (Len(q) + 1) /\ DOMAIN q = 1 .. Len(q)
  OBVIOUS
<1> HIDE DEF p
<1>2. \A i \in DOMAIN p : i = Len(q) + 1 \/ i \in DOMAIN q
  BY <1>1
<1>3. DOMAIN q \subseteq DOMAIN p /\ Len(q) + 1 \in DOMAIN p
  BY <1>1
<1>4. {p[i] : i \in DOMAIN p} = {q[i] : i \in DOMAIN q} \cup {r}
  BY <1>1, <1>2, <1>3
<1>5. ASSUME r \notin {q[i] : i \in DOMAIN q}, \A i, j \in DOMAIN q : q[i] = q[j] => i = j
      PROVE  \A i, j \in DOMAIN p : p[i] = p[j] => i = j
  BY <1>1, <1>2, <1>5
<1> QED BY <1>1, <1>4, <1>5 DEF p

\* A block fresh from the free list is consistent.
LEMMA FreeBlockGood == FreeBlock \in GoodBlock
<1> DEFINE B == FreeBlock
<1>1. B \in Block
  BY DEF FreeBlock, Block, Level
<1>2. ASSUME NEW m \in GrantedLevel PROVE B.lbl_counts[m] = Cardinality({r \in Requests : B.lrq_state[r] = m})
  <2>1. {r \in Requests : B.lrq_state[r] = m} = {}
    BY DEF FreeBlock, GrantedLevel
  <2> QED BY <2>1, FS_EmptySet DEF FreeBlock
<1>3. B.lbl_pending_lrq_count = Cardinality({r \in Requests : IsPending(B, r)})
  <2>1. {r \in Requests : IsPending(B, r)} = {}
    BY DEF FreeBlock, IsPending
  <2> QED BY <2>1, FS_EmptySet DEF FreeBlock
<1>4. B.lbl_state = lock_state(B.lbl_counts)
  BY DEF FreeBlock, lock_state, GrantedLevel
<1>5. HeldCompatible(B)
  BY DEF FreeBlock, HeldCompatible, compatibility, Tolerates, Level
<1>6. NoDuplicates(B) /\ OnlyQueuedCount(B)
  BY DEF FreeBlock, NoDuplicates, OnlyQueuedCount, IsPending
<1> QED BY <1>1, <1>2, <1>3, <1>4, <1>5, <1>6 DEF GoodBlock, BlockInv, CountsAgree

\* A block that differs from a good one only in the requested levels and in flags
\* other than LRQ_pending is good.
LEMMA FlagsGood ==
  ASSUME NEW B \in GoodBlock, NEW C \in Block,
         C.lbl_requests = B.lbl_requests, C.lbl_counts = B.lbl_counts,
         C.lbl_state = B.lbl_state, C.lbl_pending_lrq_count = B.lbl_pending_lrq_count,
         C.lrq_state = B.lrq_state,
         \A r \in Requests : IsPending(C, r) <=> IsPending(B, r)
  PROVE  Keeps(B, C)
<1>1. {r \in Requests : IsPending(C, r)} = {r \in Requests : IsPending(B, r)}
  OBVIOUS
<1>2. CountsAgree(C)
  BY <1>1 DEF GoodBlock, BlockInv, CountsAgree
<1>3. NoDuplicates(C) /\ OnlyQueuedCount(C) /\ HeldCompatible(C) /\ Queued(C) = Queued(B)
  BY DEF GoodBlock, BlockInv, NoDuplicates, OnlyQueuedCount, HeldCompatible, Queued
<1> QED BY <1>2, <1>3 DEF GoodBlock, BlockInv, Keeps

\* Setting flags other than LRQ_pending keeps a block consistent.
LEMMA AddFlagsGood ==
  ASSUME NEW B \in GoodBlock, NEW S, NEW F \in SUBSET (LrqFlag \ {"pending"})
  PROVE  Keeps(B, AddFlags(B, S, F))
<1>1. AddFlags(B, S, F) \in Block
  BY DEF AddFlags, Block, GoodBlock
<1>2. \A r \in Requests : IsPending(AddFlags(B, S, F), r) <=> IsPending(B, r)
  BY DEF AddFlags, Block, GoodBlock, IsPending
<1> QED BY <1>1, <1>2, FlagsGood DEF AddFlags, GoodBlock, Block

\* Clearing flags other than LRQ_pending keeps a block consistent.
LEMMA ClearFlagsGood ==
  ASSUME NEW B \in GoodBlock, NEW S, NEW F \in SUBSET (LrqFlag \ {"pending"})
  PROVE  Keeps(B, ClearFlags(B, S, F))
<1>1. ClearFlags(B, S, F) \in Block
  BY DEF ClearFlags, Block, GoodBlock
<1>2. \A r \in Requests : IsPending(ClearFlags(B, S, F), r) <=> IsPending(B, r)
  BY DEF ClearFlags, Block, GoodBlock, IsPending
<1> QED BY <1>1, <1>2, FlagsGood DEF ClearFlags, GoodBlock, Block

\* post_blockage, marking the blockers, keeps a block consistent.
LEMMA MarkBlockingGood ==
  ASSUME NEW B \in GoodBlock, NEW S
  PROVE  Keeps(B, mark_blocking(B, S))
BY AddFlagsGood, ClearFlagsGood DEF mark_blocking, LrqFlag, Keeps

\* blocking_action, marking a blocker as told, keeps a block consistent.
LEMMA MarkSeenGood ==
  ASSUME NEW B \in GoodBlock, NEW r
  PROVE  Keeps(B, mark_seen(B, r))
BY AddFlagsGood, ClearFlagsGood DEF mark_seen, LrqFlag, Keeps

\* Leaving wait_for_request keeps a block consistent.
LEMMA EndWaitGood ==
  ASSUME NEW B \in GoodBlock, NEW r \in Requests
  PROVE  Keeps(B, end_wait(B, r))
BY ClearFlagsGood DEF end_wait, LrqFlag

\* A conversion that gives up keeps a block consistent.
LEMMA EndConvertGood ==
  ASSUME NEW B \in GoodBlock, NEW r \in Requests
  PROVE  Keeps(B, end_convert(B, r))
<1>1. end_convert(B, r) \in Block
  BY DEF end_convert, Block, GoodBlock
<1> QED BY <1>1, FlagsGood DEF end_convert, GoodBlock, Block, IsPending

\* The first half of internal_convert keeps a block consistent.
LEMMA BeginConvertGood ==
  ASSUME NEW B \in GoodBlock, NEW r \in Requests, NEW type \in Level
  PROVE  LET C == begin_convert(B, r, type)
         IN  /\ Keeps(B, C)
             /\ C.lrq_requested[r] = type
             /\ C.lrq_state = B.lrq_state /\ C.lbl_counts = B.lbl_counts
<1> DEFINE D == ClearFlags(B, {r}, {"blocking_seen"})
           C == begin_convert(B, r, type)
<1>1. Keeps(B, D) /\ D \in GoodBlock
  BY ClearFlagsGood DEF LrqFlag, Keeps
<1>2. D.lrq_state = B.lrq_state /\ D.lbl_counts = B.lbl_counts
  BY DEF ClearFlags, GoodBlock, Block
<1> HIDE DEF D
<1>3. C = [D EXCEPT !.lrq_requested[r] = type]
  BY DEF begin_convert, D
<1> HIDE DEF C
<1>4. C \in Block
  BY <1>1, <1>3 DEF Block, GoodBlock
<1>5. Keeps(D, C)
  BY <1>1, <1>3, <1>4, FlagsGood DEF GoodBlock, Block, IsPending
<1>6. Keeps(B, C)
  BY <1>1, <1>5 DEF Keeps
<1> QED BY <1>1, <1>2, <1>3, <1>6 DEF GoodBlock, Block, C

\* What a consistent block says, in terms of the levels held.
LEMMA GoodBlockCounts ==
  ASSUME NEW B \in GoodBlock
  PROVE  /\ B \in Block
         /\ B.lbl_counts = HeldCounts(B.lrq_state)
         /\ B.lbl_state = lock_state(HeldCounts(B.lrq_state))
         /\ AllCompatible(B.lrq_state)
         /\ Queued(B) \in SUBSET Requests
<1>1. B \in Block /\ BlockInv(B)
  BY DEF GoodBlock
<1>2. B.lbl_counts = HeldCounts(B.lrq_state)
  BY <1>1 DEF Block, BlockInv, CountsAgree, HeldCounts
<1>3. B.lbl_state = lock_state(HeldCounts(B.lrq_state))
  BY <1>1, <1>2 DEF BlockInv, CountsAgree
<1>4. AllCompatible(B.lrq_state)
  BY <1>1 DEF BlockInv, HeldCompatible, AllCompatible
<1>5. Queued(B) \in SUBSET Requests
  BY <1>1 DEF Block, Queued
<1> QED BY <1>1, <1>2, <1>3, <1>4, <1>5

\* The same in the other direction: how a block is shown to be consistent.
LEMMA BlockGood ==
  ASSUME NEW B \in Block, NoDuplicates(B), OnlyQueuedCount(B),
         B.lbl_counts = HeldCounts(B.lrq_state),
         B.lbl_state = lock_state(HeldCounts(B.lrq_state)),
         B.lbl_pending_lrq_count = Cardinality({r \in Requests : IsPending(B, r)}),
         AllCompatible(B.lrq_state)
  PROVE  B \in GoodBlock
BY DEF GoodBlock, BlockInv, CountsAgree, HeldCounts, HeldCompatible, AllCompatible

\* enqueue, putting a new request at the tail, keeps a block consistent.
LEMMA InsertRequestGood ==
  ASSUME NEW B \in GoodBlock, NEW r \in Requests \ Queued(B), NEW type \in Level
  PROVE  LET C == insert_request(B, r, type)
         IN  /\ C \in GoodBlock
             /\ Queued(C) = Queued(B) \cup {r}
             /\ C.lrq_requested[r] = type
             /\ C.lrq_state = B.lrq_state /\ C.lrq_state[r] = LCK_none
             /\ ~IsPending(C, r)
             /\ \A x \in Requests : IsPending(C, x) => IsPending(B, x)
<1> DEFINE C == insert_request(B, r, type)
<1>1. B \in Block /\ BlockInv(B)
  BY DEF GoodBlock
<1>2. B.lrq_state[r] = LCK_none /\ ~IsPending(B, r)
  BY <1>1 DEF BlockInv, OnlyQueuedCount
<1>3. /\ C.lbl_requests = Append(B.lbl_requests, r)
      /\ C.lrq_state = B.lrq_state
      /\ C.lbl_counts = B.lbl_counts /\ C.lbl_state = B.lbl_state
      /\ C.lbl_pending_lrq_count = B.lbl_pending_lrq_count
      /\ C.lrq_requested[r] = type
      /\ \A x \in Requests : IsPending(C, x) <=> IsPending(B, x)
  BY <1>1, <1>2 DEF Block, insert_request, IsPending
<1>4. C \in Block
  <2> DEFINE q == Append(B.lbl_requests, r)
             t == [B.lrq_requested EXCEPT ![r] = type]
             f == [B.lrq_state EXCEPT ![r] = LCK_none]
             x == [B.lrq_flags EXCEPT ![r] = {}]
  <2>1. q \in Seq(Requests)
    BY <1>1 DEF Block
  <2>2. /\ t \in [Requests -> Level] /\ f \in [Requests -> Level]
        /\ x \in [Requests -> SUBSET LrqFlag]
    BY <1>1 DEF Block, Level
  <2>3. C = [B EXCEPT !.lbl_requests = q, !.lrq_requested = t, !.lrq_state = f, !.lrq_flags = x]
    BY <1>1 DEF Block, insert_request
  <2> HIDE DEF q, t, f, x, C
  <2> QED BY <1>1, <2>1, <2>2, <2>3 DEF Block
<1> HIDE DEF C
<1>5. Queued(C) = Queued(B) \cup {r}
  <2>1. B.lbl_requests \in Seq(Requests) /\ r \in Requests
    BY <1>1 DEF Block
  <2> QED BY <1>3, <2>1, AppendRequestProperties DEF Queued
<1>6. NoDuplicates(C)
  BY <1>1, <1>3, AppendRequestProperties DEF Block, BlockInv, NoDuplicates, Queued
<1>7. OnlyQueuedCount(C)
  BY <1>1, <1>3, <1>5 DEF BlockInv, OnlyQueuedCount
<1>8. {x \in Requests : IsPending(C, x)} = {x \in Requests : IsPending(B, x)}
  BY <1>3
<1>9. CountsAgree(C) /\ HeldCompatible(C)
  BY <1>1, <1>3, <1>8 DEF BlockInv, CountsAgree, HeldCompatible
<1>10. C \in GoodBlock
  BY <1>4, <1>6, <1>7, <1>9 DEF GoodBlock, BlockInv
<1> QED BY <1>2, <1>3, <1>5, <1>10 DEF C

\* grant of a request that holds nothing, compatible with the lock.
LEMMA GrantGood ==
  ASSUME NEW B \in GoodBlock, NEW r \in Queued(B),
         B.lrq_state[r] = LCK_none,
         compatibility(B.lrq_requested[r], B.lbl_state)
  PROVE  Keeps(B, grant(B, r))
<1> DEFINE C == grant(B, r)
           f == B.lrq_state
           t == B.lrq_requested[r]
<1>1. B \in Block /\ BlockInv(B) /\ r \in Requests
  BY GoodBlockCounts DEF GoodBlock
<1>2. f \in [Requests -> Level] /\ t \in Level
  BY <1>1 DEF Block
<1>3. /\ C.lbl_requests = B.lbl_requests
      /\ C.lrq_state = [f EXCEPT ![r] = t]
      /\ C.lbl_counts = Count(B.lbl_counts, t)
      /\ C.lbl_state = lock_state(Count(B.lbl_counts, t))
      /\ C.lbl_pending_lrq_count = B.lbl_pending_lrq_count
      /\ C.lrq_flags = B.lrq_flags
  BY <1>1 DEF Block, grant
<1>4. HeldCounts([f EXCEPT ![r] = t]) = Count(B.lbl_counts, t)
  BY <1>1, <1>2, HeldCountsUpdate, GoodBlockCounts
<1>5. C \in Block
  <2>1. Count(B.lbl_counts, t) \in [GrantedLevel -> Nat]
    BY <1>1 DEF Block, Count
  <2>2. lock_state(Count(B.lbl_counts, t)) \in Level
    BY <2>1, LockStateHighest
  <2> QED BY <1>1, <1>2, <2>1, <2>2 DEF Block, grant
<1>6. [f EXCEPT ![r] = LCK_none] = f
  BY <1>2
<1>7. AllCompatible(C.lrq_state)
  BY <1>1, <1>2, <1>3, <1>6, GrantCompatible, GoodBlockCounts
<1> HIDE DEF C
<1>8. {x \in Requests : IsPending(C, x)} = {x \in Requests : IsPending(B, x)}
  BY <1>3 DEF IsPending
<1>9. NoDuplicates(C) /\ OnlyQueuedCount(C) /\ Queued(C) = Queued(B)
  BY <1>1, <1>2, <1>3 DEF BlockInv, NoDuplicates, OnlyQueuedCount, Queued, IsPending
<1>10. C \in GoodBlock
  BY <1>1, <1>3, <1>4, <1>5, <1>7, <1>8, <1>9, BlockGood DEF BlockInv, CountsAgree
<1> QED BY <1>8, <1>9, <1>10 DEF C, Keeps

\* A conversion compatible with every other request of the lock.
LEMMA GrantConvertGood ==
  ASSUME NEW B \in GoodBlock, NEW r \in Queued(B),
         compatibility(B.lrq_requested[r], StateWithout(B, r))
  PROVE  Keeps(B, grant_convert(B, r))
<1> DEFINE C == grant_convert(B, r)
           f == B.lrq_state
           g == [f EXCEPT ![r] = LCK_none]
           t == B.lrq_requested[r]
           counts == Count(Uncount(B.lbl_counts, f[r]), t)
<1>1. B \in Block /\ BlockInv(B) /\ r \in Requests
  BY GoodBlockCounts DEF GoodBlock
<1>2. f \in [Requests -> Level] /\ g \in [Requests -> Level] /\ t \in Level
  BY <1>1 DEF Block, Level
<1>3. /\ C.lbl_requests = B.lbl_requests
      /\ C.lrq_state = [f EXCEPT ![r] = t]
      /\ C.lbl_counts = counts
      /\ C.lbl_state = lock_state(counts)
      /\ C.lbl_pending_lrq_count = B.lbl_pending_lrq_count
      /\ C.lrq_requested = B.lrq_requested
      /\ C.lrq_flags = B.lrq_flags
      /\ C = [B EXCEPT !.lbl_counts = counts, !.lrq_state = [f EXCEPT ![r] = t],
                       !.lbl_state = lock_state(counts)]
  BY <1>1 DEF Block, grant_convert, grant
<1>4. HeldCounts(g) = Uncount(B.lbl_counts, f[r])
  BY <1>1, <1>2, HeldCountsErase, GoodBlockCounts
<1>5. HeldCounts([f EXCEPT ![r] = t]) = counts
  <2>1. [g EXCEPT ![r] = t] = [f EXCEPT ![r] = t] /\ g[r] = LCK_none
    BY <1>1, <1>2
  <2> HIDE DEF g
  <2> QED BY <1>1, <1>2, <1>4, <2>1, HeldCountsUpdate
<1>6. C \in Block
  <2>1. [f EXCEPT ![r] = t] \in [Requests -> Level]
    BY <1>2
  <2>2. counts \in [GrantedLevel -> Nat] /\ lock_state(counts) \in Level
    BY <1>5, <2>1, HeldCountsType, HeldCountsHighest
  <2> HIDE DEF counts, C
  <2> QED BY <1>1, <1>3, <2>1, <2>2 DEF Block
<1>7. AllCompatible(C.lrq_state)
  BY <1>1, <1>2, <1>3, <1>4, GrantCompatible, GoodBlockCounts DEF StateWithout
<1> HIDE DEF C, counts
<1>8. {x \in Requests : IsPending(C, x)} = {x \in Requests : IsPending(B, x)}
  BY <1>3 DEF IsPending
<1>9. NoDuplicates(C) /\ OnlyQueuedCount(C) /\ Queued(C) = Queued(B)
  BY <1>1, <1>2, <1>3 DEF BlockInv, NoDuplicates, OnlyQueuedCount, Queued, IsPending
<1>10. C \in GoodBlock
  BY <1>1, <1>3, <1>5, <1>6, <1>7, <1>8, <1>9, BlockGood DEF BlockInv, CountsAgree
<1> QED BY <1>8, <1>9, <1>10 DEF C, Keeps

\* The grants made by one call of post_pending keep a block consistent.
LEMMA GrantAllGood ==
  ASSUME NEW B \in GoodBlock
  PROVE  Keeps(B, GrantAll(B, Granted(B)))
<1> DEFINE S == Granted(B)
           C == GrantAll(B, S)
           f == HeldAfter(B, S)
           pending == {r \in Requests : IsPending(B, r)}
<1>1. B \in Block /\ BlockInv(B)
  BY DEF GoodBlock
<1>2. S \in SUBSET pending
  BY <1>1 DEF Granted, Block
<1> HIDE DEF S
<1>3. /\ C.lbl_requests = B.lbl_requests
      /\ C.lbl_counts = CountsAfter(B, S)
      /\ C.lbl_state = IF S = {} THEN B.lbl_state ELSE lock_state(CountsAfter(B, S))
      /\ C.lbl_pending_lrq_count = B.lbl_pending_lrq_count - Cardinality(S)
      /\ C.lrq_requested = B.lrq_requested
      /\ C.lrq_state = f
      /\ C.lrq_flags = [r \in Requests |-> IF r \in S THEN B.lrq_flags[r] \ {"pending"}
                                           ELSE B.lrq_flags[r]]
  BY <1>1 DEF Block, GrantAll, HeldAfter
<1>4. CountsAfter(B, S) = HeldCounts(f)
  BY <1>1, <1>2, CountsAfterGrants DEF BlockInv
<1>5. f \in [Requests -> Level]
  BY <1>1 DEF HeldAfter, Block
<1>6. C.lbl_state = lock_state(HeldCounts(f))
  <2>1. CASE S = {}
    <3>1. f = B.lrq_state
      BY <1>1, <2>1 DEF HeldAfter, Block
    <3> QED BY <1>3, <2>1, <3>1, GoodBlockCounts
  <2> QED BY <1>3, <1>4, <2>1
<1>7. {r \in Requests : IsPending(C, r)} = pending \ S
  BY <1>3 DEF IsPending
<1>8. C.lbl_pending_lrq_count = Cardinality(pending \ S) /\ C.lbl_pending_lrq_count \in Nat
  <2>1. IsFiniteSet(pending) /\ Cardinality(pending \ S) \in Nat
    BY RequestSubsetsFinite
  <2>2. pending \cap S = S
    BY <1>2
  <2>3. Cardinality(pending \ S) = Cardinality(pending) - Cardinality(S)
    <3> HIDE DEF pending, S
    <3>1. Cardinality(pending \ S) = Cardinality(pending) - Cardinality(pending \cap S)
      BY <2>1, FS_Difference, Zenon
    <3> QED BY <2>2, <3>1, Zenon
  <2>4. B.lbl_pending_lrq_count = Cardinality(pending)
    BY <1>1 DEF BlockInv, CountsAgree
  <2> QED BY <1>3, <2>1, <2>3, <2>4
<1>9. C \in Block
  <2>1. HeldCounts(f) \in [GrantedLevel -> Nat] /\ lock_state(HeldCounts(f)) \in Level
    BY <1>5, HeldCountsType, HeldCountsHighest
  <2>2. C.lrq_flags \in [Requests -> SUBSET LrqFlag]
    BY <1>1, <1>3 DEF Block
  <2>3. C = [B EXCEPT !.lbl_counts = C.lbl_counts, !.lbl_state = C.lbl_state,
                      !.lbl_pending_lrq_count = C.lbl_pending_lrq_count,
                      !.lrq_state = C.lrq_state, !.lrq_flags = C.lrq_flags]
    BY <1>1 DEF Block, GrantAll
  <2> HIDE DEF C, f
  <2> QED BY <1>1, <1>3, <1>4, <1>5, <1>6, <1>8, <2>1, <2>2, <2>3 DEF Block
<1> HIDE DEF C
<1>10. NoDuplicates(C) /\ Queued(C) = Queued(B)
  BY <1>1, <1>3 DEF BlockInv, NoDuplicates, Queued
<1>11. OnlyQueuedCount(C)
  BY <1>1, <1>2, <1>3, <1>10 DEF BlockInv, OnlyQueuedCount, IsPending, HeldAfter
<1>12. AllCompatible(f)
  BY <1>1, GrantedAllCompatible DEF S
<1>13. C \in GoodBlock
  <2> HIDE DEF f
  <2> QED BY <1>3, <1>4, <1>6, <1>7, <1>8, <1>9, <1>10, <1>11, <1>12, BlockGood
<1> QED BY <1>7, <1>10, <1>13 DEF C, S, Keeps

\* post_pending keeps a block consistent, queues nothing and makes nothing pending.
LEMMA PostPendingGood ==
  ASSUME NEW B \in GoodBlock
  PROVE  Keeps(B, post_pending(B))
<1> DEFINE C == GrantAll(B, Granted(B))
<1>1. Keeps(B, C)
  BY GrantAllGood
<1> HIDE DEF C
<1>2. Keeps(C, AddFlags(C, JustGranted(C), {"just_granted"}))
  BY <1>1, AddFlagsGood DEF LrqFlag, Keeps
<1>3. Keeps(B, B)
  BY DEF Keeps
<1> QED BY <1>1, <1>2, <1>3 DEF post_pending, C, Keeps

\* release_request, up to its call of post_pending, keeps a block consistent: the
\* counters go down exactly for the level that is given up.
LEMMA UnlinkRequestGood ==
  ASSUME NEW B \in GoodBlock, NEW r \in Queued(B)
  PROVE  LET C == unlink_request(B, r)
         IN  /\ C \in GoodBlock
             /\ Queued(C) = Queued(B) \ {r}
             /\ \A x \in Requests : IsPending(C, x) => IsPending(B, x)
<1> DEFINE C == unlink_request(B, r)
           q == RemoveRequest(B.lbl_requests, r)
           m == B.lrq_state[r]
           f == [B.lrq_state EXCEPT ![r] = LCK_none]
           pending == {x \in Requests : IsPending(B, x)}
<1>1. B \in Block /\ BlockInv(B) /\ r \in Requests
  BY GoodBlockCounts DEF GoodBlock
<1>2. /\ q \in Seq(Requests)
      /\ \A i, j \in DOMAIN q : q[i] = q[j] => i = j
      /\ {q[i] : i \in DOMAIN q} = Queued(B) \ {r}
  <2>1. B.lbl_requests \in Seq(Requests)
    BY <1>1 DEF Block
  <2>2. \E i \in DOMAIN B.lbl_requests : B.lbl_requests[i] = r
    BY DEF Queued
  <2>3. \A i, j \in DOMAIN B.lbl_requests : B.lbl_requests[i] = B.lbl_requests[j] => i = j
    BY <1>1 DEF BlockInv, NoDuplicates
  <2> QED BY <1>1, <2>1, <2>2, <2>3, RemoveRequestProperties DEF Queued
<1> HIDE DEF q
<1>3. CASE q = << >>
  <2>1. C = FreeBlock
    BY <1>3 DEF unlink_request, q
  <2>2. Queued(FreeBlock) = {} /\ Queued(B) \ {r} = {}
    BY <1>2, <1>3 DEF Queued, FreeBlock
  <2>3. \A x \in Requests : ~IsPending(FreeBlock, x)
    BY DEF FreeBlock, IsPending
  <2> QED BY <2>1, <2>2, <2>3, FreeBlockGood
<1>4. CASE q # << >>
  <2> DEFINE counts == Uncount(B.lbl_counts, m)
             pcount == IF IsPending(B, r) THEN B.lbl_pending_lrq_count - 1
                       ELSE B.lbl_pending_lrq_count
             ncounts == IF m = LCK_none THEN B.lbl_counts ELSE counts
             nstate == IF m # LCK_none /\ counts[m] = 0 THEN lock_state(counts) ELSE B.lbl_state
             t == [B.lrq_requested EXCEPT ![r] = LCK_none]
             x == [B.lrq_flags EXCEPT ![r] = {}]
  <2>1. C = [B EXCEPT !.lbl_requests = q, !.lbl_pending_lrq_count = pcount,
                      !.lbl_counts = ncounts, !.lbl_state = nstate,
                      !.lrq_requested = t, !.lrq_state = f, !.lrq_flags = x]
    BY <1>1, <1>4 DEF unlink_request, q, Block
  <2>2. f \in [Requests -> Level] /\ t \in [Requests -> Level]
        /\ x \in [Requests -> SUBSET LrqFlag] /\ m \in Level
    BY <1>1 DEF Block, Level
  <2>3. HeldCounts(f) = counts
    BY <1>1, HeldCountsErase, GoodBlockCounts DEF Block
  <2>4. ncounts = HeldCounts(f)
    <3>1. CASE m = LCK_none
      <4>1. f = B.lrq_state
        BY <1>1, <3>1 DEF Block
      <4> QED BY <3>1, <4>1, GoodBlockCounts
    <3> QED BY <2>3, <3>1
  <2>5. nstate = lock_state(HeldCounts(f))
    <3>1. CASE m = LCK_none
      <4>1. f = B.lrq_state
        BY <1>1, <3>1 DEF Block
      <4> QED BY <3>1, <4>1, GoodBlockCounts
    <3>2. CASE m # LCK_none /\ counts[m] = 0
      BY <2>3, <3>2
    <3>3. CASE m # LCK_none /\ counts[m] # 0
      <4> DEFINE c == B.lbl_counts
      <4>1. c \in [GrantedLevel -> Nat] /\ m \in GrantedLevel
        BY <1>1, <2>2, <3>3 DEF Block, Level, GrantedLevel
      <4>2. counts \in [GrantedLevel -> Nat]
        <5>1. HeldCounts(f) \in [GrantedLevel -> Nat]
          BY <2>2, HeldCountsType
        <5> QED BY <2>3, <5>1
      <4>3. \A n \in GrantedLevel : c[n] > 0 <=> counts[n] > 0
        BY <3>3, <4>1, <4>2 DEF Uncount
      <4>4. lock_state(c) = lock_state(counts)
        BY <4>1, <4>2, <4>3 DEF lock_state, GrantedLevel
      <4> QED BY <2>3, <3>3, <4>4, GoodBlockCounts
    <3> QED BY <3>1, <3>2, <3>3
  <2>6. pcount = Cardinality(pending \ {r}) /\ pcount \in Nat
    <3>1. IsFiniteSet(pending) /\ Cardinality(pending) \in Nat /\ Cardinality(pending \ {r}) \in Nat
      BY RequestSubsetsFinite
    <3>2. B.lbl_pending_lrq_count = Cardinality(pending)
      BY <1>1 DEF BlockInv, CountsAgree
    <3>3. Cardinality(pending \ {r}) = IF r \in pending THEN Cardinality(pending) - 1
                                       ELSE Cardinality(pending)
      BY <3>1, FS_RemoveElement
    <3>4. r \in pending <=> IsPending(B, r)
      BY <1>1
    <3> HIDE DEF pending
    <3> QED BY <3>1, <3>2, <3>3, <3>4
  <2>7. HeldCounts(f) \in [GrantedLevel -> Nat] /\ lock_state(HeldCounts(f)) \in Level
    BY <2>2, HeldCountsType, HeldCountsHighest
  <2> HIDE DEF C, f, t, x, pcount, ncounts, nstate
  <2>8. C \in Block
    BY <1>1, <1>2, <2>1, <2>2, <2>4, <2>5, <2>6, <2>7 DEF Block
  <2>9. /\ C.lbl_requests = q /\ C.lbl_pending_lrq_count = pcount
        /\ C.lbl_counts = ncounts /\ C.lbl_state = nstate
        /\ C.lrq_state = f /\ C.lrq_flags = x
    BY <1>1, <2>1 DEF Block
  <2>10. {y \in Requests : IsPending(C, y)} = pending \ {r}
    BY <1>1, <2>9 DEF IsPending, x, Block
  <2>11. NoDuplicates(C) /\ Queued(C) = Queued(B) \ {r}
    <3>1. Queued(C) = {q[i] : i \in DOMAIN q}
      BY <2>9 DEF Queued
    <3> QED BY <1>2, <2>9, <3>1 DEF NoDuplicates
  <2>12. OnlyQueuedCount(C)
    BY <1>1, <2>9, <2>11 DEF OnlyQueuedCount, BlockInv, IsPending, x, f, Block
  <2>13. AllCompatible(f)
    <3>1. compatibility(LCK_none, lock_state(HeldCounts(f)))
      BY <2>7 DEF compatibility, Tolerates
    <3>2. B.lrq_state \in [Requests -> Level] /\ AllCompatible(B.lrq_state) /\ LCK_none \in Level
      BY GoodBlockCounts DEF Block, Level
    <3> QED BY <1>1, <3>1, <3>2, GrantCompatible DEF f
  <2>14. C \in GoodBlock
    BY <2>4, <2>5, <2>6, <2>8, <2>9, <2>10, <2>11, <2>12, <2>13, BlockGood
  <2> QED BY <2>10, <2>11, <2>14 DEF C
<1> QED BY <1>3, <1>4

\* release_request keeps a block consistent and takes just this request away.
LEMMA ReleaseRequestGood ==
  ASSUME NEW B \in GoodBlock, NEW r \in Queued(B)
  PROVE  LET C == release_request(B, r)
         IN  /\ C \in GoodBlock
             /\ Queued(C) = Queued(B) \ {r}
             /\ \A x \in Requests : IsPending(C, x) => IsPending(B, x)
BY UnlinkRequestGood, PostPendingGood DEF release_request, Keeps

\* wait_for_request, marking the request pending and moving it to the tail, keeps
\* a block consistent.
LEMMA BeginWaitGood ==
  ASSUME NEW B \in GoodBlock, NEW r \in Queued(B), ~IsPending(B, r), NEW timed \in BOOLEAN
  PROVE  LET C == begin_wait(B, r, timed)
         IN  /\ C \in GoodBlock
             /\ Queued(C) = Queued(B)
             /\ \A x \in Requests \ {r} : IsPending(C, x) => IsPending(B, x)
<1> DEFINE C == begin_wait(B, r, timed)
           q == IF B.lrq_state[r] = LCK_none
                THEN Append(RemoveRequest(B.lbl_requests, r), r) ELSE B.lbl_requests
           n == B.lbl_pending_lrq_count + 1
           F == (B.lrq_flags[r] \ {"rejected"}) \cup {"pending"}
                  \cup (IF timed THEN {"wait_timeout"} ELSE {})
           x == [B.lrq_flags EXCEPT ![r] = F]
           pending == {y \in Requests : IsPending(B, y)}
<1>1. B \in Block /\ BlockInv(B) /\ r \in Requests
  BY GoodBlockCounts DEF GoodBlock
<1>2. /\ q \in Seq(Requests)
      /\ \A i, j \in DOMAIN q : q[i] = q[j] => i = j
      /\ {q[i] : i \in DOMAIN q} = Queued(B)
  <2> DEFINE p == RemoveRequest(B.lbl_requests, r)
  <2>1. B.lbl_requests \in Seq(Requests)
    BY <1>1 DEF Block
  <2>2. \E i \in DOMAIN B.lbl_requests : B.lbl_requests[i] = r
    BY DEF Queued
  <2>3. \A i, j \in DOMAIN B.lbl_requests : B.lbl_requests[i] = B.lbl_requests[j] => i = j
    BY <1>1 DEF BlockInv, NoDuplicates
  <2>4. /\ p \in Seq(Requests)
        /\ \A i, j \in DOMAIN p : p[i] = p[j] => i = j
        /\ {p[i] : i \in DOMAIN p} = Queued(B) \ {r}
    BY <1>1, <2>1, <2>2, <2>3, RemoveRequestProperties DEF Queued
  <2> HIDE DEF p
  <2>5. CASE B.lrq_state[r] = LCK_none
    <3>1. q = Append(p, r)
      BY <2>5 DEF p
    <3>2. r \notin {p[i] : i \in DOMAIN p}
      BY <2>4
    <3>3. (Queued(B) \ {r}) \cup {r} = Queued(B)
      OBVIOUS
    <3> HIDE DEF q
    <3> QED BY <1>1, <2>4, <3>1, <3>2, <3>3, AppendRequestProperties
  <2>6. CASE B.lrq_state[r] # LCK_none
    BY <2>1, <2>3, <2>6 DEF Queued
  <2> QED BY <2>5, <2>6
<1>3. C = [B EXCEPT !.lbl_pending_lrq_count = n, !.lbl_requests = q, !.lrq_flags = x]
  BY <1>1 DEF begin_wait, Block
<1>4. F \in SUBSET LrqFlag
  BY <1>1 DEF Block, LrqFlag
<1>5. n \in Nat /\ x \in [Requests -> SUBSET LrqFlag]
  <2> HIDE DEF F
  <2> QED BY <1>1, <1>4 DEF Block
<1> HIDE DEF C, q
<1>6. C \in Block
  <2> HIDE DEF n, x
  <2> QED BY <1>1, <1>2, <1>3, <1>5 DEF Block
<1>7. /\ C.lbl_pending_lrq_count = n /\ C.lbl_requests = q /\ C.lrq_flags = x
      /\ C.lbl_counts = B.lbl_counts /\ C.lbl_state = B.lbl_state /\ C.lrq_state = B.lrq_state
  <2> HIDE DEF n, x
  <2> QED BY <1>1, <1>3 DEF Block
<1>8. {y \in Requests : IsPending(C, y)} = pending \cup {r}
  <2>1. \A y \in Requests : IsPending(C, y) <=> (y = r \/ IsPending(B, y))
    BY <1>1, <1>7 DEF IsPending, Block
  <2> QED BY <1>1, <2>1
<1>9. n = Cardinality(pending \cup {r})
  <2>1. IsFiniteSet(pending) /\ r \notin pending
    BY RequestSubsetsFinite
  <2>2. B.lbl_pending_lrq_count = Cardinality(pending)
    BY <1>1 DEF BlockInv, CountsAgree
  <2> QED BY <2>1, <2>2, FS_AddElement
<1>10. NoDuplicates(C) /\ Queued(C) = Queued(B)
  <2>1. Queued(C) = {q[i] : i \in DOMAIN q}
    BY <1>7 DEF Queued
  <2> QED BY <1>2, <1>7, <2>1 DEF NoDuplicates
<1>11. OnlyQueuedCount(C)
  <2>1. \A y \in Requests \ Queued(B) : ~IsPending(C, y) <=> ~IsPending(B, y)
    BY <1>1, <1>7 DEF IsPending, Block
  <2> QED BY <1>1, <1>7, <1>10, <2>1 DEF OnlyQueuedCount, BlockInv
<1>12. C \in GoodBlock
  <2> HIDE DEF pending, n
  <2> QED BY <1>6, <1>7, <1>8, <1>9, <1>10, <1>11, BlockGood, GoodBlockCounts
<1> QED BY <1>8, <1>10, <1>12 DEF C

\* Turning a waiting request down keeps a block consistent.
LEMMA RejectGood ==
  ASSUME NEW B \in GoodBlock, NEW r \in Queued(B), IsPending(B, r)
  PROVE  Keeps(B, reject(B, r)) /\ ~IsPending(reject(B, r), r)
<1> DEFINE C == reject(B, r)
           n == B.lbl_pending_lrq_count - 1
           x == [B.lrq_flags EXCEPT ![r] = (B.lrq_flags[r] \ {"pending"}) \cup {"rejected"}]
           pending == {y \in Requests : IsPending(B, y)}
<1>1. B \in Block /\ BlockInv(B) /\ r \in Requests
  BY GoodBlockCounts DEF GoodBlock
<1>2. C = [B EXCEPT !.lbl_pending_lrq_count = n, !.lrq_flags = x]
  BY <1>1 DEF reject, Block
<1>3. n = Cardinality(pending \ {r}) /\ n \in Nat
  <2>1. IsFiniteSet(pending) /\ r \in pending /\ Cardinality(pending \ {r}) \in Nat
    BY <1>1, RequestSubsetsFinite
  <2>2. B.lbl_pending_lrq_count = Cardinality(pending)
    BY <1>1 DEF BlockInv, CountsAgree
  <2> HIDE DEF pending
  <2>3. Cardinality(pending \ {r}) = Cardinality(pending) - 1
    BY <2>1, FS_RemoveElement, Zenon
  <2> QED BY <2>1, <2>2, <2>3
<1>4. x \in [Requests -> SUBSET LrqFlag]
  BY <1>1 DEF Block, LrqFlag
<1> HIDE DEF C
<1>5. C \in Block
  <2> HIDE DEF n, x
  <2> QED BY <1>1, <1>2, <1>3, <1>4 DEF Block
<1>6. /\ C.lbl_pending_lrq_count = n /\ C.lbl_requests = B.lbl_requests /\ C.lrq_flags = x
      /\ C.lbl_counts = B.lbl_counts /\ C.lbl_state = B.lbl_state /\ C.lrq_state = B.lrq_state
  <2> HIDE DEF n, x
  <2> QED BY <1>1, <1>2 DEF Block
<1>7. {y \in Requests : IsPending(C, y)} = pending \ {r}
  <2>1. \A y \in Requests : IsPending(C, y) <=> (y # r /\ IsPending(B, y))
    BY <1>1, <1>6 DEF IsPending, Block
  <2> QED BY <1>1, <2>1
<1>8. NoDuplicates(C) /\ Queued(C) = Queued(B)
  BY <1>1, <1>6 DEF NoDuplicates, Queued, BlockInv
<1>9. OnlyQueuedCount(C)
  <2>1. \A y \in Requests \ Queued(B) : ~IsPending(C, y) <=> ~IsPending(B, y)
    BY <1>1, <1>6 DEF IsPending, Block
  <2> QED BY <1>1, <1>6, <1>8, <2>1 DEF OnlyQueuedCount, BlockInv
<1>10. C \in GoodBlock
  <2> HIDE DEF pending, n
  <2> QED BY <1>3, <1>5, <1>6, <1>7, <1>8, <1>9, BlockGood, GoodBlockCounts
<1> QED BY <1>1, <1>7, <1>8, <1>10 DEF C, Keeps

HIDE DEF LCK_none, LCK_null, LCK_SR, LCK_PR, LCK_SW, LCK_PW, LCK_EX

-----------------------------------------------------------------------------
(* The lock table.                                                         *)

Table ==
  [ lbl          : [Locks -> Block],
    lhb_owners   : SUBSET Owners,
    own_count    : [Owners -> Nat],
    own_flags    : [Owners -> SUBSET OwnFlag],
    own_blocks   : [Owners -> Seq(Requests \cup {Repost})],
    prc_blocking : [Processes -> BOOLEAN],
    pc           : [Requests -> Place],
    sig          : [Requests -> Seq(Owners)],
    ast          : [Threads -> Owners \cup {NoOwner}],
    dead         : SUBSET Processes ]

OneDead(d) == d \subseteq Crashable /\ \A p, q \in d : p = q

GoodTable ==
  {T \in Table : /\ \A l \in Locks : T.lbl[l] \in GoodBlock
                 /\ Linked(T.lbl, T.pc)
                 /\ OneDead(T.dead)}

\* The inductive invariant, as a statement about the record of the state.
LEMMA InvIsGoodTable == (TypeOK /\ LockTableInv) <=> Now \in GoodTable
<1>1. TypeOK <=> Now \in Table
  BY DEF TypeOK, Now, Table
<1>2. ASSUME TypeOK
      PROVE  LockTableInv <=> /\ \A l \in Locks : Now.lbl[l] \in GoodBlock
                              /\ Linked(Now.lbl, Now.pc)
                              /\ OneDead(Now.dead)
  BY <1>2 DEF TypeOK, LockTableInv, Now, GoodBlock, OneDead
<1> QED BY <1>1, <1>2 DEF GoodTable

\* A table with the lock blocks and places of a good one is good.
LEMMA SameLocks ==
  ASSUME NEW T \in GoodTable, NEW U \in Table,
         U.lbl = T.lbl, U.pc = T.pc, U.dead = T.dead
  PROVE  U \in GoodTable
BY DEF GoodTable

\* What a good table says of the lock of one request.
LEMMA BlockOfGood ==
  ASSUME NEW T \in GoodTable, NEW r \in Requests
  PROVE  /\ T \in Table
         /\ BlockOf(T, r) \in GoodBlock
         /\ lrq_lock[r] \in Locks
         /\ r \in Queued(BlockOf(T, r)) <=> T.pc[r] # "free"
         /\ IsPending(BlockOf(T, r), r) => T.pc[r] \in {"wait", "post"}
BY ManagerAssumption DEF GoodTable, BlockOf, Linked

\* Queues and places still agree when one request moves and its block changes with it.
LEMMA LinkedUpdate ==
  ASSUME NEW b \in [Locks -> GoodBlock], NEW p \in [Requests -> Place], Linked(b, p),
         NEW r \in Requests, NEW C \in GoodBlock, NEW where \in Place,
         Queued(C) \ {r} = Queued(b[lrq_lock[r]]) \ {r},
         r \in Queued(C) <=> where # "free",
         \A x \in Requests \ {r} : IsPending(C, x) => IsPending(b[lrq_lock[r]], x),
         IsPending(C, r) => where \in {"wait", "post"}
  PROVE  LET c == [b EXCEPT ![lrq_lock[r]] = C]
             q == [p EXCEPT ![r] = where]
         IN  /\ c \in [Locks -> GoodBlock]
             /\ q \in [Requests -> Place]
             /\ Linked(c, q)
<1> DEFINE k == lrq_lock[r]
           c == [b EXCEPT ![k] = C]
           q == [p EXCEPT ![r] = where]
<1>1. k \in Locks /\ lrq_lock \in [Requests -> Locks]
  BY ManagerAssumption
<1>2. c \in [Locks -> GoodBlock] /\ q \in [Requests -> Place]
  OBVIOUS
<1>3. ASSUME NEW x \in Requests, NEW l \in Locks
      PROVE  x \in Queued(c[l]) <=> (l = lrq_lock[x] /\ q[x] # "free")
  <2>1. x \in Queued(b[l]) <=> (l = lrq_lock[x] /\ p[x] # "free")
    BY DEF Linked
  <2>2. CASE x = r
    BY <1>1, <2>1, <2>2
  <2>3. CASE x # r
    BY <1>1, <2>1, <2>3
  <2> QED BY <2>2, <2>3
<1>4. ASSUME NEW x \in Requests, IsPending(c[lrq_lock[x]], x)
      PROVE  q[x] \in {"wait", "post"}
  <2>1. IsPending(b[lrq_lock[x]], x) => p[x] \in {"wait", "post"}
    BY DEF Linked
  <2>2. CASE x = r
    BY <1>1, <1>4, <2>2
  <2>3. CASE x # r
    BY <1>1, <1>4, <2>1, <2>3
  <2> QED BY <2>2, <2>3
<1> HIDE DEF c, q
<1>5. Linked(c, q)
  BY <1>3, <1>4 DEF Linked
<1> QED BY <1>2, <1>5 DEF c, q

\* Request r moves to a place, and its lock block becomes C.
LEMMA MoveGood ==
  ASSUME NEW T \in GoodTable, NEW U \in Table,
         NEW r \in Requests, NEW C \in GoodBlock, NEW where \in Place,
         Queued(C) \ {r} = Queued(BlockOf(T, r)) \ {r},
         r \in Queued(C) <=> where # "free",
         \A x \in Requests \ {r} : IsPending(C, x) => IsPending(BlockOf(T, r), x),
         IsPending(C, r) => where \in {"wait", "post"},
         U.lbl = [T.lbl EXCEPT ![lrq_lock[r]] = C],
         U.pc = [T.pc EXCEPT ![r] = where], U.dead = T.dead
  PROVE  U \in GoodTable
<1>1. T.lbl \in [Locks -> GoodBlock] /\ T.pc \in [Requests -> Place] /\ Linked(T.lbl, T.pc)
  BY DEF GoodTable, Table
<1>2. U.lbl \in [Locks -> GoodBlock] /\ Linked(U.lbl, U.pc)
  BY <1>1, LinkedUpdate DEF BlockOf
<1> QED BY <1>2 DEF GoodTable

\* The block of request r becomes C, with the same requests.
LEMMA WithBlockGood ==
  ASSUME NEW T \in GoodTable, NEW r \in Requests, NEW C, Keeps(BlockOf(T, r), C)
  PROVE  LET U == WithBlock(T, r, C)
         IN  U \in GoodTable /\ U.pc = T.pc /\ BlockOf(U, r) = C
<1> DEFINE U == WithBlock(T, r, C)
<1>1. C \in GoodBlock /\ C \in Block /\ T \in Table /\ lrq_lock[r] \in Locks
  BY BlockOfGood DEF Keeps, GoodBlock
<1>2. U \in Table
  BY <1>1 DEF WithBlock, Table
<1>3. U.lbl = [T.lbl EXCEPT ![lrq_lock[r]] = C] /\ U.pc = T.pc /\ U.dead = T.dead
  BY <1>1 DEF WithBlock, Table
<1>4. U.pc = [T.pc EXCEPT ![r] = T.pc[r]] /\ T.pc[r] \in Place
  BY <1>1, <1>3 DEF Table
<1>5. BlockOf(U, r) = C
  BY <1>1, <1>3 DEF BlockOf, Table
<1> HIDE DEF U
<1>6. U \in GoodTable
  BY <1>1, <1>2, <1>3, <1>4, BlockOfGood, MoveGood DEF Keeps
<1> QED BY <1>3, <1>5, <1>6 DEF U

\* Clearing flags of an owner touches no lock.
LEMMA DropFlagsGood ==
  ASSUME NEW T \in GoodTable, NEW o \in Owners, NEW F
  PROVE  LET U == DropFlags(T, o, F)
         IN  U \in GoodTable /\ U.pc = T.pc /\ U.lbl = T.lbl
<1>1. T \in Table
  BY DEF GoodTable
<1>2. DropFlags(T, o, F) \in Table
  BY <1>1 DEF DropFlags, Table
<1> QED BY <1>1, <1>2, SameLocks DEF DropFlags, Table

\* post_wakeup touches no lock and moves no thread.
LEMMA PostWakeupGood ==
  ASSUME NEW T \in Table, NEW S
  PROVE  LET U == post_wakeup(T, S)
         IN  /\ U \in Table /\ U.pc = T.pc /\ U.lbl = T.lbl /\ U.dead = T.dead
             /\ T \in GoodTable => U \in GoodTable
<1> DEFINE F == [o \in Owners |-> IF (\E r \in S : lrq_owner[r] = o) /\ own_waits(T, o) > 0
                                  THEN T.own_flags[o] \cup {"wakeup"} ELSE T.own_flags[o]]
           U == post_wakeup(T, S)
<1>1. F \in [Owners -> SUBSET OwnFlag]
  BY DEF Table, OwnFlag
<1>2. U = [T EXCEPT !.own_flags = F]
  BY DEF post_wakeup
<1> HIDE DEF F
<1>3. U \in Table
  BY <1>1, <1>2 DEF Table
<1>4. U.pc = T.pc /\ U.lbl = T.lbl /\ U.dead = T.dead
  BY <1>2 DEF Table
<1> QED BY <1>3, <1>4, SameLocks

\* post_pending, where the block of request r has become B in a good table.
LEMMA PostPendingTableGood ==
  ASSUME NEW T \in GoodTable, NEW r \in Requests, NEW B, Keeps(BlockOf(T, r), B)
  PROVE  LET U == PostPending(T, r, B) IN U \in GoodTable /\ U.pc = T.pc
<1>1. B \in GoodBlock
  BY DEF Keeps
<1>2. Keeps(BlockOf(T, r), post_pending(B))
  BY <1>1, PostPendingGood DEF Keeps
<1>3. LET V == WithBlock(T, r, post_pending(B))
      IN  V \in GoodTable /\ V \in Table /\ V.pc = T.pc
  BY <1>2, WithBlockGood DEF GoodTable
<1> QED BY <1>3, PostWakeupGood DEF PostPending

\* The end of a granted enqueue or conversion keeps the table good.
LEMMA GrantAndPostGood ==
  ASSUME NEW T \in GoodTable, NEW r \in Requests, NEW B, Keeps(BlockOf(T, r), B)
  PROVE  LET U == GrantAndPost(T, r, B) IN U \in GoodTable /\ U.pc = T.pc
<1> DEFINE V == post_wakeup(T, {r})
<1>1. V \in GoodTable /\ V.pc = T.pc /\ V.lbl = T.lbl
  BY PostWakeupGood DEF GoodTable
<1>2. BlockOf(V, r) = BlockOf(T, r)
  BY <1>1 DEF BlockOf
<1> HIDE DEF V
<1>3. LET U == PostPending(V, r, B) IN U \in GoodTable /\ U.pc = V.pc
  BY <1>1, <1>2, PostPendingTableGood
<1> QED BY <1>1, <1>3 DEF GrantAndPost, V

\* Every request has an owner and a lock.
LEMMA OwnerOfRequest ==
  ASSUME NEW r \in Requests PROVE lrq_owner[r] \in Owners /\ lrq_lock[r] \in Locks
BY ManagerAssumption

\* release_request keeps the table good and frees the request.
LEMMA ReleaseRequestTableGood ==
  ASSUME NEW T \in GoodTable, NEW r \in Requests, T.pc[r] # "free"
  PROVE  LET U == ReleaseRequest(T, r)
         IN  U \in GoodTable /\ U.pc = [T.pc EXCEPT ![r] = "free"]
<1> DEFINE o == lrq_owner[r]
           q == T.own_blocks[o]
           e == EntriesAt(q, {i \in DOMAIN q : q[i] # r})
           p == [T.pc EXCEPT ![r] = "free"]
           x == [T.own_blocks EXCEPT ![o] = e]
           T1 == [T EXCEPT !.pc = p, !.own_blocks = x]
           B == unlink_request(BlockOf(T, r), r)
           C == post_pending(B)
           V == WithBlock(T1, r, C)
           U == ReleaseRequest(T, r)
<1>1. T \in Table /\ o \in Owners /\ lrq_lock[r] \in Locks
  BY OwnerOfRequest DEF GoodTable
<1>2. q \in Seq(Requests \cup {Repost})
  BY <1>1 DEF Table
<1>3. e \in Seq(Requests \cup {Repost})
  <2>1. {i \in DOMAIN q : q[i] # r} \in SUBSET DOMAIN q
    OBVIOUS
  <2> HIDE DEF q
  <2> QED BY <1>2, <2>1, EntriesAtType
<1>4. U = post_wakeup(V, PostPendingWakes(B))
  BY <1>1 DEF ReleaseRequest, PostPending, At, Table
<1> HIDE DEF e
<1>5. p \in [Requests -> Place] /\ x \in [Owners -> Seq(Requests \cup {Repost})]
  BY <1>1, <1>3 DEF Table, Place
<1> HIDE DEF p, x
<1>6. T1 \in Table /\ T1.pc = p /\ T1.lbl = T.lbl /\ T1.dead = T.dead
  BY <1>1, <1>5 DEF Table
<1> HIDE DEF T1
<1>7. BlockOf(T, r) \in GoodBlock /\ r \in Queued(BlockOf(T, r))
  BY BlockOfGood
<1>8. /\ B \in GoodBlock
      /\ Queued(B) = Queued(BlockOf(T, r)) \ {r}
      /\ \A y \in Requests : IsPending(B, y) => IsPending(BlockOf(T, r), y)
  BY <1>7, UnlinkRequestGood
<1> HIDE DEF B
<1>9. Keeps(B, C) /\ C \in Block
  BY <1>8, PostPendingGood DEF Keeps, GoodBlock
<1>10. ~IsPending(C, r)
  BY <1>8, <1>9 DEF Keeps, GoodBlock, BlockInv, OnlyQueuedCount
<1> HIDE DEF C
<1>11. V \in Table /\ V.lbl = [T.lbl EXCEPT ![lrq_lock[r]] = C] /\ V.pc = p /\ V.dead = T.dead
  BY <1>1, <1>6, <1>9 DEF WithBlock, Table
<1> HIDE DEF V
<1>12. V \in GoodTable
  BY <1>8, <1>9, <1>10, <1>11, MoveGood DEF Keeps, p, Place
<1>13. U \in GoodTable /\ U.pc = V.pc
  BY <1>4, <1>11, <1>12, PostWakeupGood
<1> QED BY <1>11, <1>13 DEF p

\* blocking_action, up to the start of an AST, keeps the table good.
LEMMA BlockingActionGood ==
  ASSUME NEW T \in GoodTable, NEW t \in Threads, NEW o \in Owners
  PROVE  LET U == blocking_action(T, t, o) IN U \in GoodTable /\ U.pc = T.pc /\ U.sig = T.sig
<1> DEFINE U == blocking_action(T, t, o)
           q == T.own_blocks[o]
           b == Head(q)
           x == [T.own_blocks EXCEPT ![o] = Tail(q)]
           a(v) == [T.ast EXCEPT ![t] = v]
           T1 == [T EXCEPT !.own_blocks = x, !.ast = a(o)]
<1>1. T \in Table
  BY DEF GoodTable
<1>2. q \in Seq(Requests \cup {Repost})
  BY <1>1 DEF Table
<1>3. a(o) \in [Threads -> Owners \cup {NoOwner}] /\ a(NoOwner) \in [Threads -> Owners \cup {NoOwner}]
  BY <1>1 DEF Table
<1>4. CASE T.own_count[o] > 0 /\ q # << >>
  <2>1. b \in Requests \cup {Repost} /\ Tail(q) \in Seq(Requests \cup {Repost})
    <3> HIDE DEF q
    <3> QED BY <1>2, <1>4
  <2>2. x \in [Owners -> Seq(Requests \cup {Repost})]
    BY <1>1, <2>1 DEF Table
  <2>3. U = IF b = Repost THEN T1 ELSE WithBlock(T1, b, mark_seen(BlockOf(T, b), b))
    BY <1>1, <1>4 DEF blocking_action, Table
  <2> HIDE DEF x, a, b
  <2>4. T1 \in Table /\ T1.lbl = T.lbl /\ T1.pc = T.pc /\ T1.dead = T.dead /\ T1.sig = T.sig
    BY <1>1, <1>3, <2>2 DEF Table
  <2> HIDE DEF T1
  <2>5. T1 \in GoodTable
    BY <2>4, SameLocks
  <2>6. CASE b = Repost
    BY <2>3, <2>4, <2>5, <2>6
  <2>7. CASE b # Repost
    <3>1. b \in Requests /\ BlockOf(T1, b) = BlockOf(T, b)
      BY <2>1, <2>4, <2>7 DEF BlockOf
    <3>2. Keeps(BlockOf(T1, b), mark_seen(BlockOf(T, b), b))
      BY <2>5, <3>1, BlockOfGood, MarkSeenGood
    <3>3. WithBlock(T1, b, mark_seen(BlockOf(T, b), b)).sig = T1.sig
      BY <2>4 DEF WithBlock, Table
    <3> QED BY <2>3, <2>4, <2>5, <2>7, <3>1, <3>2, <3>3, WithBlockGood
  <2> QED BY <2>6, <2>7
<1>5. CASE ~(T.own_count[o] > 0 /\ q # << >>)
  <2> DEFINE D == DropFlags(T, o, {"signaled"})
  <2>1. U = [D EXCEPT !.ast = [D.ast EXCEPT ![t] = NoOwner]]
    BY <1>5 DEF blocking_action
  <2>2. D \in GoodTable /\ D \in Table /\ D.pc = T.pc /\ D.lbl = T.lbl /\ D.sig = T.sig /\ D.dead = T.dead
    <3>1. D \in GoodTable
      BY DropFlagsGood
    <3> QED BY <1>1, <3>1 DEF DropFlags, Table, GoodTable
  <2>4. [D.ast EXCEPT ![t] = NoOwner] \in [Threads -> Owners \cup {NoOwner}]
    BY <2>2 DEF Table
  <2> HIDE DEF D, U
  <2>3. U \in Table /\ U.pc = D.pc /\ U.lbl = D.lbl /\ U.sig = D.sig /\ U.dead = D.dead
    BY <2>1, <2>2, <2>4 DEF Table
  <2> QED BY <2>2, <2>3, SameLocks DEF U
<1> QED BY <1>4, <1>5

\* The loop over the owners q, run by the thread that waits for request r, signals
\* owners and leaves some for later; at the first owner of its own process with
\* something to run it starts an AST.
LEMMA SignalOwnersIs ==
  ASSUME NEW T \in Table, NEW r \in Requests, NEW q \in Seq(Owners)
  PROVE  \E V \in Table, where \in {"wait", "post"} :
           /\ V.pc = [T.pc EXCEPT ![r] = where]
           /\ V.lbl = T.lbl /\ V.dead = T.dead /\ V.lhb_owners = T.lhb_owners
           /\ V.own_count = T.own_count /\ V.own_blocks = T.own_blocks /\ V.ast = T.ast
           /\ \/ signal_owners(T, r, q) = V
              \/ \E o \in Owners :
                   /\ signal_owners(T, r, q) = blocking_action(V, r, o)
                   /\ T.own_count[o] > 0 /\ T.own_blocks[o] # << >>
                   /\ own_process[o] = ProcessOf(r)
<1> DEFINE idle(i)  == T.own_count[q[i]] > 0 /\ "signaled" \notin T.own_flags[q[i]]
           local(i) == own_process[q[i]] = ProcessOf(r)
           runs     == {i \in DOMAIN q : idle(i) /\ local(i) /\ T.own_blocks[q[i]] # << >>}
           upto     == IF runs = {} THEN Len(q)
                       ELSE CHOOSE i \in runs : \A j \in runs : i <= j
           posted   == {q[i] : i \in {j \in 1 .. upto : idle(j) /\ ~local(j)}}
           signaled == posted \cup (IF runs = {} THEN {} ELSE {q[upto]})
           F == [o \in Owners |->
                   IF o \in signaled THEN T.own_flags[o] \cup {"signaled"} ELSE T.own_flags[o]]
           P == [p \in Processes |->
                   T.prc_blocking[p] \/ \E o \in posted : own_process[o] = p]
           rest == SubSeq(q, upto + 1, Len(q))
           S == [T.sig EXCEPT ![r] = rest]
           T1 == [T EXCEPT !.own_flags = F, !.prc_blocking = P, !.sig = S]
           Put(where) == At(T1, r, where)
<1>2. /\ upto \in 0 .. Len(q)
      /\ runs # {} => /\ q[upto] \in Owners /\ own_process[q[upto]] = ProcessOf(r)
                      /\ T.own_count[q[upto]] > 0 /\ T.own_blocks[q[upto]] # << >>
  <2>1. /\ runs \in SUBSET Nat /\ runs \subseteq 1 .. Len(q)
        /\ \A i \in runs : /\ own_process[q[i]] = ProcessOf(r)
                           /\ T.own_count[q[i]] > 0 /\ T.own_blocks[q[i]] # << >>
    OBVIOUS
  <2> HIDE DEF runs
  <2>2. runs # {} => upto \in runs
    BY <2>1, LeastElement
  <2>3. runs = {} => upto = Len(q)
    OBVIOUS
  <2>4. Len(q) \in Nat /\ \A i \in 1 .. Len(q) : q[i] \in Owners
    OBVIOUS
  <2> HIDE DEF upto
  <2>5. CASE runs = {}
    BY <2>3, <2>4, <2>5
  <2>6. CASE runs # {}
    <3>1. upto \in 1 .. Len(q)
      BY <2>1, <2>2, <2>6
    <3> QED BY <2>1, <2>2, <2>4, <2>6, <3>1
  <2> QED BY <2>5, <2>6
<1>3. signal_owners(T, r, q) = IF runs = {} THEN Put("wait")
                               ELSE blocking_action(Put("post"), r, q[upto])
  BY DEF signal_owners, Table
<1> HIDE DEF upto, runs
<1>4. rest \in Seq(Owners)
  BY <1>2
<1>5. F \in [Owners -> SUBSET OwnFlag]
  BY DEF Table, OwnFlag
<1>6. P \in [Processes -> BOOLEAN]
  OBVIOUS
<1> HIDE DEF rest, F, P
<1>7. S \in [Requests -> Seq(Owners)]
  BY <1>4 DEF Table
<1> HIDE DEF S
<1>8. /\ T1 \in Table /\ T1.lbl = T.lbl /\ T1.pc = T.pc /\ T1.dead = T.dead
      /\ T1.lhb_owners = T.lhb_owners /\ T1.own_count = T.own_count
      /\ T1.own_blocks = T.own_blocks /\ T1.ast = T.ast
  BY <1>5, <1>6, <1>7 DEF Table
<1> HIDE DEF T1
<1>9. ASSUME NEW where \in {"wait", "post"}
      PROVE  /\ Put(where) \in Table /\ Put(where).pc = [T.pc EXCEPT ![r] = where]
             /\ Put(where).lbl = T.lbl /\ Put(where).dead = T.dead
             /\ Put(where).lhb_owners = T.lhb_owners /\ Put(where).own_count = T.own_count
             /\ Put(where).own_blocks = T.own_blocks /\ Put(where).ast = T.ast
  BY <1>8 DEF At, Table, Place
<1> HIDE DEF Put
<1>10. CASE runs = {}
  BY <1>3, <1>9, <1>10
<1>11. CASE runs # {}
  BY <1>2, <1>3, <1>9, <1>11
<1> QED BY <1>10, <1>11

\* That loop keeps the table good.
LEMMA SignalOwnersGood ==
  ASSUME NEW T \in GoodTable, NEW r \in Requests, NEW q \in Seq(Owners),
         T.pc[r] \in {"wait", "post"}
  PROVE  signal_owners(T, r, q) \in GoodTable
<1>1. T \in Table /\ r \in Threads
  BY DEF GoodTable, Threads
<1>2. PICK V \in Table, where \in {"wait", "post"} :
        /\ V.pc = [T.pc EXCEPT ![r] = where]
        /\ V.lbl = T.lbl /\ V.dead = T.dead
        /\ \/ signal_owners(T, r, q) = V
           \/ \E o \in Owners : signal_owners(T, r, q) = blocking_action(V, r, o)
  BY <1>1, SignalOwnersIs
<1>3. BlockOf(T, r) \in GoodBlock /\ r \in Queued(BlockOf(T, r))
  BY BlockOfGood
<1>4. V.lbl = [T.lbl EXCEPT ![lrq_lock[r]] = BlockOf(T, r)]
  BY <1>1, <1>2, OwnerOfRequest DEF BlockOf, Table
<1>5. V \in GoodTable
  BY <1>2, <1>3, <1>4, MoveGood DEF Place
<1> QED BY <1>1, <1>2, <1>5, BlockingActionGood

\* post_blockage marks requests of other owners as blocking and runs the loop.
LEMMA PostBlockageIs ==
  ASSUME NEW T \in GoodTable, NEW r \in Requests
  PROVE  \E V \in GoodTable, S \in SUBSET Requests, q \in Seq(Owners) :
           /\ post_blockage(T, r) = signal_owners(V, r, q)
           /\ V.lbl = WithBlock(T, r, mark_blocking(BlockOf(T, r), S)).lbl
           /\ V.pc = T.pc /\ V.dead = T.dead /\ V.lhb_owners = T.lhb_owners
           /\ V.own_count = T.own_count /\ V.ast = T.ast
<1> DEFINE B == BlockOf(T, r)
           bs == Blockers(B, r, {b \in Requests : ~SameOwner(b, r)})
           new == {b \in Requests :
                     \E i \in DOMAIN bs : bs[i] = b /\ "blocking" \notin B.lrq_flags[b]}
           more(o) == EntriesAt(bs, {i \in DOMAIN bs : lrq_owner[bs[i]] = o /\ bs[i] \in new})
           V == WithBlock(T, r, mark_blocking(B, new))
           x == [o \in Owners |-> T.own_blocks[o] \o more(o)]
           T1 == [V EXCEPT !.own_blocks = x]
           q == [i \in DOMAIN bs |-> lrq_owner[bs[i]]]
<1>1. T \in Table /\ B \in GoodBlock
  BY BlockOfGood
<1>2. bs \in Seq(Requests)
  <2>1. B.lbl_requests \in Seq(Requests)
    BY <1>1 DEF GoodBlock, Block
  <2> HIDE DEF B
  <2> QED BY <2>1, EntriesAtType DEF Blockers
<1>3. post_blockage(T, r) = signal_owners(T1, r, q)
  BY DEF post_blockage, blocking_owners
<1> HIDE DEF bs, new
<1>4. q \in Seq(Owners)
  <2>1. lrq_owner \in [Requests -> Owners]
    BY ManagerAssumption
  <2>2. Len(bs) \in Nat /\ DOMAIN bs = 1 .. Len(bs) /\ \A i \in DOMAIN bs : bs[i] \in Requests
    BY <1>2
  <2>3. q \in [1 .. Len(bs) -> Owners]
    BY <2>1, <2>2
  <2> QED BY <2>2, <2>3, SeqDef
<1>5. \A o \in Owners : more(o) \in Seq(Requests \cup {Repost})
  <2>1. bs \in Seq(Requests \cup {Repost})
    BY <1>2
  <2> QED BY <2>1, EntriesAtType
<1> HIDE DEF more
<1>6. x \in [Owners -> Seq(Requests \cup {Repost})]
  BY <1>1, <1>5 DEF Table
<1> HIDE DEF x
<1>7. V \in GoodTable /\ V \in Table /\ V.pc = T.pc
  <2>1. Keeps(B, mark_blocking(B, new))
    BY <1>1, MarkBlockingGood
  <2> QED BY <2>1, WithBlockGood DEF GoodTable
<1>8. /\ V.lhb_owners = T.lhb_owners /\ V.own_count = T.own_count
      /\ V.ast = T.ast /\ V.dead = T.dead
  BY <1>1 DEF WithBlock, Table
<1> HIDE DEF V
<1>9. /\ T1 \in Table /\ T1.lbl = V.lbl /\ T1.pc = V.pc /\ T1.dead = V.dead
      /\ T1.lhb_owners = V.lhb_owners /\ T1.own_count = V.own_count /\ T1.ast = V.ast
  BY <1>6, <1>7 DEF Table
<1> HIDE DEF T1, q
<1>10. T1 \in GoodTable
  BY <1>7, <1>9, SameLocks DEF GoodTable
<1>11. V = WithBlock(T, r, mark_blocking(B, new))
  BY DEF V
<1>12. new \in SUBSET Requests
  BY DEF new
<1>13. /\ post_blockage(T, r) = signal_owners(T1, r, q)
       /\ T1.lbl = WithBlock(T, r, mark_blocking(BlockOf(T, r), new)).lbl
       /\ T1.pc = T.pc /\ T1.dead = T.dead /\ T1.lhb_owners = T.lhb_owners
       /\ T1.own_count = T.own_count /\ T1.ast = T.ast
  BY <1>3, <1>7, <1>8, <1>9, <1>11
<1> QED BY <1>4, <1>10, <1>12, <1>13

\* post_blockage keeps the table good.
LEMMA PostBlockageGood ==
  ASSUME NEW T \in GoodTable, NEW r \in Requests, T.pc[r] \in {"wait", "post"}
  PROVE  post_blockage(T, r) \in GoodTable
BY SMTT(30), PostBlockageIs, SignalOwnersGood

\* A round of blocking_action_thread clears flags of owners; if any owner has
\* something to run it starts an AST.
LEMMA BlockingThreadIs ==
  ASSUME NEW T \in GoodTable, NEW p \in Processes, NEW U \in blocking_action_thread(T, p)
  PROVE  \E V \in GoodTable :
           /\ V.lbl = T.lbl /\ V.pc = T.pc /\ V.dead = T.dead /\ V.lhb_owners = T.lhb_owners
           /\ V.own_count = T.own_count /\ V.own_blocks = T.own_blocks /\ V.ast = T.ast
           /\ \/ U = V
              \/ \E o \in Owners :
                   /\ U = blocking_action(V, p, o)
                   /\ own_process[o] = p /\ o \in T.lhb_owners
                   /\ T.own_count[o] > 0 /\ T.own_blocks[o] # << >>
<1> DEFINE signaled == {o \in T.lhb_owners : own_process[o] = p /\ "signaled" \in T.own_flags[o]}
           runs == {o \in signaled : T.own_count[o] > 0 /\ T.own_blocks[o] # << >>}
           Clear(S) == ClearSignaled(T, S)
<1>1. T \in Table
  BY DEF GoodTable
<1>2. ASSUME NEW S
      PROVE  /\ Clear(S) \in GoodTable /\ Clear(S).lbl = T.lbl /\ Clear(S).pc = T.pc
             /\ Clear(S).dead = T.dead /\ Clear(S).lhb_owners = T.lhb_owners
             /\ Clear(S).own_count = T.own_count /\ Clear(S).own_blocks = T.own_blocks
             /\ Clear(S).ast = T.ast
  <2> DEFINE F == [o \in Owners |-> IF o \in S THEN T.own_flags[o] \ {"signaled"}
                                    ELSE T.own_flags[o]]
  <2>1. F \in [Owners -> SUBSET OwnFlag]
    BY <1>1 DEF Table
  <2>2. Clear(S) = [T EXCEPT !.own_flags = F]
    BY DEF ClearSignaled
  <2> HIDE DEF F, Clear
  <2>3. /\ Clear(S) \in Table /\ Clear(S).lbl = T.lbl /\ Clear(S).pc = T.pc
        /\ Clear(S).dead = T.dead /\ Clear(S).lhb_owners = T.lhb_owners
        /\ Clear(S).own_count = T.own_count /\ Clear(S).own_blocks = T.own_blocks
        /\ Clear(S).ast = T.ast
    BY <1>1, <2>1, <2>2 DEF Table
  <2> QED BY <2>3, SameLocks
<1>3. runs \in SUBSET Owners
      /\ \A o \in runs : /\ own_process[o] = p /\ o \in T.lhb_owners
                        /\ T.own_count[o] > 0 /\ T.own_blocks[o] # << >>
  BY <1>1 DEF Table
<1>4. U \in IF runs = {} THEN {Clear(signaled)}
            ELSE {blocking_action(Clear(S), p, o) : o \in runs, S \in SUBSET (signaled \ runs)}
  BY DEF blocking_action_thread
<1> HIDE DEF Clear, runs, signaled
<1>5. CASE runs = {}
  BY <1>2, <1>4, <1>5
<1>6. CASE runs # {}
  <2>1. PICK o \in runs, S \in SUBSET (signaled \ runs) : U = blocking_action(Clear(S), p, o)
    BY <1>4, <1>6
  <2>2. o \in Owners /\ p \in Threads /\ Clear(S) \in GoodTable
    BY <1>2, <1>3 DEF Threads
  <2> QED BY <1>2, <1>3, <2>1, <2>2
<1> QED BY <1>5, <1>6

\* Such a round keeps the table good.
LEMMA BlockingThreadGood ==
  ASSUME NEW T \in GoodTable, NEW p \in Processes, NEW U \in blocking_action_thread(T, p)
  PROVE  U \in GoodTable
BY BlockingThreadIs, BlockingActionGood DEF Threads

\* probe_processes keeps the table good: the requests of dead processes leave their
\* queues, what waited behind them may be granted, and a living thread stays where
\* it is.
LEMMA ProbeProcessesGood ==
  ASSUME NEW T \in GoodTable
  PROVE  LET U == probe_processes(T)
         IN  /\ U \in GoodTable
             /\ \A x \in Requests : own_process[lrq_owner[x]] \notin T.dead =>
                  /\ U.pc[x] = T.pc[x]
                  /\ IsPending(BlockOf(U, x), x) => IsPending(BlockOf(T, x), x)
<1> DEFINE gone == {o \in T.lhb_owners : own_process[o] \in T.dead}
           theirs(l) == {r \in Queued(T.lbl[l]) : lrq_owner[r] \in gone}
           lost(l) == CHOOSE r \in theirs(l) : TRUE
           wakes == UNION {IF theirs(l) = {} THEN {}
                           ELSE PostPendingWakes(unlink_request(T.lbl[l], lost(l))) : l \in Locks}
           T1 == post_wakeup(T, wakes)
           Reset(f, S, v) == [x \in DOMAIN f |-> IF x \in S THEN v ELSE f[x]]
           requests == {r \in Requests : lrq_owner[r] \in gone}
           threads == {t \in Threads : ProcessOf(t) \in T.dead}
           b == [l \in Locks |-> IF theirs(l) = {} THEN T.lbl[l]
                                 ELSE release_request(T.lbl[l], lost(l))]
           place == Reset(T1.pc, requests, "free")
           U == [T1 EXCEPT
                   !.lbl = b,
                   !.lhb_owners = T1.lhb_owners \ gone,
                   !.own_flags = Reset(T1.own_flags, gone, {}),
                   !.own_blocks = Reset(T1.own_blocks, gone, << >>),
                   !.prc_blocking = Reset(T1.prc_blocking, T.dead, FALSE),
                   !.pc = place,
                   !.sig = Reset(T1.sig, requests, << >>),
                   !.ast = Reset(T1.ast, threads, NoOwner),
                   !.dead = {}]
<1>1. probe_processes(T) = IF T.dead = {} THEN T ELSE U
  BY DEF probe_processes
<1>2. T \in Table /\ T.lbl \in [Locks -> GoodBlock] /\ T.pc \in [Requests -> Place]
  BY DEF GoodTable, Table
<1>3. T1 \in Table /\ T1.pc = T.pc
  BY <1>2, PostWakeupGood
<1> HIDE DEF T1
<1>4. ASSUME NEW l \in Locks, theirs(l) # {}
      PROVE  theirs(l) = {lost(l)} /\ lost(l) \in Queued(T.lbl[l])
  <2>1. lost(l) \in theirs(l)
    BY <1>4
  <2>2. ASSUME NEW r \in theirs(l), NEW s \in theirs(l) PROVE r = s
    <3>1. r \in Requests /\ s \in Requests
      <4>1. T.lbl[l] \in GoodBlock
        BY <1>2
      <4> QED BY <4>1, GoodBlockCounts
    <3>2. lrq_lock[r] = l /\ lrq_lock[s] = l
      BY <3>1 DEF GoodTable, Linked
    <3>3. own_process[lrq_owner[r]] \in T.dead /\ own_process[lrq_owner[s]] \in T.dead
      OBVIOUS
    <3>4. /\ own_process[lrq_owner[r]] \in Crashable
          /\ own_process[lrq_owner[r]] = own_process[lrq_owner[s]]
      BY <3>3 DEF GoodTable, OneDead
    <3> QED BY <3>1, <3>2, <3>4, CrashAssumption
  <2> HIDE DEF lost
  <2> QED BY <2>1, <2>2
<1> HIDE DEF lost
<1>5. ASSUME NEW l \in Locks
      PROVE  /\ b[l] \in GoodBlock
             /\ Queued(b[l]) = Queued(T.lbl[l]) \ theirs(l)
             /\ \A x \in Requests : IsPending(b[l], x) => IsPending(T.lbl[l], x)
  <2>1. T.lbl[l] \in GoodBlock
    BY <1>2
  <2>2. CASE theirs(l) = {}
    BY <2>1, <2>2
  <2>3. CASE theirs(l) # {}
    <3>1. b[l] = release_request(T.lbl[l], lost(l))
      BY <2>3
    <3>2. theirs(l) = {lost(l)} /\ lost(l) \in Queued(T.lbl[l])
      BY <1>4, <2>3
    <3> HIDE DEF b, theirs
    <3> QED BY <2>1, <3>1, <3>2, ReleaseRequestGood
  <2> QED BY <2>2, <2>3
<1>6. b \in [Locks -> GoodBlock] /\ b \in [Locks -> Block]
  <2>1. b = [l \in Locks |-> b[l]]
    OBVIOUS
  <2> HIDE DEF b
  <2> QED BY <1>5, <2>1 DEF GoodBlock
<1>7. place \in [Requests -> Place] /\ \A x \in Requests : place[x] = IF x \in requests THEN "free" ELSE T.pc[x]
  BY <1>2, <1>3 DEF Place
<1> HIDE DEF b, place
<1>8. ASSUME NEW x \in Requests, NEW l \in Locks
      PROVE  x \in Queued(b[l]) <=> (l = lrq_lock[x] /\ place[x] # "free")
  <2>1. x \in Queued(T.lbl[l]) <=> (l = lrq_lock[x] /\ T.pc[x] # "free")
    BY DEF GoodTable, Linked
  <2> QED BY <1>5, <1>7, <2>1
<1>9. ASSUME NEW x \in Requests, IsPending(b[lrq_lock[x]], x) PROVE place[x] \in {"wait", "post"}
  <2>1. lrq_lock[x] \in Locks
    BY OwnerOfRequest
  <2>2. IsPending(T.lbl[lrq_lock[x]], x) => T.pc[x] \in {"wait", "post"}
    BY DEF GoodTable, Linked
  <2>3. x \in Queued(b[lrq_lock[x]])
    BY <1>5, <1>9, <2>1 DEF GoodBlock, BlockInv, OnlyQueuedCount
  <2>4. place[x] # "free"
    BY <1>8, <2>1, <2>3
  <2> QED BY <1>5, <1>7, <1>9, <2>1, <2>2, <2>4
<1>10. Linked(b, place)
  BY <1>8, <1>9 DEF Linked
<1>11. U \in Table
  <2>1. T1.lhb_owners \ gone \in SUBSET Owners
    BY <1>3 DEF Table
  <2>2. Reset(T1.own_flags, gone, {}) \in [Owners -> SUBSET OwnFlag]
    BY <1>3 DEF Table
  <2>3. Reset(T1.own_blocks, gone, << >>) \in [Owners -> Seq(Requests \cup {Repost})]
    BY <1>3 DEF Table
  <2>4. Reset(T1.prc_blocking, T.dead, FALSE) \in [Processes -> BOOLEAN]
    BY <1>3 DEF Table
  <2>5. Reset(T1.sig, requests, << >>) \in [Requests -> Seq(Owners)]
    BY <1>3 DEF Table
  <2>6. Reset(T1.ast, threads, NoOwner) \in [Threads -> Owners \cup {NoOwner}]
    BY <1>3 DEF Table
  <2> HIDE DEF Reset, gone, requests, threads
  <2> QED BY <1>3, <1>6, <1>7, <2>1, <2>2, <2>3, <2>4, <2>5, <2>6 DEF Table
<1>12. U.lbl = b /\ U.pc = place /\ U.dead = {}
  BY <1>3 DEF Table
<1> HIDE DEF U
<1>13. U \in GoodTable
  BY <1>6, <1>10, <1>11, <1>12 DEF GoodTable, OneDead
<1>14. ASSUME NEW x \in Requests, own_process[lrq_owner[x]] \notin T.dead
       PROVE  /\ U.pc[x] = T.pc[x]
              /\ IsPending(BlockOf(U, x), x) => IsPending(BlockOf(T, x), x)
  <2>1. x \notin requests /\ lrq_lock[x] \in Locks
    BY <1>14, OwnerOfRequest
  <2> QED BY <1>5, <1>7, <1>12, <2>1 DEF BlockOf
<1> QED BY <1>1, <1>13, <1>14

\* Request r, in use and not waiting, starts to wait in block B.
LEMMA BeginWaitTableGood ==
  ASSUME NEW T \in GoodTable, NEW r \in Requests, T.pc[r] = "idle",
         NEW B, Keeps(BlockOf(T, r), B), NEW timed \in BOOLEAN
  PROVE  begin_wait_for_request(T, r, B, timed) \in GoodTable
<1> DEFINE C == begin_wait(B, r, timed)
           U == At(WithBlock(T, r, C), r, "wait")
           V == DropFlags(U, lrq_owner[r], {"scanned", "wakeup"})
<1>1. /\ T \in Table /\ B \in GoodBlock
      /\ r \in Queued(B) /\ ~IsPending(B, r) /\ lrq_lock[r] \in Locks
  BY BlockOfGood DEF Keeps
<1>2. /\ C \in GoodBlock /\ C \in Block
      /\ Queued(C) = Queued(B)
      /\ \A x \in Requests \ {r} : IsPending(C, x) => IsPending(B, x)
  BY <1>1, BeginWaitGood DEF GoodBlock
<1> HIDE DEF C
<1>3. /\ U \in Table /\ U.lbl = [T.lbl EXCEPT ![lrq_lock[r]] = C]
      /\ U.pc = [T.pc EXCEPT ![r] = "wait"] /\ U.dead = T.dead /\ U.pc[r] = "wait"
  BY <1>1, <1>2 DEF At, WithBlock, Table, Place
<1> HIDE DEF U
<1>4. U \in GoodTable
  BY <1>1, <1>2, <1>3, MoveGood DEF Keeps, Place
<1>5. V \in GoodTable /\ V.pc = U.pc
  BY <1>4, DropFlagsGood, OwnerOfRequest
<1> HIDE DEF V
<1> QED BY <1>3, <1>5, PostBlockageGood DEF begin_wait_for_request, V, U, C

\* Request r, no longer pending, leaves wait_for_request.
LEMMA EndWaitTableGood ==
  ASSUME NEW T \in GoodTable, NEW r \in Requests, T.pc[r] \in {"wait", "post"},
         ~IsPending(BlockOf(T, r), r)
  PROVE  end_wait_for_request(T, r) \in GoodTable
<1> DEFINE B == end_wait(BlockOf(T, r), r)
           T1 == At(WithBlock(T, r, B), r, "idle")
           T2 == PostPending(T1, r, B)
           C == end_convert(BlockOf(T2, r), r)
<1>1. T \in Table /\ lrq_lock[r] \in Locks /\ r \in Queued(BlockOf(T, r)) /\ BlockOf(T, r) \in GoodBlock
  BY BlockOfGood
<1>2. Keeps(BlockOf(T, r), B) /\ B \in Block /\ B \in GoodBlock
  BY <1>1, EndWaitGood DEF Keeps, GoodBlock
<1> HIDE DEF B
<1>3. /\ T1 \in Table /\ T1.lbl = [T.lbl EXCEPT ![lrq_lock[r]] = B]
      /\ T1.pc = [T.pc EXCEPT ![r] = "idle"] /\ T1.dead = T.dead /\ T1.pc[r] = "idle"
  BY <1>1, <1>2 DEF At, WithBlock, Table, Place
<1>4. BlockOf(T1, r) = B
  BY <1>1, <1>3 DEF BlockOf, Table
<1>5. end_wait_for_request(T, r) = IF "rejected" \notin B.lrq_flags[r] THEN T1
                                   ELSE IF B.lrq_state[r] = LCK_none THEN ReleaseRequest(T1, r)
                                   ELSE WithBlock(T2, r, C)
  BY DEF end_wait_for_request, B
<1> HIDE DEF T1
<1>6. T1 \in GoodTable
  BY <1>1, <1>2, <1>3, MoveGood DEF Keeps, Place
<1>7. ReleaseRequest(T1, r) \in GoodTable
  BY <1>3, <1>6, ReleaseRequestTableGood
<1>8. WithBlock(T2, r, C) \in GoodTable
  <2>1. Keeps(BlockOf(T1, r), B)
    BY <1>2, <1>4 DEF Keeps
  <2>2. T2 \in GoodTable
    BY <1>6, <2>1, PostPendingTableGood
  <2> HIDE DEF T2
  <2>3. Keeps(BlockOf(T2, r), C)
    BY <2>2, BlockOfGood, EndConvertGood
  <2> QED BY <2>2, <2>3, WithBlockGood
<1> QED BY <1>5, <1>6, <1>7, <1>8

--------------------------------------------------------------------------
(* The actions.                                                           *)

\* A step to a good table keeps the invariant.
LEMMA BecomesGood ==
  ASSUME NEW T \in GoodTable, Becomes(T)
  PROVE  Now' \in GoodTable
<1>1. T \in Table
  BY DEF GoodTable
<1>2. Now' = T
  BY <1>1 DEF Becomes, Now, Table
<1> QED BY <1>2

\* The fields of the record of the present state.
LEMMA NowFields ==
  ASSUME Now \in GoodTable
  PROVE  /\ Now \in Table
         /\ Now.lbl = lbl /\ Now.pc = pc /\ Now.own_flags = own_flags
         /\ Now.own_count = own_count /\ Now.own_blocks = own_blocks
         /\ own_flags \in [Owners -> SUBSET OwnFlag] /\ own_count \in [Owners -> Nat]
         /\ own_blocks \in [Owners -> Seq(Requests \cup {Repost})]
         /\ pc \in [Requests -> Place] /\ sig \in [Requests -> Seq(Owners)]
         /\ ast \in [Threads -> Owners \cup {NoOwner}]
         /\ lhb_owners \in SUBSET Owners
         /\ prc_blocking \in [Processes -> BOOLEAN]
         /\ dead \in SUBSET Processes
BY DEF GoodTable, Table, Now

\* initializeOwner, another user: the invariant is kept.
LEMMA InitializeAgainGood ==
  ASSUME Now \in GoodTable, NEW o \in Owners, InitializeAgain(o)
  PROVE  Now' \in GoodTable
<1> DEFINE c == [own_count EXCEPT ![o] = @ + 1]
           U == [Now EXCEPT !.own_count = c]
<1>1. c \in [Owners -> Nat]
  BY NowFields
<1>2. Becomes(U)
  BY DEF InitializeAgain
<1> HIDE DEF c
<1>3. U \in Table /\ U.lbl = Now.lbl /\ U.pc = Now.pc /\ U.dead = Now.dead
  BY <1>1, NowFields DEF Table
<1> HIDE DEF U
<1> QED BY <1>2, <1>3, SameLocks, BecomesGood

\* initializeOwner, a new owner block: the invariant is kept.
LEMMA InitializeOwnerGood ==
  ASSUME Now \in GoodTable, NEW o \in Owners, InitializeOwner(o)
  PROVE  Now' \in GoodTable
<1> DEFINE T == probe_processes(Now)
           U == [T EXCEPT !.lhb_owners = T.lhb_owners \cup {o},
                          !.own_count = [T.own_count EXCEPT ![o] = 1],
                          !.own_flags = [T.own_flags EXCEPT ![o] = {}],
                          !.own_blocks = [T.own_blocks EXCEPT ![o] = << >>]]
<1>1. Becomes(U)
  BY DEF InitializeOwner
<1>2. T \in GoodTable /\ T \in Table
  BY ProbeProcessesGood DEF GoodTable
<1> HIDE DEF T
<1>3. /\ T.lhb_owners \cup {o} \in SUBSET Owners
      /\ [T.own_count EXCEPT ![o] = 1] \in [Owners -> Nat]
      /\ [T.own_flags EXCEPT ![o] = {}] \in [Owners -> SUBSET OwnFlag]
      /\ [T.own_blocks EXCEPT ![o] = << >>] \in [Owners -> Seq(Requests \cup {Repost})]
  BY <1>2 DEF Table
<1>4. U \in Table /\ U.lbl = T.lbl /\ U.pc = T.pc /\ U.dead = T.dead
  BY <1>2, <1>3 DEF Table
<1> HIDE DEF U
<1> QED BY <1>1, <1>2, <1>4, SameLocks, BecomesGood

\* shutdownOwner: the invariant is kept.
LEMMA ShutdownOwnerGood ==
  ASSUME Now \in GoodTable, NEW o \in Owners, ShutdownOwner(o)
  PROVE  Now' \in GoodTable
<1> DEFINE c == [own_count EXCEPT ![o] = @ - 1]
           U == [Now EXCEPT !.own_count = c]
<1>1. c \in [Owners -> Nat]
  BY NowFields DEF ShutdownOwner, Active
<1>2. Becomes(U)
  BY DEF ShutdownOwner
<1> HIDE DEF c
<1>3. U \in Table /\ U.lbl = Now.lbl /\ U.pc = Now.pc /\ U.dead = Now.dead
  BY <1>1, NowFields DEF Table
<1> HIDE DEF U
<1> QED BY <1>2, <1>3, SameLocks, BecomesGood

\* purge_owner at the end of shutdownOwner: the invariant is kept.
LEMMA PurgeOwnerGood ==
  ASSUME Now \in GoodTable, NEW o \in Owners, PurgeOwner(o)
  PROVE  Now' \in GoodTable
<1> DEFINE h == Now.lhb_owners \ {o}
           F == [own_flags EXCEPT ![o] = {}]
           x == [own_blocks EXCEPT ![o] = << >>]
           U == [Now EXCEPT !.lhb_owners = h, !.own_flags = F, !.own_blocks = x]
<1>1. /\ h \in SUBSET Owners /\ F \in [Owners -> SUBSET OwnFlag]
      /\ x \in [Owners -> Seq(Requests \cup {Repost})]
  BY NowFields DEF Table
<1>2. Becomes(U)
  BY DEF PurgeOwner
<1> HIDE DEF h, F, x
<1>3. U \in Table /\ U.lbl = Now.lbl /\ U.pc = Now.pc /\ U.dead = Now.dead
  BY <1>1, NowFields DEF Table
<1> HIDE DEF U
<1> QED BY <1>2, <1>3, SameLocks, BecomesGood

\* A process that dies leaves a good table behind.
LEMMA ProcessDiesGood ==
  ASSUME Now \in GoodTable, NEW p \in Processes, ProcessDies(p)
  PROVE  Now' \in GoodTable
<1> DEFINE U == [Now EXCEPT !.dead = {p}]
<1>1. Becomes(U) /\ p \in Crashable
  BY DEF ProcessDies
<1>2. U \in Table /\ U.lbl = Now.lbl /\ U.pc = Now.pc /\ U.dead = {p}
  BY NowFields DEF Table
<1> HIDE DEF U
<1>3. U \in GoodTable
  BY <1>1, <1>2 DEF GoodTable, OneDead
<1> QED BY <1>1, <1>3, BecomesGood

\* repost: the invariant is kept.
LEMMA RepostAstGood ==
  ASSUME Now \in GoodTable, NEW o \in Owners, RepostAst(o)
  PROVE  Now' \in GoodTable
<1> DEFINE x == [own_blocks EXCEPT ![o] = Append(@, Repost)]
           T == [Now EXCEPT !.own_blocks = x]
           F == [T.own_flags EXCEPT ![o] = own_flags[o] \cup {"signaled"}]
           U == [T EXCEPT !.own_flags = F]
<1>1. x \in [Owners -> Seq(Requests \cup {Repost})]
  BY NowFields
<1>2. Becomes(T) \/ Becomes(blocking_action(U, o, o))
  BY DEF RepostAst
<1> HIDE DEF x
<1>3. /\ T \in Table /\ T.lbl = Now.lbl /\ T.pc = Now.pc /\ T.dead = Now.dead
      /\ T.own_flags = own_flags
  BY <1>1, NowFields DEF Table
<1> HIDE DEF T
<1>4. T \in GoodTable
  BY <1>3, SameLocks
<1>5. F \in [Owners -> SUBSET OwnFlag]
  BY <1>3, NowFields DEF OwnFlag
<1> HIDE DEF F
<1>6. U \in Table /\ U.lbl = T.lbl /\ U.pc = T.pc /\ U.dead = T.dead
  BY <1>3, <1>5 DEF Table
<1> HIDE DEF U
<1>7. U \in GoodTable /\ o \in Threads
  BY <1>4, <1>6, SameLocks DEF Threads
<1> QED BY <1>2, <1>4, <1>7, BlockingActionGood, BecomesGood

\* cancelWait: the invariant is kept.
LEMMA CancelWaitGood ==
  ASSUME Now \in GoodTable, NEW o \in Owners, CancelWait(o)
  PROVE  Now' \in GoodTable
<1> DEFINE F == [own_flags EXCEPT ![o] = @ \cup {"wakeup"}]
           U == [Now EXCEPT !.own_flags = F]
<1>1. F \in [Owners -> SUBSET OwnFlag]
  BY NowFields DEF OwnFlag
<1>2. Becomes(U)
  BY DEF CancelWait
<1> HIDE DEF F
<1>3. U \in Table /\ U.lbl = Now.lbl /\ U.pc = Now.pc /\ U.dead = Now.dead
  BY <1>1, NowFields DEF Table
<1> HIDE DEF U
<1> QED BY <1>2, <1>3, SameLocks, BecomesGood

\* enqueue: the invariant is kept whether the request is granted, refused or waits.
LEMMA EnqueueGood ==
  ASSUME Now \in GoodTable, NEW r \in Requests, NEW type \in Level, NEW lck_wait,
         Enqueue(r, type, lck_wait)
  PROVE  Now' \in GoodTable
<1> DEFINE T == IF pc[r] = "idle" THEN ReleaseRequest(Now, r) ELSE Now
           A == BlockOf(T, r)
           B == insert_request(A, r, type)
           T1 == At(WithBlock(T, r, B), r, "idle")
<1>1. pc[r] \in {"free", "idle"}
  BY DEF Enqueue
<1>2. T \in GoodTable /\ T \in Table /\ T.pc[r] = "free"
  <2>1. CASE pc[r] = "free"
    BY <2>1, NowFields
  <2>2. CASE pc[r] = "idle"
    <3>1. ReleaseRequest(Now, r) \in GoodTable /\ ReleaseRequest(Now, r).pc = [pc EXCEPT ![r] = "free"]
      BY <2>2, NowFields, ReleaseRequestTableGood
    <3> QED BY <2>2, <3>1, NowFields DEF GoodTable
  <2> QED BY <1>1, <2>1, <2>2
<1>3. \/ grant_now(A, type) /\ Becomes(GrantAndPost(T1, r, grant(B, r)))
      \/ Becomes(ReleaseRequest(T1, r))
      \/ Becomes(begin_wait_for_request(T1, r, B, lck_wait = "timeout"))
  BY DEF Enqueue
<1> HIDE DEF T
<1>4. A \in GoodBlock /\ r \notin Queued(A) /\ lrq_lock[r] \in Locks
  BY <1>2, BlockOfGood
<1> HIDE DEF A
<1>5. /\ B \in GoodBlock /\ B \in Block
      /\ Queued(B) = Queued(A) \cup {r}
      /\ B.lrq_requested[r] = type
      /\ B.lrq_state[r] = LCK_none
      /\ B.lrq_state = A.lrq_state
      /\ ~IsPending(B, r)
      /\ \A x \in Requests : IsPending(B, x) => IsPending(A, x)
  BY <1>4, InsertRequestGood DEF GoodBlock
<1>6. B.lbl_state = A.lbl_state
  BY <1>4, <1>5, GoodBlockCounts
<1> HIDE DEF B
<1>7. /\ T1 \in Table /\ T1.lbl = [T.lbl EXCEPT ![lrq_lock[r]] = B]
      /\ T1.pc = [T.pc EXCEPT ![r] = "idle"] /\ T1.dead = T.dead /\ T1.pc[r] = "idle"
  BY <1>2, <1>4, <1>5 DEF At, WithBlock, Table, Place
<1>8. BlockOf(T1, r) = B
  BY <1>2, <1>4, <1>7 DEF BlockOf, Table
<1> HIDE DEF T1
<1>9. T1 \in GoodTable
  <2>1. Queued(B) \ {r} = Queued(BlockOf(T, r)) \ {r} /\ r \in Queued(B)
    BY <1>5 DEF A
  <2>2. \A x \in Requests \ {r} : IsPending(B, x) => IsPending(BlockOf(T, r), x)
    BY <1>5 DEF A
  <2> QED BY <1>2, <1>5, <1>7, <2>1, <2>2, MoveGood DEF Place
<1>10. ASSUME grant_now(A, type) PROVE GrantAndPost(T1, r, grant(B, r)) \in GoodTable
  <2>1. compatibility(B.lrq_requested[r], B.lbl_state)
    BY <1>5, <1>6, <1>10 DEF grant_now
  <2>2. Keeps(B, grant(B, r))
    BY <1>5, <2>1, GrantGood
  <2> QED BY <1>8, <1>9, <2>2, GrantAndPostGood
<1>11. ReleaseRequest(T1, r) \in GoodTable
  BY <1>7, <1>9, ReleaseRequestTableGood
<1>12. begin_wait_for_request(T1, r, B, lck_wait = "timeout") \in GoodTable
  <2>1. Keeps(B, B) /\ (lck_wait = "timeout") \in BOOLEAN
    BY <1>5 DEF Keeps
  <2> QED BY <1>7, <1>8, <1>9, <2>1, BeginWaitTableGood
<1> QED BY <1>3, <1>10, <1>11, <1>12, BecomesGood

\* internal_convert: the invariant is kept in each of its three outcomes.
LEMMA InternalConvertGood ==
  ASSUME Now \in GoodTable, NEW r \in Requests, pc[r] = "idle", NEW type \in Level,
         NEW lck_wait, internal_convert(r, type, lck_wait)
  PROVE  Now' \in GoodTable
<1> DEFINE A == BlockOf(Now, r)
           B == begin_convert(A, r, type)
<1>1. \/ compatibility(type, StateWithout(B, r)) /\ Becomes(GrantAndPost(Now, r, grant_convert(B, r)))
      \/ Becomes(WithBlock(Now, r, end_convert(B, r)))
      \/ Becomes(begin_wait_for_request(Now, r, B, lck_wait = "timeout"))
  BY DEF internal_convert
<1>2. A \in GoodBlock /\ r \in Queued(A) /\ Now.pc[r] = "idle"
  BY BlockOfGood, NowFields
<1>3. Keeps(A, B) /\ B \in GoodBlock /\ r \in Queued(B) /\ B.lrq_requested[r] = type
  BY <1>2, BeginConvertGood DEF Keeps
<1> HIDE DEF A, B
<1>4. ASSUME compatibility(type, StateWithout(B, r))
      PROVE  GrantAndPost(Now, r, grant_convert(B, r)) \in GoodTable
  <2>1. Keeps(A, grant_convert(B, r))
    BY <1>3, <1>4, GrantConvertGood DEF Keeps
  <2> QED BY <2>1, GrantAndPostGood DEF A
<1>5. WithBlock(Now, r, end_convert(B, r)) \in GoodTable
  <2>1. Keeps(A, end_convert(B, r))
    BY <1>3, EndConvertGood DEF Keeps
  <2> QED BY <2>1, WithBlockGood DEF A
<1>6. begin_wait_for_request(Now, r, B, lck_wait = "timeout") \in GoodTable
  <2>1. (lck_wait = "timeout") \in BOOLEAN
    OBVIOUS
  <2> QED BY <1>2, <1>3, <2>1, BeginWaitTableGood DEF A
<1> QED BY <1>1, <1>4, <1>5, <1>6, BecomesGood

\* A non-empty set of levels has a highest one.
LEMMA HighestLevel ==
  ASSUME NEW S \in SUBSET Level, S # {}
  PROVE  \E m \in S : \A n \in S : n <= m
<1>1. \A n \in S : n \in Nat /\ n <= 6
  BY DEF Level, LCK_none, LCK_EX
<1> DEFINE D == {6 - n : n \in S}
<1>2. PICK k \in D : \A j \in D : k <= j
  <2>1. D \in SUBSET Nat /\ D # {}
    BY <1>1
  <2> HIDE DEF D
  <2> QED BY <2>1, LeastElement
<1>3. PICK m \in S : k = 6 - m
  OBVIOUS
<1>4. ASSUME NEW n \in S PROVE n <= m
  <2>1. 6 - n \in D
    OBVIOUS
  <2>2. k <= 6 - n
    BY <1>2, <2>1
  <2> QED BY <1>1, <1>3, <2>2
<1> QED BY <1>4

\* The level downgrade() converts to is a level.
LEMMA DowngradeToType ==
  ASSUME NEW B \in GoodBlock, NEW r \in Requests
  PROVE  DowngradeTo(B, r) \in Level
<1> DEFINE waiting == {B.lrq_requested[p] : p \in Pending(B) \ {r}} \cup {LCK_none}
<1>1. waiting \in SUBSET Level /\ waiting # {}
  <2>1. Pending(B) \in SUBSET Requests /\ B.lrq_requested \in [Requests -> Level]
    BY GoodBlockCounts DEF Pending, Block
  <2>2. LCK_none \in Level
    BY DEF Level, LCK_none, LCK_EX
  <2> QED BY <2>1, <2>2
<1>2. PendingState(B, r) = CHOOSE m \in waiting : \A n \in waiting : n <= m
  BY DEF PendingState
<1> HIDE DEF waiting
<1>3. PendingState(B, r) \in Level
  BY <1>1, <1>2, HighestLevel
<1>4. B.lrq_state[r] \in Level
  BY GoodBlockCounts DEF Block
<1> QED BY <1>3, <1>4, DowngradeLevelType DEF DowngradeTo

\* downgrade: the invariant is kept.
LEMMA DowngradeGood ==
  ASSUME Now \in GoodTable, NEW r \in Requests, Downgrade(r)
  PROVE  Now' \in GoodTable
<1> DEFINE to == DowngradeTo(BlockOf(Now, r), r)
<1>1. to \in Level
  BY BlockOfGood, DowngradeToType
<1>2. pc[r] = "idle" /\ Now.pc[r] # "free"
  BY NowFields DEF Downgrade
<1>3. Becomes(ReleaseRequest(Now, r)) \/ internal_convert(r, to, "no_wait")
  BY DEF Downgrade
<1> HIDE DEF to
<1> QED BY <1>1, <1>2, <1>3, ReleaseRequestTableGood, BecomesGood, InternalConvertGood

\* dequeue: the invariant is kept.
LEMMA DequeueGood ==
  ASSUME Now \in GoodTable, NEW r \in Requests, Dequeue(r)
  PROVE  Now' \in GoodTable
<1>1. Now.pc[r] # "free" /\ Becomes(ReleaseRequest(Now, r))
  BY NowFields DEF Dequeue
<1> QED BY <1>1, ReleaseRequestTableGood, BecomesGood

\* Every call on a request keeps the invariant.
LEMMA RequestStepGood ==
  ASSUME Now \in GoodTable, NEW r \in Requests, RequestStep(r)
  PROVE  Now' \in GoodTable
<1>1. ASSUME NEW type \in RequestLevels[r], NEW lck_wait \in WaitModes[r],
             Enqueue(r, type, lck_wait) \/ Convert(r, type, lck_wait)
      PROVE  Now' \in GoodTable
  <2>1. type \in Level
    BY ManagerAssumption DEF GrantedLevel, Level, LCK_none, LCK_null, LCK_EX
  <2>2. CASE Enqueue(r, type, lck_wait)
    BY <2>1, <2>2, EnqueueGood
  <2>3. CASE Convert(r, type, lck_wait)
    <3>1. pc[r] = "idle" /\ internal_convert(r, type, lck_wait)
      BY <2>3 DEF Convert
    <3> QED BY <2>1, <3>1, InternalConvertGood
  <2> QED BY <1>1, <2>2, <2>3
<1> QED BY <1>1, DowngradeGood, DequeueGood DEF RequestStep

\* Every round of the loop in wait_for_request keeps the invariant.
LEMMA WaitStepGood ==
  ASSUME Now \in GoodTable, NEW r \in Requests, WaitStep(r)
  PROVE  Now' \in GoodTable
<1> DEFINE o == lrq_owner[r]
           P == probe_processes(Now)
<1>1. Now.pc[r] = "wait" /\ o \in Owners
  BY NowFields, OwnerOfRequest DEF WaitStep, WaitResolved, WaitWoken, WaitRejected,
     WaitScanResolved, WaitScanDeadlock, WaitScanRepost, ScanDue, Waiting
<1>2. P \in GoodTable
  BY ProbeProcessesGood
<1>3. ASSUME NEW T \in GoodTable, NEW x \in Requests, IsPending(BlockOf(T, x), x)
      PROVE  T.pc[x] \in {"wait", "post"} /\ x \in Queued(BlockOf(T, x)) /\ BlockOf(T, x) \in GoodBlock
  BY <1>3, BlockOfGood
<1>4. own_process[o] \notin Now.dead
  <2>1. ProcessOf(r) = own_process[o]
    BY ManagerAssumption DEF ProcessOf
  <2>2. ProcessOf(r) \notin dead
    BY DEF WaitStep, WaitResolved, WaitWoken, WaitRejected,
       WaitScanResolved, WaitScanDeadlock, WaitScanRepost, ScanDue, Waiting
  <2> QED BY <2>1, <2>2 DEF Now
<1>5. CASE WaitResolved(r)
  <2>1. ~IsPending(BlockOf(Now, r), r) /\ Becomes(end_wait_for_request(Now, r))
    BY <1>5 DEF WaitResolved
  <2> QED BY <1>1, <2>1, EndWaitTableGood, BecomesGood
<1>6. CASE WaitWoken(r)
  <2> DEFINE T == DropFlags(Now, o, {"wakeup"})
  <2>1. T \in GoodTable /\ T.pc = Now.pc
    BY <1>1, DropFlagsGood
  <2>2. Becomes(post_blockage(T, r))
    BY <1>6 DEF WaitWoken
  <2> HIDE DEF T
  <2> QED BY <1>1, <2>1, <2>2, PostBlockageGood, BecomesGood
<1>7. CASE WaitRejected(r)
  <2> DEFINE T == DropFlags(Now, o, {"wakeup"})
             B == reject(BlockOf(T, r), r)
             V == WithBlock(T, r, B)
             W == probe_processes(V)
  <2>1. T \in GoodTable /\ T.lbl = Now.lbl
    BY <1>1, DropFlagsGood
  <2>2. IsPending(BlockOf(T, r), r) /\ Becomes(end_wait_for_request(W, r))
    BY <1>7, <2>1 DEF WaitRejected, BlockOf
  <2> HIDE DEF T
  <2>3. Keeps(BlockOf(T, r), B) /\ ~IsPending(B, r)
    BY <1>3, <2>1, <2>2, RejectGood
  <2>4. V \in GoodTable /\ BlockOf(V, r) = B
    BY <2>1, <2>3, WithBlockGood
  <2> HIDE DEF V
  <2>5. V.dead = Now.dead /\ V.pc = Now.pc
    BY NowFields DEF V, T, WithBlock, DropFlags, Table
  <2>6. W \in GoodTable /\ W.pc[r] = "wait" /\ ~IsPending(BlockOf(W, r), r)
    BY <1>1, <1>4, <2>3, <2>4, <2>5, ProbeProcessesGood
  <2> HIDE DEF W
  <2> QED BY <2>2, <2>6, EndWaitTableGood, BecomesGood
<1>8. CASE WaitScanResolved(r)
  <2>1. ~IsPending(BlockOf(P, r), r) /\ Becomes(end_wait_for_request(P, r))
    BY <1>8 DEF WaitScanResolved
  <2>2. P.pc[r] = "wait"
    BY <1>1, <1>4, ProbeProcessesGood
  <2> HIDE DEF P
  <2> QED BY <1>2, <2>1, <2>2, EndWaitTableGood, BecomesGood
<1>9. CASE WaitScanDeadlock(r)
  <2>1. P.pc[r] = "wait"
    BY <1>1, <1>4, ProbeProcessesGood
  <2>2. PICK v \in deadlock_walk(P, r) :
          LET T1 == DropFlags(WithBlock(P, v, reject(BlockOf(P, v), v)),
                              lrq_owner[v], {"scanned"})
          IN  Becomes(IF v = r THEN end_wait_for_request(T1, r) ELSE post_wakeup(T1, {v}))
    BY <1>9 DEF WaitScanDeadlock
  <2> HIDE DEF P
  <2>3. v \in Requests /\ IsPending(BlockOf(P, v), v)
    BY DEF deadlock_walk
  <2> DEFINE B == reject(BlockOf(P, v), v)
             V == WithBlock(P, v, B)
             T1 == DropFlags(V, lrq_owner[v], {"scanned"})
  <2>4. Keeps(BlockOf(P, v), B) /\ ~IsPending(B, v)
    BY <1>2, <1>3, <2>3, RejectGood
  <2>5. V \in GoodTable /\ V.pc = P.pc /\ BlockOf(V, v) = B
    BY <1>2, <2>3, <2>4, WithBlockGood
  <2>6. Becomes(IF v = r THEN end_wait_for_request(T1, r) ELSE post_wakeup(T1, {v}))
    BY <2>2
  <2> HIDE DEF V
  <2>7. T1 \in GoodTable /\ T1 \in Table /\ T1.pc = P.pc /\ BlockOf(T1, v) = B
    BY <2>3, <2>5, DropFlagsGood, OwnerOfRequest DEF GoodTable, BlockOf
  <2> HIDE DEF T1
  <2>8. v = r => end_wait_for_request(T1, r) \in GoodTable
    BY <2>1, <2>4, <2>7, EndWaitTableGood
  <2>9. post_wakeup(T1, {v}) \in GoodTable
    BY <2>7, PostWakeupGood
  <2> QED BY <2>6, <2>8, <2>9, BecomesGood
<1>10. CASE WaitScanRepost(r)
  <2> DEFINE certain == Scannable(P, r) /\ ~maybe_deadlock(P, r)
             F == [P.own_flags EXCEPT ![o] = P.own_flags[o] \cup (IF certain THEN {"scanned"} ELSE {})]
             T1 == [P EXCEPT !.own_flags = F]
  <2>1. P.pc[r] = "wait"
    BY <1>1, <1>4, ProbeProcessesGood
  <2>2. Becomes(post_blockage(T1, r))
    BY <1>10 DEF WaitScanRepost, ScanAndRepost
  <2> HIDE DEF P, certain
  <2>3. P \in Table
    BY <1>2 DEF GoodTable
  <2>4. F \in [Owners -> SUBSET OwnFlag]
    BY <1>1, <2>3 DEF Table, OwnFlag
  <2> HIDE DEF F
  <2>5. T1 \in Table /\ T1.lbl = P.lbl /\ T1.pc = P.pc /\ T1.dead = P.dead
    BY <2>3, <2>4 DEF Table
  <2> HIDE DEF T1
  <2>6. T1 \in GoodTable
    BY <1>2, <2>5, SameLocks
  <2> QED BY <2>1, <2>2, <2>5, <2>6, PostBlockageGood, BecomesGood
<1> QED BY <1>5, <1>6, <1>7, <1>8, <1>9, <1>10 DEF WaitStep

\* The return of an AST, and what its thread does next, keeps the invariant.
LEMMA AstReturnsGood ==
  ASSUME Now \in GoodTable, NEW t \in Threads, AstReturns(t)
  PROVE  Now' \in GoodTable
<1> DEFINE o == ast[t]
           a == [ast EXCEPT ![t] = NoOwner]
           V == [Now EXCEPT !.ast = a]
           T == blocking_action(V, t, o)
<1>1. o \in Owners
  BY NowFields DEF AstReturns
<1>2. a \in [Threads -> Owners \cup {NoOwner}]
  BY NowFields
<1>3. \/ Becomes(T)
      \/ t \in Requests /\ pc[t] = "post" /\ Becomes(signal_owners(T, t, sig[t]))
      \/ t \in Processes /\ \E T1 \in blocking_action_thread(T, t) : Becomes(T1)
  BY DEF AstReturns
<1> HIDE DEF a
<1>4. V \in Table /\ V.lbl = Now.lbl /\ V.pc = Now.pc /\ V.dead = Now.dead
  BY <1>2, NowFields DEF Table
<1> HIDE DEF V
<1>5. V \in GoodTable
  BY <1>4, SameLocks
<1>6. T \in GoodTable /\ T.pc = Now.pc
  BY <1>1, <1>4, <1>5, BlockingActionGood
<1> HIDE DEF T
<1>7. CASE t \in Requests /\ pc[t] = "post" /\ Becomes(signal_owners(T, t, sig[t]))
  <2>1. T.pc[t] \in {"wait", "post"}
    BY <1>6, <1>7, NowFields
  <2> QED BY <1>6, <1>7, <2>1, NowFields, SignalOwnersGood, BecomesGood
<1>8. CASE t \in Processes /\ \E T1 \in blocking_action_thread(T, t) : Becomes(T1)
  BY <1>6, <1>8, BlockingThreadGood, BecomesGood
<1> QED BY <1>3, <1>6, <1>7, <1>8, BecomesGood

\* A blocking thread that wakes up keeps the invariant.
LEMMA BlockingThreadWakesGood ==
  ASSUME Now \in GoodTable, NEW p \in Processes, BlockingThreadWakes(p)
  PROVE  Now' \in GoodTable
<1> DEFINE b == [prc_blocking EXCEPT ![p] = FALSE]
           T == [Now EXCEPT !.prc_blocking = b]
<1>1. b \in [Processes -> BOOLEAN]
  BY NowFields
<1>2. \E T1 \in blocking_action_thread(T, p) : Becomes(T1)
  BY DEF BlockingThreadWakes
<1> HIDE DEF b
<1>3. T \in Table /\ T.lbl = Now.lbl /\ T.pc = Now.pc /\ T.dead = Now.dead
  BY <1>1, NowFields DEF Table
<1> HIDE DEF T
<1>4. T \in GoodTable
  BY <1>3, SameLocks
<1> QED BY <1>2, <1>4, BlockingThreadGood, BecomesGood

\* Every call on an owner keeps the invariant.
LEMMA OwnerStepGood ==
  ASSUME Now \in GoodTable, NEW o \in Owners, OwnerStep(o)
  PROVE  Now' \in GoodTable
BY InitializeAgainGood, InitializeOwnerGood, ShutdownOwnerGood, PurgeOwnerGood,
   RepostAstGood, CancelWaitGood DEF OwnerStep

\* Every step keeps the invariant.
LEMMA NextGood ==
  ASSUME Now \in GoodTable, [Next]_vars
  PROVE  Now' \in GoodTable
<1>1. CASE UNCHANGED vars
  BY <1>1 DEF vars, Now
<1>2. ASSUME NEW o \in Owners, OwnerStep(o) PROVE Now' \in GoodTable
  BY <1>2, OwnerStepGood
<1>3. ASSUME NEW r \in Requests, RequestStep(r) \/ WaitStep(r) PROVE Now' \in GoodTable
  BY <1>3, RequestStepGood, WaitStepGood
<1>4. ASSUME NEW t \in Threads, AstReturns(t) PROVE Now' \in GoodTable
  BY <1>4, AstReturnsGood
<1>5. ASSUME NEW p \in Processes, ProcessDies(p) \/ BlockingThreadWakes(p)
      PROVE  Now' \in GoodTable
  BY <1>5, ProcessDiesGood, BlockingThreadWakesGood
<1> QED BY <1>1, <1>2, <1>3, <1>4, <1>5 DEF Next

\* An empty lock table satisfies the invariant.
LEMMA InitGood ==
  ASSUME Init
  PROVE  Now \in GoodTable
<1>1. FreeBlock \in GoodBlock /\ FreeBlock \in Block /\ Queued(FreeBlock) = {}
      /\ \A r \in Requests : ~IsPending(FreeBlock, r)
  BY FreeBlockGood DEF GoodBlock, FreeBlock, Queued, IsPending
<1>2. TypeOK
  BY <1>1 DEF Init, TypeOK, Place, OwnFlag
<1>3. LockTableInv
  <2>1. \A l \in Locks : BlockInv(lbl[l])
    BY <1>1 DEF Init, GoodBlock
  <2>2. Linked(lbl, pc)
    BY <1>1, ManagerAssumption DEF Init, Linked
  <2> QED BY <2>1, <2>2 DEF Init, LockTableInv
<1> QED BY <1>2, <1>3, InvIsGoodTable

\* Type correctness and the consistency of the lock table: whatever the owners do,
\* in whatever order their threads run and whichever processes die, the variables
\* have their types, lock blocks agree with their requests, and a request is queued
\* and pending exactly as its thread says.
THEOREM LockTableInvariant == Spec => [](TypeOK /\ LockTableInv)
<1>1. Init => Now \in GoodTable
  BY InitGood
<1>2. Now \in GoodTable /\ [Next]_vars => (Now \in GoodTable)'
  BY NextGood
<1>3. Now \in GoodTable => TypeOK /\ LockTableInv
  BY InvIsGoodTable
<1> QED BY <1>1, <1>2, <1>3, PTL DEF Spec

\* The variables hold what their declarations in lock.h say: counters that never go
\* below zero, states among the levels, an owner in every slot of a signal.
THEOREM TypeCorrect == Spec => []TypeOK
<1>1. TypeOK /\ LockTableInv => TypeOK
  OBVIOUS
<1> QED BY <1>1, LockTableInvariant, PTL

\* The purpose of the lock manager: two requests for one lock never hold levels
\* that the compatibility matrix of lock.cpp excludes.
THEOREM GrantedCompatibleAlways == Spec => []GrantedCompatible
<1>1. LockTableInv => GrantedCompatible
  BY DEF LockTableInv, GrantedCompatible, BlockInv
<1> QED BY <1>1, LockTableInvariant, PTL

\* The counters validate_lock recomputes in debug builds (lbl_counts, lbl_state,
\* lbl_pending_lrq_count) are right at every unlock of the table, with any number
\* of owners, locks and requests.
THEOREM LockCountsAgreeAlways == Spec => []LockCountsAgree
<1>1. LockTableInv => LockCountsAgree
  BY DEF LockTableInv, LockCountsAgree, BlockInv
<1> QED BY <1>1, LockTableInvariant, PTL
==========================================================================
