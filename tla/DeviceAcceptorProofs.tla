------------------------ MODULE DeviceAcceptorProofs ------------------------
(***************************************************************************)
(* Safety of the hotplug acceptor for every number of devices and of       *)
(* coroutines that accept them.                                            *)
(***************************************************************************)
EXTENDS DeviceAcceptor, SequenceTheorems, FiniteSetTheorems, WellFoundedInduction, TLAPS

\* The callback runs between listen() and close() or shutdown() only, or was
\* dispatched then; shutdown() posts a coroutine.
ListenInv ==
    /\ registered => handle
    /\ handle => shut = "off"
    /\ enum # {} => registered
    /\ \A d \in enum : Matches(filter, Triplet[d])
    /\ shut = "posting" => target \in Tasks

\* Whoever is about to join the list of the waiting has no post and no
\* resumption of its own.
JoinInv ==
    /\ \A t \in Tasks : task[t] \in {"idle", "called", "unready", "joining"} => t \notin res
    /\ \A t \in Tasks : task[t] = "joining" => posts[t] = 0

\* The loop of shutdown() is at the entry it posts, and knows the end.
WalkInv ==
    /\ Walked => cursor \in 1..Len(resumptions) /\ last = Len(resumptions)
    /\ shut = "posting" => target = resumptions[cursor]

\* Each of the waiting is in the list once, and is posted by nobody else.
EntriesInv ==
    /\ IsInjective(resumptions)
    /\ \A i \in Pending : /\ task[resumptions[i]] = "suspended"
                          /\ posts[resumptions[i]] = 0

\* What the acceptor knows of its coroutines, until the list changes while
\* shutdown() walks it.
WaitingInv == JoinInv /\ WalkInv /\ EntriesInv /\ Served

IInv == TypeOK /\ ListenInv /\ NoneWaitsInVain /\ RefsCover /\ (~disturbed => WaitingInv)

\* Devices that differ, and whose descriptors hold no wildcard.
DistinctTriplets == \A d, e \in Devices : Matches(Triplet[d], Triplet[e]) => d = e

\* A device is stored once, when the callback has run for it; it is in the list
\* until the callback has run for it again.
StoredInv ==
    registered /\ ~leftover =>
        /\ StoredAreConnected
        /\ IsInjective(arrived)
        /\ \A i \in DOMAIN arrived : arrived[i] \notin enum
        /\ event.kind = "arrived" =>
              /\ event.dev \in connected \ enum /\ Matches(filter, Triplet[event.dev])
              /\ \A i \in DOMAIN arrived : arrived[i] # event.dev
        /\ event.kind = "left" => event.dev \notin connected

-----------------------------------------------------------------------------
(* Sequences that lose or gain an entry                                    *)

\* r is s without its entry at i.
Drops(S, s, i, r) ==
    /\ s \in Seq(S) /\ r \in Seq(S) /\ i \in 1..Len(s)
    /\ Len(r) = Len(s) - 1
    /\ \A j \in 1..Len(r) : r[j] = IF j < i THEN s[j] ELSE s[j + 1]

\* How often d is in s.
Occurrences(s, d) == Cardinality({i \in DOMAIN s : s[i] = d})

\* Sequences are functions on an interval.
LEMMA SeqTyped ==
    ASSUME NEW S, NEW s \in Seq(S)
    PROVE  /\ Len(s) \in Nat /\ DOMAIN s = 1..Len(s)
           /\ \A i \in 1..Len(s) : s[i] \in S
           /\ s = <<>> <=> Len(s) = 0
BY LenProperties, ElementOfSeq, EmptySeq

\* vector::erase and pop_back.
LEMMA RemoveAtDrops ==
    ASSUME NEW S, NEW s \in Seq(S), NEW i \in 1..Len(s)
    PROVE  Drops(S, s, i, RemoveAt(s, i))
<1>. DEFINE a == SubSeq(s, 1, i - 1)
            b == SubSeq(s, i + 1, Len(s))
<1>1. Len(s) \in Nat /\ i \in Int /\ \A j \in 1..Len(s) : s[j] \in S
  BY SeqTyped
<1>2. /\ a \in Seq(S) /\ Len(a) = i - 1
      /\ \A j \in 1..i - 1 : a[j] = s[j]
  <2>1. /\ a \in Seq(S) /\ Len(a) = IF 1 <= i - 1 THEN i - 1 - 1 + 1 ELSE 0
        /\ \A j \in 1..i - 1 - 1 + 1 : a[j] = s[1 + j - 1]
    <3>1. 1 \in Int /\ i - 1 \in Int /\ \A j \in 1..i - 1 : s[j] \in S
      BY <1>1
    <3>. HIDE DEF a
    <3>. QED
      BY <3>1, SubSeqProperties DEF a
  <2>. HIDE DEF a
  <2>. QED
    BY <1>1, <2>1
<1>3. /\ b \in Seq(S) /\ Len(b) = Len(s) - i
      /\ \A j \in 1..Len(s) - i : b[j] = s[i + j]
  <2>1. /\ b \in Seq(S)
        /\ Len(b) = IF i + 1 <= Len(s) THEN Len(s) - (i + 1) + 1 ELSE 0
        /\ \A j \in 1..Len(s) - (i + 1) + 1 : b[j] = s[i + 1 + j - 1]
    <3>1. i + 1 \in Int /\ Len(s) \in Int /\ \A j \in i + 1..Len(s) : s[j] \in S
      BY <1>1
    <3>. QED
      BY <3>1, SubSeqProperties
  <2>. HIDE DEF b
  <2>. QED
    BY <1>1, <2>1
<1>. HIDE DEF a, b
<1>4. /\ a \o b \in Seq(S) /\ Len(a \o b) = Len(a) + Len(b)
      /\ \A j \in 1..Len(a) + Len(b) :
            (a \o b)[j] = IF j <= Len(a) THEN a[j] ELSE b[j - Len(a)]
  BY <1>2, <1>3, ConcatProperties
<1>5. RemoveAt(s, i) = a \o b
  BY DEF RemoveAt, a, b
<1>6. ASSUME NEW j \in 1..Len(s) - 1
      PROVE  (a \o b)[j] = IF j < i THEN s[j] ELSE s[j + 1]
  <2>1. j \in 1..Len(a) + Len(b) /\ j \in Int
    BY <1>1, <1>2, <1>3
  <2>2. CASE j < i
    BY <1>1, <1>2, <1>4, <2>1, <2>2
  <2>3. CASE ~(j < i)
    <3>1. (a \o b)[j] = b[j - (i - 1)] /\ j - (i - 1) \in 1..Len(s) - i
      BY <1>1, <1>2, <1>3, <1>4, <2>1, <2>3
    <3>2. b[j - (i - 1)] = s[i + (j - (i - 1))]
      BY <1>3, <3>1
    <3>. QED
      BY <1>1, <2>1, <2>3, <3>1, <3>2
  <2>. QED
    BY <2>2, <2>3
<1>7. RemoveAt(s, i) \in Seq(S) /\ Len(RemoveAt(s, i)) = Len(s) - 1
  <2>1. Len(a) + Len(b) = Len(s) - 1
    BY <1>1, <1>2, <1>3
  <2>. QED
    BY <1>4, <1>5, <2>1
<1>8. \A j \in 1..Len(s) - 1 : RemoveAt(s, i)[j] = IF j < i THEN s[j] ELSE s[j + 1]
  BY <1>5, <1>6
<1>. QED
  BY <1>7, <1>8 DEF Drops

\* The same at the end of the list.
LEMMA FrontDrops ==
    ASSUME NEW S, NEW s \in Seq(S), s # <<>>
    PROVE  Drops(S, s, Len(s), Front(s)) /\ Last(s) = s[Len(s)] /\ Last(s) \in S
<1>1. Len(s) \in Nat \ {0} /\ \A j \in 1..Len(s) : s[j] \in S
  BY SeqTyped
<1>2. /\ Front(s) \in Seq(S)
      /\ Len(Front(s)) = IF 1 <= Len(s) - 1 THEN Len(s) - 1 - 1 + 1 ELSE 0
      /\ \A j \in 1..Len(s) - 1 - 1 + 1 : Front(s)[j] = s[1 + j - 1]
  <2>1. 1 \in Int /\ Len(s) - 1 \in Int /\ \A j \in 1..Len(s) - 1 : s[j] \in S
    BY <1>1
  <2>. QED
    BY <2>1, SubSeqProperties DEF Front
<1>3. /\ Front(s) \in Seq(S) /\ Len(Front(s)) = Len(s) - 1
      /\ \A j \in 1..Len(s) - 1 : Front(s)[j] = s[j] /\ j < Len(s)
  <2>1. Len(Front(s)) = Len(s) - 1
    <3>0. \A n \in Nat \ {0} : (IF 1 <= n - 1 THEN n - 1 - 1 + 1 ELSE 0) = n - 1
      OBVIOUS
    <3>1. (IF 1 <= Len(s) - 1 THEN Len(s) - 1 - 1 + 1 ELSE 0) = Len(s) - 1
      BY <1>1, <3>0
    <3>. QED
      BY <1>2, <3>1
  <2>2. ASSUME NEW j \in 1..Len(s) - 1 PROVE Front(s)[j] = s[j] /\ j < Len(s)
    <3>1. j \in 1..Len(s) - 1 - 1 + 1 /\ 1 + j - 1 = j /\ j < Len(s)
      BY <1>1
    <3>2. Front(s)[j] = s[1 + j - 1]
      BY <1>2, <3>1
    <3>. QED
      BY <3>1, <3>2
  <2>. QED
    BY <1>2, <2>1, <2>2
<1>4. Len(s) \in 1..Len(s)
  BY <1>1
<1>5. Drops(S, s, Len(s), Front(s))
  BY <1>3, <1>4 DEF Drops
<1>. QED
  BY <1>1, <1>4, <1>5 DEF Last

\* And at its front.
LEMMA TailDrops ==
    ASSUME NEW S, NEW s \in Seq(S), s # <<>>
    PROVE  Drops(S, s, 1, Tail(s)) /\ Head(s) = s[1] /\ Head(s) \in S
BY SeqTyped, HeadTailProperties DEF Drops

\* What is left was there before, no further than one place behind.
LEMMA DroppedEntries ==
    ASSUME NEW S, NEW s, NEW i, NEW r, Drops(S, s, i, r)
    PROVE  /\ \A j \in DOMAIN r : \E k \in DOMAIN s :
                 r[j] = s[k] /\ k # i /\ (k = j \/ k = j + 1)
           /\ \A k \in DOMAIN s \ {i} : \E j \in DOMAIN r : r[j] = s[k]
           /\ IsInjective(s) => IsInjective(r) /\ \A j \in DOMAIN r : r[j] # s[i]
<1>1. /\ Len(s) \in Nat /\ DOMAIN s = 1..Len(s) /\ DOMAIN r = 1..Len(r)
      /\ Len(r) = Len(s) - 1 /\ i \in 1..Len(s)
  BY SeqTyped DEF Drops
<1>. DEFINE at(j) == IF j < i THEN j ELSE j + 1
<1>2. \A j \in DOMAIN r : r[j] = s[at(j)] /\ at(j) \in DOMAIN s /\ at(j) # i
  BY <1>1 DEF Drops
<1>3. \A k \in DOMAIN s \ {i} : \E j \in DOMAIN r : k = at(j)
  <2>. SUFFICES ASSUME NEW k \in DOMAIN s \ {i} PROVE \E j \in DOMAIN r : k = at(j)
    OBVIOUS
  <2>1. CASE k < i
    BY <1>1, <2>1
  <2>2. CASE ~(k < i)
    <3>1. k - 1 \in DOMAIN r /\ k = at(k - 1)
      BY <1>1, <2>2
    <3>. QED
      BY <3>1
  <2>. QED
    BY <2>1, <2>2
<1>4. \A j, l \in DOMAIN r : at(j) = at(l) => j = l
  BY <1>1
<1>5. IsInjective(s) => IsInjective(r) /\ \A j \in DOMAIN r : r[j] # s[i]
  <2>. HIDE DEF at
  <2>. QED
    BY <1>1, <1>2, <1>4 DEF IsInjective
<1>6. \A k \in DOMAIN s \ {i} : \E j \in DOMAIN r : r[j] = s[k]
  <2>. HIDE DEF at
  <2>. QED
    BY <1>2, <1>3
<1>. QED
  BY <1>1, <1>2, <1>5, <1>6

\* A list has a number of entries for each device.
LEMMA Counted ==
    ASSUME NEW S, NEW s \in Seq(S), NEW d
    PROVE  IsFiniteSet({i \in DOMAIN s : s[i] = d}) /\ Occurrences(s, d) \in Nat
<1>1. Len(s) \in Nat /\ DOMAIN s = 1..Len(s)
  BY SeqTyped
<1>2. IsFiniteSet(1..Len(s))
  BY <1>1, FS_Interval
<1>3. IsFiniteSet({i \in DOMAIN s : s[i] = d})
  BY <1>1, <1>2, FS_Subset
<1>. QED
  BY <1>3, FS_CardinalityType DEF Occurrences

\* Distinct elements of A go to distinct elements of B.
LEMMA Fits ==
    ASSUME NEW A, IsFiniteSet(A), NEW B, IsFiniteSet(B), NEW f \in [A -> B],
           \A x, y \in A : f[x] = f[y] => x = y
    PROVE  Cardinality(A) <= Cardinality(B)
<1>1. ~(Cardinality(B) < Cardinality(A))
  BY FS_PigeonHole
<1>. QED
  BY <1>1, FS_CardinalityType

\* A list that loses an entry has one less for its device.
LEMMA DroppedCount ==
    ASSUME NEW S, NEW s, NEW i, NEW r, Drops(S, s, i, r), NEW d
    PROVE  Occurrences(s, d) = Occurrences(r, d) + (IF s[i] = d THEN 1 ELSE 0)
<1>. DEFINE A == {k \in DOMAIN s : s[k] = d}
            B == {j \in DOMAIN r : r[j] = d}
            f == [j \in B |-> IF j < i THEN j ELSE j + 1]
            g == [k \in A \ {i} |-> IF k < i THEN k ELSE k - 1]
<1>1. /\ Len(s) \in Nat /\ DOMAIN s = 1..Len(s) /\ DOMAIN r = 1..Len(r)
      /\ Len(r) = Len(s) - 1 /\ i \in 1..Len(s)
  BY SeqTyped DEF Drops
<1>2. IsFiniteSet(A) /\ IsFiniteSet(B) /\ Cardinality(A) \in Nat /\ Cardinality(B) \in Nat
  BY Counted DEF Drops, Occurrences
<1>3. f \in [B -> A \ {i}]
  <2>. SUFFICES ASSUME NEW j \in B PROVE (IF j < i THEN j ELSE j + 1) \in A \ {i}
    OBVIOUS
  <2>1. r[j] = IF j < i THEN s[j] ELSE s[j + 1]
    BY <1>1 DEF Drops
  <2>. QED
    BY <1>1, <2>1
<1>4. \A x, y \in B : f[x] = f[y] => x = y
  <2>. SUFFICES ASSUME NEW x \in B, NEW y \in B, f[x] = f[y] PROVE x = y
    OBVIOUS
  <2>1. x \in Int /\ y \in Int /\ i \in Int
    BY <1>1
  <2>. QED
    BY <2>1
<1>5. /\ IsFiniteSet(A \ {i})
      /\ Cardinality(A \ {i}) = IF i \in A THEN Cardinality(A) - 1 ELSE Cardinality(A)
  BY <1>2, FS_RemoveElement
<1>6. Cardinality(B) <= Cardinality(A \ {i})
  <2>. HIDE DEF A, B, f, g
  <2>. QED
    BY <1>2, <1>3, <1>4, <1>5, Fits
<1>7. g \in [A \ {i} -> B]
  <2>. SUFFICES ASSUME NEW k \in A \ {i} PROVE (IF k < i THEN k ELSE k - 1) \in B
    OBVIOUS
  <2>1. k \in 1..Len(s) /\ k # i /\ s[k] = d
    BY <1>1
  <2>2. CASE k < i
    BY <1>1, <2>1, <2>2 DEF Drops
  <2>3. CASE ~(k < i)
    <3>1. k - 1 \in 1..Len(r) /\ ~(k - 1 < i) /\ k - 1 + 1 = k
      BY <1>1, <2>1, <2>3
    <3>2. r[k - 1] = s[k - 1 + 1]
      BY <3>1 DEF Drops
    <3>. QED
      BY <1>1, <2>1, <2>3, <3>1, <3>2
  <2>. QED
    BY <2>2, <2>3
<1>8. \A x, y \in A \ {i} : g[x] = g[y] => x = y
  <2>. SUFFICES ASSUME NEW x \in A \ {i}, NEW y \in A \ {i}, g[x] = g[y] PROVE x = y
    OBVIOUS
  <2>1. x \in Int /\ y \in Int /\ i \in Int /\ x # i /\ y # i
    BY <1>1
  <2>. QED
    BY <2>1
<1>9. Cardinality(A \ {i}) <= Cardinality(B)
  <2>. HIDE DEF A, B, f, g
  <2>. QED
    BY <1>2, <1>5, <1>7, <1>8, Fits
<1>10. i \in A <=> s[i] = d
  BY <1>1
<1>11. Occurrences(r, d) = Cardinality(B) /\ Occurrences(s, d) = Cardinality(A)
  BY DEF Occurrences
<1>. HIDE DEF A, B, f, g
<1>. QED
  BY <1>2, <1>5, <1>6, <1>9, <1>10, <1>11

\* One that gains an entry has one more, for its device.
LEMMA AppendedCount ==
    ASSUME NEW S, NEW s \in Seq(S), NEW e \in S, NEW d
    PROVE  Occurrences(Append(s, e), d) = Occurrences(s, d) + (IF e = d THEN 1 ELSE 0)
<1>. DEFINE A == {k \in DOMAIN s : s[k] = d}
            B == {j \in DOMAIN Append(s, e) : Append(s, e)[j] = d}
            n == Len(s) + 1
<1>1. /\ Len(s) \in Nat /\ DOMAIN s = 1..Len(s)
      /\ Append(s, e) \in Seq(S) /\ DOMAIN Append(s, e) = 1..n
      /\ \A j \in 1..Len(s) : Append(s, e)[j] = s[j]
      /\ Append(s, e)[n] = e
  BY SeqTyped, AppendProperties
<1>2. /\ IsFiniteSet(A) /\ Cardinality(A) \in Nat
      /\ Occurrences(Append(s, e), d) = Cardinality(B) /\ Occurrences(s, d) = Cardinality(A)
  BY <1>1, Counted DEF Occurrences
<1>3. n \notin A
  BY <1>1
<1>4. CASE e = d
  <2>1. B = A \cup {n}
    BY <1>1, <1>4
  <2>. HIDE DEF A, B, n
  <2>2. Cardinality(A \cup {n}) = IF n \in A THEN Cardinality(A) ELSE Cardinality(A) + 1
    BY <1>2, FS_AddElement
  <2>. QED
    BY <1>2, <1>3, <1>4, <2>1, <2>2
<1>5. CASE e # d
  <2>1. B = A
    BY <1>1, <1>5
  <2>. HIDE DEF A, B, n
  <2>. QED
    BY <1>2, <1>5, <2>1
<1>. QED
  BY <1>4, <1>5

\* The results that refer to a device.
Takers(r, d) == {t \in Tasks : r[t] = d}

\* As many as there are: there are finitely many coroutines.
LEMMA TakersCount ==
    ASSUME NEW r, NEW d
    PROVE  IsFiniteSet(Takers(r, d)) /\ Cardinality(Takers(r, d)) \in Nat
<1>1. IsFiniteSet(Takers(r, d))
  BY TasksAssumption, FS_Subset DEF Takers
<1>. QED
  BY <1>1, FS_CardinalityType

\* A result that is overwritten counts for its new device.
LEMMA TakersChange ==
    ASSUME NEW D, NEW r \in [Tasks -> D], NEW t \in Tasks, NEW e \in D, NEW d,
           NEW q, q = [r EXCEPT ![t] = e]
    PROVE  Cardinality(Takers(q, d)) <= Cardinality(Takers(r, d)) + (IF e = d THEN 1 ELSE 0)
<1>1. q[t] = e /\ \A u \in Tasks \ {t} : q[u] = r[u]
  OBVIOUS
<1>2. /\ IsFiniteSet(Takers(q, d)) /\ Cardinality(Takers(q, d)) \in Nat
      /\ IsFiniteSet(Takers(r, d)) /\ Cardinality(Takers(r, d)) \in Nat
  BY TakersCount
<1>3. CASE e = d
  <2>1. Takers(q, d) \subseteq Takers(r, d) \cup {t}
    BY <1>1 DEF Takers
  <2>2. /\ IsFiniteSet(Takers(r, d) \cup {t})
        /\ Cardinality(Takers(r, d) \cup {t}) =
              IF t \in Takers(r, d) THEN Cardinality(Takers(r, d))
                                    ELSE Cardinality(Takers(r, d)) + 1
    BY <1>2, FS_AddElement
  <2>3. /\ Cardinality(Takers(q, d)) <= Cardinality(Takers(r, d) \cup {t})
        /\ Cardinality(Takers(r, d) \cup {t}) \in Nat
    BY <2>1, <2>2, FS_Subset, FS_CardinalityType
  <2>. QED
    BY <1>2, <1>3, <2>2, <2>3
<1>4. CASE e # d
  <2>1. Takers(q, d) \subseteq Takers(r, d)
    BY <1>1, <1>4 DEF Takers
  <2>2. Cardinality(Takers(q, d)) <= Cardinality(Takers(r, d))
    BY <1>2, <2>1, FS_Subset
  <2>. QED
    BY <1>2, <1>4, <2>2
<1>. QED
  BY <1>3, <1>4

\* And no more for the old one.
LEMMA TakersLess ==
    ASSUME NEW r, NEW t \in Tasks, NEW q, NEW d, r[t] = d, q[t] # d,
           \A u \in Tasks \ {t} : q[u] = r[u]
    PROVE  Cardinality(Takers(q, d)) = Cardinality(Takers(r, d)) - 1
<1>1. Takers(q, d) = Takers(r, d) \ {t} /\ t \in Takers(r, d)
  BY DEF Takers
<1>2. IsFiniteSet(Takers(r, d))
  BY TakersCount
<1>. QED
  BY <1>1, <1>2, FS_RemoveElement

\* The least index is one of the indices.
LEMMA LeastIndex ==
    ASSUME NEW S, S \subseteq Nat, S # {}
    PROVE  Min(S) \in S
<1>. DEFINE R == {p \in Nat \X Nat : p[1] < p[2]}
<1>1. IsWellFoundedOn(R, Nat)
  BY NatLessThanWellFounded DEF OpToRel
<1>2. PICK n \in S : \A m \in S : ~(<<m, n>> \in R)
  <2>. HIDE DEF R
  <2>. QED
    BY <1>1, WFMin
<1>3. \A m \in S : n <= m
  <2>. SUFFICES ASSUME NEW m \in S, m < n PROVE FALSE
    OBVIOUS
  <2>1. <<m, n>> \in R
    OBVIOUS
  <2>. QED
    BY <1>2, <2>1
<1>. QED
  BY <1>3 DEF Min

\* Erasing what was found drops it, and leaves the list alone when nothing was.
LEMMA Erased ==
    ASSUME NEW S, NEW s \in Seq(S), NEW found, found \subseteq DOMAIN s
    PROVE  \/ found = {} /\ Erase(s, found) = s
           \/ \E i \in found : i = Min(found) /\ Drops(S, s, i, Erase(s, found))
<1>1. CASE found = {}
  BY <1>1 DEF Erase
<1>2. CASE found # {}
  <2>1. found \subseteq 1..Len(s) /\ Len(s) \in Nat
    BY SeqTyped
  <2>2. Min(found) \in found
    BY <1>2, <2>1, LeastIndex
  <2>3. Drops(S, s, Min(found), RemoveAt(s, Min(found)))
    BY <2>1, <2>2, RemoveAtDrops
  <2>. QED
    BY <1>2, <2>2, <2>3 DEF Erase
<1>. QED
  BY <1>1, <1>2

USE DEF busVars, handleVars, listVars, opVars, stopVars, shutVars, vars

-----------------------------------------------------------------------------
(* What each handler does to the lists                                     *)

\* What the callback is about.
LEMMA EventTyped ==
    ASSUME TypeOK
    PROVE  /\ event.kind \in {"arrived", "left"} => event.dev \in Devices
           /\ event \in {NoEvent} \cup [kind : {"arrived", "left"}, dev : Devices]
           /\ NoEvent.kind = "none"
BY DEF TypeOK, NoEvent

\* listen() reports the devices present before shutdown() can be called.
LEMMA EnumerateRuns ==
    ASSUME ListenInv, NEW d \in enum
    PROVE  registered /\ handle /\ shut = "off" /\ ~Walked
BY DEF ListenInv, Walked

\* A step that leaves the iterators of shutdown() valid.
Steady == Walked => UNCHANGED resumptions

\* Where shutdown() does not walk the list, nobody in it has been posted.
LEMMA PendingAll ==
    /\ ~Walked => Pending = DOMAIN resumptions
    /\ ~Walked' => Pending' = DOMAIN resumptions'
BY DEF Walked, Pending

\* A device that arrives is stored, or given to the first of the waiting.
LEMMA ArrivedLists ==
    ASSUME TypeOK, NEW d \in Devices, Arrived(d)
    PROVE  \/ /\ resumptions = <<>> /\ arrived' = Append(arrived, d)
              /\ UNCHANGED <<resumptions, opVars, posts>>
           \/ /\ resumptions # <<>> /\ Head(resumptions) = resumptions[1]
              /\ Head(resumptions) \in Tasks
              /\ Drops(Tasks, resumptions, 1, resumptions')
              /\ result' = [result EXCEPT ![resumptions[1]] = d]
              /\ posts' = [posts EXCEPT ![resumptions[1]] = @ + 1]
              /\ UNCHANGED <<arrived, cancelled, res>>
<1>1. CASE resumptions = <<>>
  BY <1>1 DEF Arrived
<1>2. CASE resumptions # <<>>
  <2>1. Wake(d)
    BY <1>2 DEF Arrived
  <2>2. /\ Drops(Tasks, resumptions, 1, Tail(resumptions))
        /\ Head(resumptions) = resumptions[1] /\ Head(resumptions) \in Tasks
    BY <1>2, TailDrops DEF TypeOK
  <2>. QED
    BY <1>2, <2>1, <2>2 DEF Wake, Post
<1>. QED
  BY <1>1, <1>2

\* A device that leaves takes at most one entry with it.
LEMMA LeftLists ==
    ASSUME TypeOK, NEW d, Left(d)
    PROVE  \/ /\ UNCHANGED <<arrived, refs>>
              /\ \A i \in DOMAIN arrived : ~Matches(Triplet[arrived[i]], Triplet[d])
           \/ \E i \in DOMAIN arrived :
                 /\ Matches(Triplet[arrived[i]], Triplet[d])
                 /\ Drops(Devices, arrived, i, arrived')
                 /\ refs' = [e \in Devices |->
                               refs[e] + Cardinality({j \in {k \in DOMAIN arrived : k > i} :
                                                         arrived[j] = e})
                                       - (IF e = Last(arrived) THEN 1 ELSE 0)]
<1>. DEFINE same == {i \in DOMAIN arrived : Matches(Triplet[arrived[i]], Triplet[d])}
<1>1. \/ same = {} /\ Erase(arrived, same) = arrived
      \/ \E i \in same : i = Min(same) /\ Drops(Devices, arrived, i, Erase(arrived, same))
  <2>1. arrived \in Seq(Devices) /\ same \subseteq DOMAIN arrived
    BY DEF TypeOK
  <2>. HIDE DEF same
  <2>. QED
    BY <2>1, Erased
<1>2. CASE same = {}
  BY <1>1, <1>2 DEF Left
<1>3. CASE same # {}
  <2>1. PICK i \in same : i = Min(same) /\ Drops(Devices, arrived, i, Erase(arrived, same))
    BY <1>1, <1>3
  <2>2. /\ arrived' = Erase(arrived, same)
        /\ refs' = [e \in Devices |->
                      refs[e] + Cardinality({j \in {k \in DOMAIN arrived : k > Min(same)} :
                                                arrived[j] = e})
                              - (IF e = Last(arrived) THEN 1 ELSE 0)]
    BY <1>3 DEF Left
  <2>. QED
    BY <2>1, <2>2
<1>. QED
  BY <1>2, <1>3

\* accept() takes the last device stored.
LEMMA TakenLists ==
    ASSUME TypeOK, NEW t \in Tasks, TakeStored(t)
    PROVE  /\ Drops(Devices, arrived, Len(arrived), arrived')
           /\ Last(arrived) = arrived[Len(arrived)] /\ Last(arrived) \in Devices
           /\ arrived # <<>>
           /\ result' = [result EXCEPT ![t] = Last(arrived)]
           /\ task' = [task EXCEPT ![t] = "resumed"]
           /\ UNCHANGED <<resumptions, cancelled, res>>
BY FrontDrops DEF TypeOK, TakeStored, Enter

\* The stop callback takes its coroutine off the list.
LEMMA CancelLists ==
    ASSUME TypeOK, NEW t \in Tasks, Cancel(t)
    PROVE  /\ posts' = [posts EXCEPT ![t] = @ + 1]
           /\ cancelled' = cancelled \cup {t}
           /\ \/ /\ UNCHANGED resumptions
                 /\ \A i \in DOMAIN resumptions : resumptions[i] # t
              \/ \E i \in DOMAIN resumptions :
                    resumptions[i] = t /\ Drops(Tasks, resumptions, i, resumptions')
<1>. DEFINE found == {i \in DOMAIN resumptions : resumptions[i] = t}
<1>1. \/ found = {} /\ Erase(resumptions, found) = resumptions
      \/ \E i \in found : Drops(Tasks, resumptions, i, Erase(resumptions, found))
  <2>1. resumptions \in Seq(Tasks) /\ found \subseteq DOMAIN resumptions
    BY DEF TypeOK
  <2>. HIDE DEF found
  <2>. QED
    BY <2>1, Erased
<1>2. resumptions' = Erase(resumptions, found)
  BY DEF Cancel
<1>3. \/ found = {} /\ resumptions' = resumptions
      \/ \E i \in found : Drops(Tasks, resumptions, i, resumptions')
  BY <1>1, <1>2
<1>. QED
  BY <1>3 DEF Cancel, Post

-----------------------------------------------------------------------------
(* Type correctness.  That a counted reference never falls below zero      *)
(* follows from RefsCover, and is shown with it.                           *)

\* Every step keeps the variables in their types.
LEMMA TypeStep ==
    ASSUME TypeOK, ListenInv, [Next]_vars, refs' \in [Devices -> Nat]
    PROVE  TypeOK'
<1>1. ASSUME NEW d \in Devices, Arrived(d)
      PROVE  /\ resumptions' \in Seq(Tasks) /\ arrived' \in Seq(Devices)
             /\ result' \in [Tasks -> Devices \cup {NoDevice}]
             /\ posts' \in [Tasks -> Nat] /\ UNCHANGED <<cancelled, res>>
  <2>1. CASE /\ arrived' = Append(arrived, d)
             /\ UNCHANGED <<resumptions, opVars, posts>>
    BY <2>1, AppendProperties DEF TypeOK
  <2>2. CASE /\ Drops(Tasks, resumptions, 1, resumptions') /\ resumptions[1] \in Tasks
             /\ result' = [result EXCEPT ![resumptions[1]] = d]
             /\ posts' = [posts EXCEPT ![resumptions[1]] = @ + 1]
             /\ UNCHANGED <<arrived, cancelled, res>>
    BY <2>2 DEF TypeOK, Drops
  <2>. QED
    BY <1>1, <2>1, <2>2, ArrivedLists
<1>2. ASSUME NEW t \in Tasks, TakeStored(t)
      PROVE  /\ resumptions' \in Seq(Tasks) /\ arrived' \in Seq(Devices)
             /\ result' \in [Tasks -> Devices \cup {NoDevice}]
             /\ task' \in [Tasks -> TaskStates] /\ UNCHANGED <<cancelled, res>>
  <2>1. "resumed" \in TaskStates
    BY DEF TaskStates
  <2>. QED
    <3>1. /\ arrived' \in Seq(Devices) /\ Last(arrived) \in Devices
          /\ result' = [result EXCEPT ![t] = Last(arrived)]
          /\ task' = [task EXCEPT ![t] = "resumed"]
          /\ UNCHANGED <<resumptions, cancelled, res>>
      BY <1>2, TakenLists DEF Drops
    <3>2. /\ resumptions \in Seq(Tasks) /\ task \in [Tasks -> TaskStates]
          /\ result \in [Tasks -> Devices \cup {NoDevice}]
      BY DEF TypeOK
    <3>. QED
      BY <2>1, <3>1, <3>2
<1>3. ASSUME NEW d \in Devices, Plug(d) \/ Unplug(d) PROVE TypeOK'
  <2>1. PICK k \in {"arrived", "left"} :
           Dispatch(d, k) /\ connected' \subseteq Devices /\ enum \subseteq connected'
    BY <1>3 DEF Plug, Unplug, TypeOK
  <2>2. event' \in {NoEvent} \cup [kind : {"arrived", "left"}, dev : Devices]
    BY <2>1 DEF Dispatch
  <2>. QED
    BY <2>1, <2>2 DEF Dispatch, TypeOK
<1>4. CASE Callback
  <2>1. disturbed' \in BOOLEAN /\ event' \in {NoEvent}
    BY <1>4 DEF Callback, Disturbs, TypeOK
  <2>2. CASE Arrived(event.dev) /\ event.dev \in Devices
    BY <1>1, <1>4, <2>1, <2>2 DEF Callback, TypeOK
  <2>3. CASE Left(event.dev)
    <3>1. arrived' \in Seq(Devices)
      BY <2>3, LeftLists DEF TypeOK, Drops
    <3>. QED
      BY <1>4, <2>1, <2>3, <3>1 DEF Callback, Left, TypeOK
  <2>. QED
    BY <1>4, <2>2, <2>3, EventTyped DEF Callback
<1>5. ASSUME NEW d \in Devices, Enumerate(d) PROVE TypeOK'
  BY <1>1, <1>5 DEF Enumerate, TypeOK
<1>6. CASE Bind
  BY <1>6 DEF Bind, TypeOK
<1>7. CASE Listen
  BY <1>7 DEF Listen, TypeOK
<1>8. CASE Close
  BY <1>8 DEF Close, TypeOK
<1>9. CASE ShutdownBegins
  BY <1>9 DEF ShutdownBegins, TypeOK
<1>10. CASE ShuttingDown
  <2>1. ASSUME NEW i \in Nat, NEW n \in Nat, Turn(i, n) PROVE TypeOK'
    <3>1. target' \in Tasks
      <4>1. CASE i < Len(resumptions) /\ target' = resumptions[i + 1]
        <5>1. i + 1 \in 1..Len(resumptions)
          BY <4>1, SeqTyped DEF TypeOK
        <5>. QED
          BY <4>1, <5>1, SeqTyped DEF TypeOK
      <4>. QED
        BY <2>1, <4>1 DEF Turn
    <3>. QED
      BY <2>1, <3>1 DEF Turn, TypeOK
  <2>2. CASE ShutdownFirst \/ ShutdownNext
    <3>1. 0 \in Nat /\ Len(resumptions) \in Nat /\ cursor \in Nat /\ last \in Nat
      BY SeqTyped DEF TypeOK
    <3>. QED
      BY <2>1, <2>2, <3>1 DEF ShutdownFirst, ShutdownNext
  <2>3. CASE ShutdownPosts
    <3>1. target \in Tasks /\ posts' = [posts EXCEPT ![target] = @ + 1]
      BY <2>3 DEF ShutdownPosts, Post, ListenInv
    <3>2. posts' \in [Tasks -> Nat] /\ cancelled' \subseteq Tasks
      BY <2>3, <3>1 DEF ShutdownPosts, TypeOK
    <3>. QED
      BY <2>3, <3>2 DEF ShutdownPosts, TypeOK
  <2>4. CASE ShutdownClears
    <3>1. <<>> \in Seq(Tasks) /\ <<>> \in Seq(Devices)
      BY EmptySeq
    <3>. QED
      BY <2>4, <3>1 DEF ShutdownClears, TypeOK
  <2>. QED
    BY <1>10, <2>2, <2>3, <2>4 DEF ShuttingDown
<1>11. ASSUME NEW t \in Tasks, Accept(t) PROVE TypeOK'
  BY <1>11 DEF Accept, Enter, TypeOK, TaskStates
<1>12. ASSUME NEW t \in Tasks, AwaitReady(t) PROVE TypeOK'
  <2>1. CASE TakeStored(t)
    BY <1>2, <1>12, <2>1 DEF AwaitReady, TypeOK
  <2>2. CASE Enter(t, "unready") /\ UNCHANGED <<listVars, opVars>>
    BY <1>12, <2>2 DEF AwaitReady, Enter, TypeOK, TaskStates
  <2>. QED
    BY <1>12, <2>1, <2>2 DEF AwaitReady
<1>13. ASSUME NEW t \in Tasks, AwaitStop(t) PROVE TypeOK'
  BY <1>13 DEF AwaitStop, Enter, TypeOK, TaskStates
<1>14. ASSUME NEW t \in Tasks, AwaitSuspend(t) PROVE TypeOK'
  <2>. disturbed' \in BOOLEAN
    BY <1>14 DEF AwaitSuspend, Disturbs, TypeOK
  <2>1. CASE TakeStored(t)
    BY <1>2, <1>14, <2>1 DEF AwaitSuspend, TypeOK
  <2>2. CASE Wait(t)
    <3>1. resumptions' \in Seq(Tasks)
      BY <2>2, AppendProperties DEF Wait, TypeOK
    <3>. QED
      BY <1>14, <2>2, <3>1 DEF AwaitSuspend, Wait, Enter, TypeOK, TaskStates
  <2>. QED
    BY <1>14, <2>1, <2>2 DEF AwaitSuspend
<1>15. ASSUME NEW t \in Tasks, Resume(t) PROVE TypeOK'
  BY <1>15 DEF Resume, Enter, TypeOK, TaskStates
<1>16. ASSUME NEW t \in Tasks, Return(t) PROVE TypeOK'
  BY <1>16 DEF Return, Enter, TypeOK, TaskStates
<1>17. ASSUME NEW t \in Tasks, RequestStop(t) PROVE TypeOK'
  BY <1>17 DEF RequestStop, TypeOK
<1>18. ASSUME NEW t \in Tasks, StopFn(t) PROVE TypeOK'
  <2>. disturbed' \in BOOLEAN
    BY <1>18 DEF StopFn, Disturbs, TypeOK
  <2>1. CASE Cancel(t)
    <3>1. resumptions' \in Seq(Tasks)
      BY <2>1, CancelLists DEF TypeOK, Drops
    <3>2. posts' \in [Tasks -> Nat] /\ cancelled' \subseteq Tasks
      BY <2>1 DEF Cancel, Post, TypeOK
    <3>. QED
      BY <1>18, <3>1, <3>2 DEF StopFn, TypeOK
  <2>2. CASE UNCHANGED <<cancelled, posts, resumptions>>
    BY <1>18, <2>2 DEF StopFn, TypeOK
  <2>. QED
    BY <1>18, <2>1, <2>2 DEF StopFn
<1>19. CASE UNCHANGED vars
  BY <1>19 DEF TypeOK
<1>. QED
  BY <1>3, <1>4, <1>5, <1>6, <1>7, <1>8, <1>9, <1>10, <1>11, <1>12, <1>13,
     <1>14, <1>15, <1>16, <1>17, <1>18, <1>19 DEF Next, Accepting

-----------------------------------------------------------------------------
(* The callback runs between listen() and close() or shutdown()            *)

\* The steps that change neither the handle, the filter nor the bus.
LEMMA HandleKept ==
    ASSUME ListenInv, UNCHANGED <<enum, handleVars, shut, target>>
    PROVE  ListenInv'
BY DEF ListenInv

\* Every step keeps to it.
LEMMA ListenStep ==
    ASSUME TypeOK, TypeOK', ListenInv, [Next]_vars
    PROVE  ListenInv'
<1>1. ASSUME NEW d \in Devices, Plug(d) \/ Unplug(d) PROVE ListenInv'
  BY <1>1, HandleKept DEF Plug, Unplug, Dispatch
<1>2. ASSUME NEW d \in Devices, Enumerate(d) PROVE ListenInv'
  <2>1. registered /\ handle /\ shut = "off"
    BY <1>2, EnumerateRuns DEF Enumerate
  <2>. QED
    BY <1>2, <2>1 DEF Enumerate, ListenInv
<1>3. CASE Callback
  BY <1>3, HandleKept DEF Callback
<1>4. CASE Bind
  <2>1. enum = {} /\ ~registered /\ shut = "off"
    BY <1>4 DEF Bind, Free, ListenInv
  <2>. QED
    BY <1>4, <2>1 DEF Bind, ListenInv
<1>5. CASE Listen
  BY <1>5 DEF Listen, Free, ListenInv
<1>6. CASE Close
  BY <1>6 DEF Close, Free, ListenInv
<1>7. CASE ShutdownBegins
  BY <1>7 DEF ShutdownBegins, Free, ListenInv
<1>8. CASE ShuttingDown
  <2>1. UNCHANGED <<enum, handleVars>> /\ ~handle /\ ~registered
    BY <1>8 DEF ShuttingDown, ShutdownFirst, ShutdownNext, Turn, ShutdownPosts,
       ShutdownClears, ListenInv
  <2>2. shut' = "posting" => target' \in Tasks
    <3>1. CASE ShutdownFirst \/ ShutdownNext
      <4>1. \/ target' \in Tasks
            \/ \E i \in Nat : i < Len(resumptions) /\ target' = resumptions[i + 1]
        BY <3>1 DEF ShutdownFirst, ShutdownNext, Turn, TypeOK
      <4>2. \A i \in Nat : i < Len(resumptions) => resumptions[i + 1] \in Tasks
        BY SeqTyped DEF TypeOK
      <4>. QED
        BY <4>1, <4>2
    <3>2. CASE ShutdownPosts \/ ShutdownClears
      BY <3>2 DEF ShutdownPosts, ShutdownClears
    <3>. QED
      BY <1>8, <3>1, <3>2 DEF ShuttingDown
  <2>. QED
    BY <2>1, <2>2 DEF ListenInv
<1>9. ASSUME NEW t \in Tasks, AwaitReady(t) \/ AwaitSuspend(t) PROVE ListenInv'
  BY <1>9, HandleKept DEF AwaitReady, AwaitSuspend
<1>10. ASSUME NEW t \in Tasks,
              \/ Accept(t) \/ AwaitStop(t) \/ Resume(t) \/ Return(t)
              \/ RequestStop(t) \/ StopFn(t)
       PROVE  ListenInv'
  BY <1>10, HandleKept DEF Accept, AwaitStop, Resume, Return, RequestStop, StopFn
<1>11. CASE UNCHANGED vars
  BY <1>11, HandleKept
<1>. QED
  BY <1>1, <1>2, <1>3, <1>4, <1>5, <1>6, <1>7, <1>8, <1>9, <1>10, <1>11
     DEF Next, Accepting

-----------------------------------------------------------------------------
(* The loop of shutdown()                                                  *)

\* As long as nothing disturbs it the callback, accept() and the stop callback
\* leave the list that shutdown() walks alone.
LEMMA SteadyStep ==
    ASSUME TypeOK, ListenInv, [Next]_vars, ~disturbed'
    PROVE  /\ ~disturbed
           /\ Steady \/ ShutdownClears
           /\ UNCHANGED shutVars \/ ShutdownBegins \/ ShuttingDown
<1>1. ASSUME NEW d \in Devices, Plug(d) \/ Unplug(d)
      PROVE  UNCHANGED <<resumptions, shutVars, disturbed>>
  BY <1>1 DEF Plug, Unplug, Dispatch
<1>2. ASSUME NEW d \in Devices, Enumerate(d)
      PROVE  ~Walked /\ UNCHANGED <<shutVars, disturbed>>
  BY <1>2, EnumerateRuns DEF Enumerate
<1>3. CASE Callback
  BY <1>3 DEF Callback, Disturbs, Steady
<1>4. CASE Bind \/ Listen \/ Close
  BY <1>4 DEF Bind, Listen, Close, Steady
<1>5. CASE ShutdownBegins
  BY <1>5 DEF ShutdownBegins, Steady
<1>6. CASE ShuttingDown
  BY <1>6 DEF ShuttingDown, ShutdownFirst, ShutdownNext, Turn, ShutdownPosts, ShutdownClears,
     Steady
<1>7. ASSUME NEW t \in Tasks, AwaitSuspend(t) \/ StopFn(t)
      PROVE  ~disturbed /\ Steady /\ UNCHANGED shutVars
  BY <1>7 DEF AwaitSuspend, StopFn, Disturbs, Steady
<1>8. ASSUME NEW t \in Tasks, AwaitReady(t)
      PROVE  UNCHANGED <<resumptions, shutVars, disturbed>>
  BY <1>8 DEF AwaitReady, TakeStored
<1>9. ASSUME NEW t \in Tasks,
             Accept(t) \/ AwaitStop(t) \/ Resume(t) \/ Return(t) \/ RequestStop(t)
      PROVE  UNCHANGED <<resumptions, shutVars, disturbed>>
  BY <1>9 DEF Accept, AwaitStop, Resume, Return, RequestStop
<1>10. CASE UNCHANGED vars
  BY <1>10 DEF Steady
<1>. QED
  BY <1>1, <1>2, <1>3, <1>4, <1>5, <1>6, <1>7, <1>8, <1>9, <1>10
     DEF Next, Accepting, Steady

\* One turn of the loop reads the next entry.
LEMMA TurnReads ==
    ASSUME TypeOK, WalkInv, ~disturbed, ShutdownFirst \/ ShutdownNext
    PROVE  /\ cursor' \in 1..Len(resumptions) /\ last' = Len(resumptions)
           /\ target' = resumptions[cursor'] /\ shut' = "posting"
           /\ UNCHANGED <<resumptions, arrived, task, opVars, posts, stopVars>>
           /\ shut = "locking" => cursor' = 1
           /\ shut = "walking" => cursor' = cursor + 1
           /\ shut \in {"locking", "walking"}
<1>1. Len(resumptions) \in Nat /\ cursor \in Nat
  BY SeqTyped DEF TypeOK
<1>2. CASE ShutdownFirst
  BY <1>1, <1>2 DEF ShutdownFirst, Turn
<1>3. CASE ShutdownNext
  <2>1. last = Len(resumptions) /\ shut = "walking"
    BY <1>3 DEF ShutdownNext, WalkInv, Walked
  <2>. QED
    BY <1>1, <1>3, <2>1 DEF ShutdownNext, Turn
<1>. QED
  BY <1>2, <1>3

\* Every step keeps the loop in its place.
LEMMA WalkStep ==
    ASSUME TypeOK, ListenInv, WalkInv, [Next]_vars, ~disturbed'
    PROVE  WalkInv'
<1>1. ~disturbed /\ (Steady \/ ShutdownClears)
  BY SteadyStep
<1>2. CASE UNCHANGED shutVars /\ ~ShutdownClears
  BY <1>1, <1>2 DEF WalkInv, Walked, Steady
<1>3. CASE ShutdownBegins \/ ShutdownClears
  BY <1>3 DEF ShutdownBegins, ShutdownClears, WalkInv, Walked
<1>4. CASE ShutdownFirst \/ ShutdownNext
  BY <1>1, <1>4, TurnReads DEF WalkInv, Walked
<1>5. CASE ShutdownPosts
  BY <1>5 DEF ShutdownPosts, WalkInv, Walked
<1>. QED
  BY <1>2, <1>3, <1>4, <1>5, SteadyStep DEF ShuttingDown

-----------------------------------------------------------------------------
(* Joining the waiting                                                     *)

\* The callback changes neither where a coroutine is nor its resumption, and
\* posts the first of the waiting only.
LEMMA CallbackPosts ==
    ASSUME TypeOK, EntriesInv, Steady, NEW d \in Devices, Arrived(d), NEW t \in Tasks
    PROVE  /\ UNCHANGED res
           /\ posts'[t] = posts[t] \/ (task[t] = "suspended" /\ posts[t] = 0 /\ posts'[t] = 1)
<1>1. CASE UNCHANGED <<resumptions, opVars, posts>>
  BY <1>1
<1>2. CASE /\ resumptions # <<>> /\ resumptions[1] \in Tasks
           /\ Drops(Tasks, resumptions, 1, resumptions')
           /\ posts' = [posts EXCEPT ![resumptions[1]] = @ + 1]
           /\ UNCHANGED <<arrived, cancelled, res>>
  <2>1. resumptions' # resumptions
    BY <1>2, SeqTyped DEF Drops
  <2>2. 1 \in Pending
    BY <1>2, <2>1, PendingAll, SeqTyped DEF TypeOK, Steady
  <2>3. task[resumptions[1]] = "suspended" /\ posts[resumptions[1]] = 0
    BY <2>2 DEF EntriesInv
  <2>. QED
    BY <1>2, <2>3 DEF TypeOK
<1>. QED
  BY <1>1, <1>2, ArrivedLists

\* shutdown() posts one that is suspended and has no post.
LEMMA ShutdownPosted ==
    ASSUME TypeOK, WalkInv, EntriesInv, ShutdownPosts
    PROVE  /\ cursor \in Pending /\ target = resumptions[cursor] /\ target \in Tasks
           /\ task[target] = "suspended" /\ posts[target] = 0
           /\ posts' = [posts EXCEPT ![target] = 1]
<1>1. cursor \in 1..Len(resumptions) /\ target = resumptions[cursor] /\ shut = "posting"
  BY DEF ShutdownPosts, WalkInv, Walked
<1>2. cursor \in Pending /\ target \in Tasks
  BY <1>1, SeqTyped DEF Pending, TypeOK
<1>3. task[target] = "suspended" /\ posts[target] = 0
  BY <1>1, <1>2 DEF EntriesInv
<1>4. posts' = [posts EXCEPT ![target] = @ + 1]
  BY DEF ShutdownPosts, Post
<1>. QED
  BY <1>1, <1>2, <1>3, <1>4 DEF TypeOK

\* Steps that are not of a coroutine about to join.
LEMMA JoinKept ==
    ASSUME TypeOK, JoinInv, UNCHANGED <<task, res>>,
           \A t \in Tasks : task[t] = "joining" => posts'[t] = posts[t]
    PROVE  JoinInv'
BY DEF JoinInv

\* Every step keeps to it.
LEMMA JoinStep ==
    ASSUME TypeOK, ListenInv, WaitingInv, [Next]_vars, ~disturbed'
    PROVE  JoinInv'
<1>. USE DEF WaitingInv
<1>1. ASSUME NEW d \in Devices, Arrived(d), UNCHANGED task, Steady PROVE JoinInv'
  <2>1. ASSUME NEW t \in Tasks, task[t] = "joining" PROVE posts'[t] = posts[t]
    BY <1>1, <2>1, CallbackPosts
  <2>2. UNCHANGED res
    BY <1>1, ArrivedLists
  <2>. QED
    BY <1>1, <2>1, <2>2, JoinKept
<1>2. ASSUME NEW d \in Devices, Plug(d) \/ Unplug(d) \/ Enumerate(d) PROVE JoinInv'
  <2>1. CASE Plug(d) \/ Unplug(d)
    BY <2>1, JoinKept DEF Plug, Unplug, Dispatch
  <2>2. CASE Enumerate(d)
    BY <1>1, <2>2, EnumerateRuns DEF Enumerate, Steady
  <2>. QED
    BY <1>2, <2>1, <2>2
<1>3. CASE Callback
  <2>1. UNCHANGED task /\ Steady
    BY <1>3 DEF Callback, Disturbs, Steady
  <2>2. ASSUME NEW d, Left(d) PROVE JoinInv'
    BY <2>1, <2>2, JoinKept DEF Left
  <2>. QED
    BY <1>1, <1>3, <2>1, <2>2, EventTyped DEF Callback
<1>4. CASE Bind \/ Listen \/ Close \/ ShutdownBegins
  BY <1>4, JoinKept DEF Bind, Listen, Close, ShutdownBegins
<1>5. CASE ShutdownFirst \/ ShutdownNext
  BY <1>5, JoinKept DEF ShutdownFirst, ShutdownNext, Turn
<1>6. CASE ShutdownPosts
  <2>1. UNCHANGED <<task, res>>
    BY <1>6 DEF ShutdownPosts
  <2>2. \A t \in Tasks : task[t] = "joining" => posts'[t] = posts[t]
    BY <1>6, ShutdownPosted DEF TypeOK
  <2>. QED
    BY <2>1, <2>2, JoinKept
<1>7. CASE ShutdownClears
  BY <1>7, JoinKept DEF ShutdownClears
<1>8. ASSUME NEW t \in Tasks, Accept(t) PROVE JoinInv'
  BY <1>8 DEF Accept, Enter, JoinInv, TypeOK
<1>9. ASSUME NEW t \in Tasks, AwaitReady(t) PROVE JoinInv'
  <2>1. /\ UNCHANGED <<posts, res>> /\ task[t] = "called"
        /\ \E s \in {"resumed", "unready"} : task' = [task EXCEPT ![t] = s]
    BY <1>9 DEF AwaitReady, TakeStored, Enter
  <2>. QED
    BY <2>1 DEF JoinInv, TypeOK
<1>10. ASSUME NEW t \in Tasks, AwaitStop(t) PROVE JoinInv'
  <2>1. UNCHANGED <<posts, res>> /\ task[t] = "unready"
    BY <1>10 DEF AwaitStop
  <2>2. \/ task' = [task EXCEPT ![t] = "resumed"]
        \/ t \notin stopped /\ task' = [task EXCEPT ![t] = "joining"]
    BY <1>10 DEF AwaitStop, Enter
  <2>3. t \notin stopped => posts[t] = 0
    BY <2>1 DEF Served, PostedOnceAt
  <2>. QED
    BY <2>1, <2>2, <2>3 DEF JoinInv, TypeOK
<1>11. ASSUME NEW t \in Tasks, AwaitSuspend(t) PROVE JoinInv'
  <2>1. /\ UNCHANGED posts /\ res' \subseteq res \cup {t}
        /\ \E s \in {"resumed", "suspended"} : task' = [task EXCEPT ![t] = s]
    BY <1>11 DEF AwaitSuspend, TakeStored, Wait, Enter
  <2>. QED
    BY <2>1 DEF JoinInv, TypeOK
<1>12. ASSUME NEW t \in Tasks, Resume(t) PROVE JoinInv'
  BY <1>12 DEF Resume, Enter, JoinInv, TypeOK
<1>13. ASSUME NEW t \in Tasks, Return(t) PROVE JoinInv'
  BY <1>13 DEF Return, Enter, JoinInv, TypeOK
<1>14. ASSUME NEW t \in Tasks, RequestStop(t) PROVE JoinInv'
  BY <1>14, JoinKept DEF RequestStop
<1>15. ASSUME NEW t \in Tasks, StopFn(t) PROVE JoinInv'
  <2>1. UNCHANGED task /\ UNCHANGED res
    BY <1>15 DEF StopFn
  <2>2. UNCHANGED posts \/ (t \in res /\ posts' = [posts EXCEPT ![t] = @ + 1])
    BY <1>15 DEF StopFn, Cancel, Post
  <2>3. \A u \in Tasks : task[u] = "joining" => posts'[u] = posts[u]
    BY <2>2 DEF JoinInv, TypeOK
  <2>. QED
    BY <2>1, <2>3, JoinKept
<1>16. CASE UNCHANGED vars
  BY <1>16, JoinKept
<1>. QED
  BY <1>2, <1>3, <1>4, <1>5, <1>6, <1>7, <1>8, <1>9, <1>10, <1>11, <1>12,
     <1>13, <1>14, <1>15, <1>16 DEF Next, Accepting, ShuttingDown

-----------------------------------------------------------------------------
(* The waiting and the posted                                              *)

\* NoneWaitsInVain survives every step: a list that gains an entry finds the
\* other one empty.
LEMMA VainStep ==
    ASSUME TypeOK, NoneWaitsInVain, [Next]_vars
    PROVE  NoneWaitsInVain'
<1>1. ASSUME NEW S, NEW s, NEW i, NEW r, Drops(S, s, i, r)
      PROVE  s # <<>>
  BY <1>1, SeqTyped DEF Drops
<1>2. ASSUME NEW d \in Devices, Arrived(d) PROVE NoneWaitsInVain'
  BY <1>1, <1>2, ArrivedLists DEF NoneWaitsInVain
<1>3. ASSUME NEW d, Left(d) PROVE NoneWaitsInVain'
  <2>1. UNCHANGED resumptions /\ (UNCHANGED arrived \/ arrived # <<>>)
    BY <1>1, <1>3, LeftLists DEF Left
  <2>. QED
    BY <2>1 DEF NoneWaitsInVain
<1>4. ASSUME NEW d \in Devices, Plug(d) \/ Unplug(d) \/ Enumerate(d) PROVE NoneWaitsInVain'
  BY <1>2, <1>4 DEF Plug, Unplug, Dispatch, Enumerate, NoneWaitsInVain
<1>5. CASE Callback
  BY <1>2, <1>3, <1>5, EventTyped DEF Callback
<1>6. CASE Bind \/ Listen \/ Close \/ ShutdownBegins
  BY <1>6 DEF Bind, Listen, Close, ShutdownBegins, NoneWaitsInVain
<1>7. CASE ShuttingDown
  BY <1>7 DEF ShuttingDown, ShutdownFirst, ShutdownNext, Turn, ShutdownPosts, ShutdownClears,
     NoneWaitsInVain
<1>8. ASSUME NEW t \in Tasks, AwaitReady(t) \/ AwaitSuspend(t) PROVE NoneWaitsInVain'
  BY <1>8 DEF AwaitReady, AwaitSuspend, TakeStored, Wait, NoneWaitsInVain
<1>9. ASSUME NEW t \in Tasks,
             Accept(t) \/ AwaitStop(t) \/ Resume(t) \/ Return(t) \/ RequestStop(t)
      PROVE  NoneWaitsInVain'
  BY <1>9 DEF Accept, AwaitStop, Resume, Return, RequestStop, NoneWaitsInVain
<1>10. ASSUME NEW t \in Tasks, StopFn(t) PROVE NoneWaitsInVain'
  <2>1. UNCHANGED arrived
    BY <1>10 DEF StopFn
  <2>2. UNCHANGED resumptions \/ resumptions # <<>>
    BY <1>1, <1>10, CancelLists DEF StopFn
  <2>. QED
    BY <2>1, <2>2 DEF NoneWaitsInVain
<1>11. CASE UNCHANGED vars
  BY <1>11 DEF NoneWaitsInVain
<1>. QED
  BY <1>4, <1>5, <1>6, <1>7, <1>8, <1>9, <1>10, <1>11 DEF Next, Accepting

\* The coroutines that shutdown() has still to post.
Waiting == {resumptions[i] : i \in Pending}

\* EntriesInv and Served in terms of that set.
LEMMA WaitingCoroutines ==
    /\ EntriesInv <=> /\ IsInjective(resumptions)
                      /\ \A t \in Waiting : task[t] = "suspended" /\ posts[t] = 0
    /\ Served <=> \A t \in Tasks \ stopped :
                     PostedOnceAt(t) /\ ((task[t] = "suspended" /\ posts[t] = 0)
                                           <=> t \in Waiting)
BY DEF EntriesInv, Served, Waiting

\* The same of the state after a step.
LEMMA WaitingPrimed ==
    /\ EntriesInv' <=> /\ IsInjective(resumptions')
                       /\ \A t \in Waiting' : task'[t] = "suspended" /\ posts'[t] = 0
    /\ Served' <=> \A t \in Tasks \ stopped' :
                      /\ posts'[t] = 0 \/ (posts'[t] = 1 /\ task'[t] = "suspended")
                      /\ (task'[t] = "suspended" /\ posts'[t] = 0) <=> t \in Waiting'
BY DEF EntriesInv, Served, Waiting, PostedOnceAt

\* The waiting are coroutines.
LEMMA WaitingTyped == TypeOK => Waiting \subseteq Tasks
BY SeqTyped DEF Waiting, Pending, TypeOK

\* The steps that leave the waiting alone.
LEMMA WaitingKept ==
    ASSUME EntriesInv, Served, UNCHANGED <<resumptions, task, posts>>,
           Waiting' = Waiting, stopped \subseteq stopped'
    PROVE  EntriesInv' /\ Served'
BY WaitingCoroutines, WaitingPrimed DEF PostedOnceAt

\* One of the waiting is posted and leaves them.
LEMMA WaitingPosted ==
    ASSUME TypeOK, EntriesInv, Served, NEW t \in Tasks,
           task[t] = "suspended", posts[t] = 0, posts' = [posts EXCEPT ![t] = 1],
           UNCHANGED <<task, stopped>>, IsInjective(resumptions'), Waiting' = Waiting \ {t}
    PROVE  EntriesInv' /\ Served'
<1>1. posts'[t] = 1 /\ \A u \in Tasks \ {t} : posts'[u] = posts[u]
  BY DEF TypeOK
<1>2. \A u \in Waiting' : task'[u] = "suspended" /\ posts'[u] = 0
  BY <1>1, WaitingTyped, WaitingCoroutines
<1>3. ASSUME NEW u \in Tasks \ stopped'
      PROVE  /\ posts'[u] = 0 \/ (posts'[u] = 1 /\ task'[u] = "suspended")
             /\ (task'[u] = "suspended" /\ posts'[u] = 0) <=> u \in Waiting'
  <2>1. PostedOnceAt(u) /\ ((task[u] = "suspended" /\ posts[u] = 0) <=> u \in Waiting)
    BY WaitingCoroutines
  <2>. QED
    BY <1>1, <2>1 DEF PostedOnceAt
<1>. QED
  BY <1>2, <1>3, WaitingPrimed

\* A coroutine that does not wait goes on, and does not wait yet.
LEMMA WaitingOthers ==
    ASSUME TypeOK, EntriesInv, Served, NEW t \in Tasks,
           NEW s, s # "suspended", task' = [task EXCEPT ![t] = s],
           UNCHANGED <<resumptions, stopped, shut, cursor>>,
           \/ task[t] # "suspended" /\ UNCHANGED posts
           \/ posts[t] > 0 /\ posts' = [posts EXCEPT ![t] = @ - 1]
    PROVE  EntriesInv' /\ Served'
<1>1. Waiting' = Waiting
  BY DEF Waiting, Pending
<1>2. t \notin Waiting
  BY WaitingCoroutines
<1>3. /\ task'[t] = s
      /\ \A u \in Tasks \ {t} : task'[u] = task[u] /\ posts'[u] = posts[u]
  BY DEF TypeOK
<1>4. t \notin stopped => posts'[t] = 0
  <2>1. t \notin stopped => PostedOnceAt(t)
    BY WaitingCoroutines
  <2>2. CASE task[t] # "suspended" /\ UNCHANGED posts
    BY <2>1, <2>2 DEF PostedOnceAt
  <2>3. CASE posts[t] > 0 /\ posts' = [posts EXCEPT ![t] = @ - 1]
    BY <2>1, <2>3 DEF PostedOnceAt, TypeOK
  <2>. QED
    BY <2>2, <2>3
<1>5. \A u \in Waiting' : task'[u] = "suspended" /\ posts'[u] = 0
  BY <1>1, <1>2, <1>3, WaitingTyped, WaitingCoroutines
<1>6. ASSUME NEW u \in Tasks \ stopped'
      PROVE  /\ posts'[u] = 0 \/ (posts'[u] = 1 /\ task'[u] = "suspended")
             /\ (task'[u] = "suspended" /\ posts'[u] = 0) <=> u \in Waiting'
  <2>1. PostedOnceAt(u) /\ ((task[u] = "suspended" /\ posts[u] = 0) <=> u \in Waiting)
    BY WaitingCoroutines
  <2>. QED
    BY <1>1, <1>2, <1>3, <1>4, <2>1 DEF PostedOnceAt
<1>7. IsInjective(resumptions')
  BY DEF EntriesInv
<1>. QED
  BY <1>5, <1>6, <1>7, WaitingPrimed

\* The waiting lose the entry that is dropped from the list.
LEMMA WaitingDropped ==
    ASSUME TypeOK, EntriesInv, Steady, UNCHANGED shutVars,
           NEW i, Drops(Tasks, resumptions, i, resumptions')
    PROVE  /\ Waiting' = Waiting \ {resumptions[i]} /\ IsInjective(resumptions')
           /\ i \in Pending /\ resumptions[i] \in Waiting /\ resumptions[i] \in Tasks
           /\ task[resumptions[i]] = "suspended" /\ posts[resumptions[i]] = 0
<1>1. ~Walked /\ ~Walked'
  <2>1. resumptions' # resumptions
    BY SeqTyped DEF Drops
  <2>. QED
    BY <2>1 DEF Steady, Walked
<1>2. Pending = DOMAIN resumptions /\ Pending' = DOMAIN resumptions' /\ i \in Pending
  BY <1>1, PendingAll, SeqTyped DEF Drops
<1>3. task[resumptions[i]] = "suspended" /\ posts[resumptions[i]] = 0 /\ IsInjective(resumptions)
  BY <1>2 DEF EntriesInv
<1>4. /\ IsInjective(resumptions')
      /\ \A j \in DOMAIN resumptions' : resumptions'[j] # resumptions[i]
      /\ \A j \in DOMAIN resumptions' : \E k \in DOMAIN resumptions :
            resumptions'[j] = resumptions[k]
      /\ \A k \in DOMAIN resumptions \ {i} : \E j \in DOMAIN resumptions' :
            resumptions'[j] = resumptions[k]
  BY <1>3, DroppedEntries
<1>5. Waiting' = Waiting \ {resumptions[i]} /\ resumptions[i] \in Waiting
  BY <1>2, <1>4 DEF Waiting
<1>. QED
  BY <1>2, <1>3, <1>4, <1>5, WaitingTyped

\* The callback takes the first of the waiting.
LEMMA WakeTakes ==
    ASSUME TypeOK, EntriesInv, Steady, NEW d \in Devices, Arrived(d), resumptions # <<>>,
           UNCHANGED shutVars
    PROVE  LET t == resumptions[1] IN
           /\ t \in Tasks /\ task[t] = "suspended" /\ posts[t] = 0 /\ t \in Waiting
           /\ Waiting' = Waiting \ {t} /\ IsInjective(resumptions')
           /\ posts' = [posts EXCEPT ![t] = 1]
           /\ result' = [result EXCEPT ![t] = d]
           /\ UNCHANGED <<arrived, cancelled, res>>
<1>. DEFINE t == resumptions[1]
<1>1. /\ t \in Tasks /\ Drops(Tasks, resumptions, 1, resumptions')
      /\ posts' = [posts EXCEPT ![t] = @ + 1] /\ result' = [result EXCEPT ![t] = d]
      /\ UNCHANGED <<arrived, cancelled, res>>
  BY ArrivedLists
<1>2. /\ Waiting' = Waiting \ {t} /\ IsInjective(resumptions') /\ t \in Waiting
      /\ task[t] = "suspended" /\ posts[t] = 0
  BY <1>1, WaitingDropped
<1>3. posts' = [posts EXCEPT ![t] = 1]
  BY <1>1, <1>2 DEF TypeOK
<1>. QED
  BY <1>1, <1>2, <1>3

\* The callback wakes the first of the waiting.
LEMMA WakeStep ==
    ASSUME TypeOK, EntriesInv, Served, Steady, NEW d \in Devices, Arrived(d),
           UNCHANGED <<task, stopVars, shutVars>>
    PROVE  EntriesInv' /\ Served'
<1>1. CASE resumptions = <<>>
  <2>1. UNCHANGED <<resumptions, opVars, posts>>
    BY <1>1 DEF Arrived
  <2>. QED
    BY <2>1, WaitingKept DEF Waiting, Pending
<1>2. CASE resumptions # <<>>
  BY <1>2, WakeTakes, WaitingPosted
<1>. QED
  BY <1>1, <1>2

\* A turn of shutdown()'s loop leaves the waiting alone.
LEMMA TurnTakes ==
    ASSUME TypeOK, WalkInv, ~disturbed, ShutdownFirst \/ ShutdownNext
    PROVE  Waiting' = Waiting
<1>1. /\ UNCHANGED resumptions /\ shut' = "posting"
      /\ \/ shut = "locking" /\ cursor' = 1
         \/ shut = "walking" /\ cursor' = cursor + 1
  BY TurnReads
<1>2. DOMAIN resumptions \subseteq Nat \ {0} /\ cursor \in Nat
  BY SeqTyped DEF TypeOK
<1>3. Pending' = Pending
  BY <1>1, <1>2 DEF Pending
<1>. QED
  BY <1>1, <1>3 DEF Waiting

\* shutdown() takes the next of the waiting from them, not from the list.
LEMMA ShutdownTakes ==
    ASSUME TypeOK, WalkInv, EntriesInv, ShutdownPosts
    PROVE  Waiting' = Waiting \ {target} /\ target \in Waiting
<1>1. cursor \in Pending /\ target = resumptions[cursor]
  BY ShutdownPosted
<1>2. /\ UNCHANGED <<resumptions, cursor>> /\ shut = "posting" /\ shut' = "walking"
      /\ cursor \in Nat /\ DOMAIN resumptions = 1..Len(resumptions)
      /\ Len(resumptions) \in Nat
  BY SeqTyped DEF ShutdownPosts, TypeOK
<1>3. Pending' = Pending \ {cursor}
  BY <1>2 DEF Pending
<1>4. IsInjective(resumptions) /\ Pending \subseteq DOMAIN resumptions
  BY DEF EntriesInv, Pending
<1>. QED
  BY <1>1, <1>2, <1>3, <1>4 DEF Waiting, IsInjective

\* shutdown() posts the next of the waiting, and walks on.
LEMMA ShutdownStep ==
    ASSUME TypeOK, WalkInv, EntriesInv, Served, ShutdownPosts
    PROVE  EntriesInv' /\ Served'
<1>1. UNCHANGED <<task, stopped, resumptions>> /\ IsInjective(resumptions)
  BY DEF ShutdownPosts, EntriesInv
<1>. QED
  BY <1>1, ShutdownPosted, ShutdownTakes, WaitingPosted

\* At the end of the list nobody is left waiting, and it is cleared.
LEMMA ClearedTakes ==
    ASSUME TypeOK, WalkInv, ShutdownClears
    PROVE  Waiting = {} /\ Waiting' = {} /\ IsInjective(resumptions')
<1>1. resumptions' = <<>>
  BY DEF ShutdownClears
<1>2. Waiting = {}
  <2>1. CASE resumptions = <<>>
    BY <2>1 DEF Waiting, Pending
  <2>2. CASE shut = "walking" /\ cursor = last
    <3>1. cursor = Len(resumptions)
      BY <2>2 DEF WalkInv, Walked
    <3>. QED
      BY <2>2, <3>1, SeqTyped DEF Waiting, Pending, TypeOK
  <2>. QED
    BY <2>1, <2>2 DEF ShutdownClears
<1>3. DOMAIN resumptions' = {}
  BY <1>1
<1>. QED
  BY <1>2, <1>3 DEF IsInjective, Waiting, Pending

\* So it may be.
LEMMA ClearedStep ==
    ASSUME TypeOK, WalkInv, EntriesInv, Served, ShutdownClears
    PROVE  EntriesInv' /\ Served'
<1>1. UNCHANGED <<task, posts, stopped>>
  BY DEF ShutdownClears
<1>. QED
  BY <1>1, ClearedTakes, WaitingCoroutines, WaitingPrimed DEF PostedOnceAt

\* A coroutine joins the waiting behind the others.
LEMMA WaitJoins ==
    ASSUME TypeOK, EntriesInv, Steady, NEW t \in Tasks,
           task[t] = "joining", Wait(t), UNCHANGED shutVars
    PROVE  /\ t \notin Waiting /\ Waiting \subseteq Tasks /\ Waiting' = Waiting \cup {t}
           /\ IsInjective(resumptions')
<1>1. resumptions' = Append(resumptions, t)
  BY DEF Wait
<1>. DEFINE n == Len(resumptions) + 1
<1>2. /\ Len(resumptions) \in Nat /\ DOMAIN resumptions = 1..Len(resumptions)
      /\ DOMAIN resumptions' = 1..n
      /\ \A i \in 1..Len(resumptions) : resumptions'[i] = resumptions[i]
      /\ resumptions'[n] = t
  BY <1>1, SeqTyped, AppendProperties DEF TypeOK
<1>3. ~Walked /\ ~Walked'
  <2>1. n \in DOMAIN resumptions' /\ n \notin DOMAIN resumptions
    BY <1>2
  <2>2. resumptions' # resumptions
    BY <2>1
  <2>. QED
    BY <2>2 DEF Steady, Walked
<1>4. Pending = DOMAIN resumptions /\ Pending' = DOMAIN resumptions'
  BY <1>3, PendingAll
<1>5. t \notin Waiting /\ Waiting \subseteq Tasks
  <2>1. \A u \in Waiting : task[u] = "suspended"
    BY WaitingCoroutines
  <2>. QED
    BY <2>1, WaitingTyped
<1>6. Waiting' = Waiting \cup {t}
  <2>1. \A i \in Pending' : resumptions'[i] \in Waiting \cup {t}
    BY <1>2, <1>4 DEF Waiting
  <2>2. \A i \in Pending : i \in Pending' /\ resumptions'[i] = resumptions[i]
    BY <1>2, <1>4
  <2>3. n \in Pending'
    BY <1>2, <1>4
  <2>. QED
    BY <1>2, <2>1, <2>2, <2>3 DEF Waiting
<1>7. IsInjective(resumptions')
  <2>1. \A i \in 1..Len(resumptions) : resumptions[i] # t
    BY <1>2, <1>4, <1>5 DEF Waiting
  <2>2. \A i, j \in 1..Len(resumptions) : resumptions[i] = resumptions[j] => i = j
    BY <1>2 DEF EntriesInv, IsInjective
  <2>. QED
    BY <1>2, <2>1, <2>2 DEF IsInjective
<1>. QED
  BY <1>5, <1>6, <1>7

\* The coroutine is suspended, and has no post.
LEMMA WaitStep ==
    ASSUME TypeOK, JoinInv, EntriesInv, Served, Steady, NEW t \in Tasks,
           task[t] = "joining", Wait(t), UNCHANGED <<posts, stopVars, shutVars>>
    PROVE  EntriesInv' /\ Served'
<1>1. posts[t] = 0
  BY DEF JoinInv
<1>2. /\ t \notin Waiting /\ Waiting \subseteq Tasks /\ Waiting' = Waiting \cup {t}
      /\ IsInjective(resumptions')
  BY WaitJoins
<1>3. task'[t] = "suspended" /\ \A u \in Tasks \ {t} : task'[u] = task[u]
  BY DEF Wait, Enter, TypeOK
<1>4. \A u \in Waiting' : task'[u] = "suspended" /\ posts'[u] = 0
  BY <1>1, <1>2, <1>3, WaitingCoroutines
<1>5. ASSUME NEW u \in Tasks \ stopped'
      PROVE  /\ posts'[u] = 0 \/ (posts'[u] = 1 /\ task'[u] = "suspended")
             /\ (task'[u] = "suspended" /\ posts'[u] = 0) <=> u \in Waiting'
  <2>1. PostedOnceAt(u) /\ ((task[u] = "suspended" /\ posts[u] = 0) <=> u \in Waiting)
    BY WaitingCoroutines
  <2>. QED
    BY <1>1, <1>2, <1>3, <2>1 DEF PostedOnceAt
<1>. QED
  BY <1>2, <1>4, <1>5, WaitingPrimed

\* The stop callback takes its own coroutine from the waiting.
LEMMA StopFnTakes ==
    ASSUME TypeOK, EntriesInv, Steady, NEW t \in Tasks, Cancel(t), UNCHANGED shutVars
    PROVE  Waiting' = Waiting \ {t} /\ IsInjective(resumptions')
<1>1. CASE UNCHANGED resumptions /\ \A i \in DOMAIN resumptions : resumptions[i] # t
  BY <1>1 DEF EntriesInv, Waiting, Pending
<1>2. ASSUME NEW i \in DOMAIN resumptions, resumptions[i] = t,
             Drops(Tasks, resumptions, i, resumptions')
      PROVE  Waiting' = Waiting \ {t} /\ IsInjective(resumptions')
  BY <1>2, WaitingDropped
<1>. QED
  BY <1>1, <1>2, CancelLists

\* The stop callback posts its own coroutine, one whose stop was requested.
LEMMA StopFnStep ==
    ASSUME TypeOK, EntriesInv, Served, Steady, NEW t \in Tasks, StopFn(t)
    PROVE  EntriesInv' /\ Served'
<1>1. t \in stopped /\ UNCHANGED <<task, stopped, shutVars>>
  BY DEF StopFn, TypeOK
<1>2. CASE UNCHANGED <<cancelled, posts, resumptions>>
  BY <1>1, <1>2, WaitingKept DEF Waiting, Pending
<1>3. CASE Cancel(t)
  <2>1. \A u \in Tasks \ {t} : posts'[u] = posts[u]
    BY <1>3, CancelLists DEF TypeOK
  <2>2. Waiting' = Waiting \ {t} /\ IsInjective(resumptions')
    BY <1>1, <1>3, StopFnTakes
  <2>3. \A u \in Waiting' : task'[u] = "suspended" /\ posts'[u] = 0
    BY <1>1, <2>1, <2>2, WaitingTyped, WaitingCoroutines
  <2>4. ASSUME NEW u \in Tasks \ stopped'
        PROVE  /\ posts'[u] = 0 \/ (posts'[u] = 1 /\ task'[u] = "suspended")
               /\ (task'[u] = "suspended" /\ posts'[u] = 0) <=> u \in Waiting'
    <3>1. PostedOnceAt(u) /\ ((task[u] = "suspended" /\ posts[u] = 0) <=> u \in Waiting)
      BY <1>1, WaitingCoroutines
    <3>. QED
      BY <1>1, <2>1, <2>2, <3>1 DEF PostedOnceAt
  <2>. QED
    BY <2>2, <2>3, <2>4, WaitingPrimed
<1>. QED
  BY <1>2, <1>3 DEF StopFn

\* Every step that does not disturb shutdown() keeps EntriesInv and Served.
LEMMA WaitingStep ==
    ASSUME TypeOK, ListenInv, WaitingInv, [Next]_vars, ~disturbed'
    PROVE  EntriesInv' /\ Served'
<1>. USE DEF WaitingInv
<1>0. ~disturbed /\ (Steady \/ ShutdownClears)
  BY SteadyStep
<1>1. ASSUME NEW d \in Devices, Plug(d) \/ Unplug(d) PROVE EntriesInv' /\ Served'
  BY <1>1, WaitingKept DEF Plug, Unplug, Dispatch, Waiting, Pending
<1>2. ASSUME NEW d \in Devices, Enumerate(d) PROVE EntriesInv' /\ Served'
  BY <1>2, WakeStep, EnumerateRuns DEF Enumerate, Steady
<1>3. CASE Callback
  <2>1. UNCHANGED <<task, stopVars, shutVars>> /\ Steady
    BY <1>3 DEF Callback, Disturbs, Steady
  <2>2. ASSUME NEW d, Left(d) PROVE EntriesInv' /\ Served'
    BY <2>1, <2>2, WaitingKept DEF Left, Waiting, Pending
  <2>. QED
    BY <1>3, <2>1, <2>2, WakeStep, EventTyped DEF Callback
<1>4. CASE Bind \/ Listen \/ Close
  BY <1>4, WaitingKept DEF Bind, Listen, Close, Waiting, Pending
<1>5. CASE ShutdownBegins
  BY <1>5, WaitingKept DEF ShutdownBegins, Free, Waiting, Pending
<1>6. CASE ShutdownFirst \/ ShutdownNext
  BY <1>0, <1>6, TurnReads, TurnTakes, WaitingKept
<1>7. CASE ShutdownPosts
  BY <1>7, ShutdownStep
<1>8. CASE ShutdownClears
  BY <1>8, ClearedStep
<1>9. ASSUME NEW t \in Tasks, AwaitReady(t) \/ AwaitSuspend(t)
      PROVE  EntriesInv' /\ Served'
  <2>1. /\ UNCHANGED <<posts, stopVars, shutVars>>
        /\ task[t] # "suspended" /\ (AwaitSuspend(t) => task[t] = "joining" /\ Steady)
    BY <1>9 DEF AwaitReady, AwaitSuspend, Disturbs, Steady
  <2>2. CASE TakeStored(t)
    BY <2>1, <2>2, WaitingOthers DEF TakeStored, Enter
  <2>3. CASE Enter(t, "unready") /\ UNCHANGED <<listVars, opVars>>
    BY <2>1, <2>3, WaitingOthers DEF Enter
  <2>4. CASE Wait(t) /\ AwaitSuspend(t)
    BY <2>1, <2>4, WaitStep
  <2>. QED
    BY <1>9, <2>2, <2>3, <2>4 DEF AwaitReady, AwaitSuspend
<1>10. ASSUME NEW t \in Tasks, Accept(t) PROVE EntriesInv' /\ Served'
  BY <1>10, WaitingOthers DEF Accept, Enter
<1>11. ASSUME NEW t \in Tasks, AwaitStop(t) PROVE EntriesInv' /\ Served'
  BY <1>11, WaitingOthers DEF AwaitStop, Enter
<1>12. ASSUME NEW t \in Tasks, Resume(t) PROVE EntriesInv' /\ Served'
  BY <1>12, WaitingOthers DEF Resume, Enter
<1>13. ASSUME NEW t \in Tasks, Return(t) PROVE EntriesInv' /\ Served'
  BY <1>13, WaitingOthers DEF Return, Enter
<1>14. ASSUME NEW t \in Tasks, RequestStop(t) PROVE EntriesInv' /\ Served'
  BY <1>14, WaitingKept DEF RequestStop, Waiting, Pending
<1>15. ASSUME NEW t \in Tasks, StopFn(t) PROVE EntriesInv' /\ Served'
  <2>1. Steady
    BY <1>15 DEF StopFn, Disturbs, Steady
  <2>. QED
    BY <1>15, <2>1, StopFnStep
<1>16. CASE UNCHANGED vars
  BY <1>16, WaitingKept DEF Waiting, Pending
<1>. QED
  BY <1>1, <1>2, <1>3, <1>4, <1>5, <1>6, <1>7, <1>8, <1>9, <1>10, <1>11, <1>12,
     <1>13, <1>14, <1>15, <1>16 DEF Next, Accepting, ShuttingDown

-----------------------------------------------------------------------------
(* Counted references                                                      *)

\* What a device is held by, in terms of the list and of the results.
LEMMA Held ==
    ASSUME TypeOK, NEW d \in Devices
    PROVE  /\ HeldRefs(d) = Occurrences(arrived, d) + Cardinality(Takers(result, d))
           /\ Occurrences(arrived, d) \in Nat /\ Cardinality(Takers(result, d)) \in Nat
           /\ refs[d] \in Nat
<1>1. HeldRefs(d) = Occurrences(arrived, d) + Cardinality(Takers(result, d))
  BY DEF HeldRefs, Occurrences, Takers
<1>2. Occurrences(arrived, d) \in Nat
  BY Counted DEF TypeOK
<1>3. Cardinality(Takers(result, d)) \in Nat
  BY TakersCount
<1>4. refs[d] \in Nat
  BY DEF TypeOK
<1>. QED
  BY <1>1, <1>2, <1>3, <1>4

\* The same of the state after a step.
LEMMA HeldPrimed ==
    ASSUME NEW d \in Devices
    PROVE  HeldRefs(d)' = Occurrences(arrived', d) + Cardinality(Takers(result', d))
BY DEF HeldRefs, Occurrences, Takers

\* No reference is given back that is still needed, and none is taken for less
\* than what refers to the device afterwards.
RefsFit == /\ refs' \in [Devices -> Nat]
           /\ \A d \in Devices : refs'[d] >= Occurrences(arrived', d)
                                               + Cardinality(Takers(result', d))

\* RefsFit is what RefsCover asks of the state after a step.
LEMMA RefsFitCover ==
    ASSUME RefsFit
    PROVE  refs' \in [Devices -> Nat] /\ RefsCover'
<1>1. \A d \in Devices : refs'[d] >= HeldRefs(d)'
  BY HeldPrimed DEF RefsFit
<1>. QED
  BY <1>1 DEF RefsFit, RefsCover

\* The steps that leave the references and what holds them alone.
LEMMA RefsKept ==
    ASSUME TypeOK, RefsCover, UNCHANGED <<refs, arrived, result>>
    PROVE  RefsFit
BY Held DEF RefsFit, RefsCover, TypeOK

\* The callback takes one reference, for the list or for the result.
LEMMA ArrivedRefs ==
    ASSUME TypeOK, RefsCover, NEW d \in Devices, Arrived(d)
    PROVE  RefsFit
<1>1. refs' = [refs EXCEPT ![d] = @ + 1]
  BY DEF Arrived, Refer
<1>2. refs' \in [Devices -> Nat]
  BY <1>1 DEF TypeOK
<1>3. ASSUME NEW e \in Devices
      PROVE  refs'[e] >= Occurrences(arrived', e) + Cardinality(Takers(result', e))
  <2>1. refs'[e] = refs[e] + (IF d = e THEN 1 ELSE 0)
    BY <1>1 DEF TypeOK
  <2>2. /\ refs[e] >= Occurrences(arrived, e) + Cardinality(Takers(result, e))
        /\ Occurrences(arrived, e) \in Nat /\ Cardinality(Takers(result, e)) \in Nat
        /\ refs[e] \in Nat
    BY Held DEF RefsCover
  <2>3. CASE arrived' = Append(arrived, d) /\ UNCHANGED result
    <3>1. Occurrences(arrived', e) = Occurrences(arrived, e) + (IF d = e THEN 1 ELSE 0)
      BY <2>3, AppendedCount DEF TypeOK
    <3>2. Occurrences(arrived', e) \in Nat
      <4>1. arrived' \in Seq(Devices)
        BY <2>3, AppendProperties DEF TypeOK
      <4>. QED
        BY <4>1, Counted
    <3>3. Cardinality(Takers(result', e)) = Cardinality(Takers(result, e))
      BY <2>3
    <3>. QED
      BY <2>1, <2>2, <3>1, <3>2, <3>3
  <2>4. CASE /\ resumptions[1] \in Tasks /\ result' = [result EXCEPT ![resumptions[1]] = d]
             /\ UNCHANGED arrived
    <3>1. Cardinality(Takers(result', e)) <= Cardinality(Takers(result, e))
                                               + (IF d = e THEN 1 ELSE 0)
      <4>1. result \in [Tasks -> Devices \cup {NoDevice}] /\ d \in Devices \cup {NoDevice}
        BY DEF TypeOK
      <4>. QED
        BY <2>4, <4>1, TakersChange
    <3>2. Cardinality(Takers(result', e)) \in Nat
      BY TakersCount
    <3>3. Occurrences(arrived', e) = Occurrences(arrived, e)
      BY <2>4
    <3>. QED
      BY <2>1, <2>2, <3>1, <3>2, <3>3
  <2>. QED
    BY <2>3, <2>4, ArrivedLists
<1>. QED
  BY <1>2, <1>3 DEF RefsFit

\* An entry that is copied takes a reference of its own, so the device of the
\* last entry keeps one for each entry that is left.
LEMMA LeftRefs ==
    ASSUME TypeOK, RefsCover, NEW d, Left(d)
    PROVE  RefsFit
<1>1. UNCHANGED result
  BY DEF Left
<1>2. CASE UNCHANGED <<arrived, refs>>
  BY <1>1, <1>2, RefsKept
<1>3. ASSUME NEW i \in DOMAIN arrived, Drops(Devices, arrived, i, arrived'),
             refs' = [e \in Devices |->
                        refs[e] + Cardinality({j \in {k \in DOMAIN arrived : k > i} :
                                                  arrived[j] = e})
                                - (IF e = Last(arrived) THEN 1 ELSE 0)]
      PROVE  RefsFit
  <2>1. ASSUME NEW e \in Devices
        PROVE  /\ refs'[e] \in Nat
               /\ refs'[e] >= Occurrences(arrived', e) + Cardinality(Takers(result', e))
    <3>. DEFINE moved == {j \in {k \in DOMAIN arrived : k > i} : arrived[j] = e}
                size == Len(arrived)
    <3>1. /\ refs[e] >= Occurrences(arrived, e) + Cardinality(Takers(result, e))
          /\ Occurrences(arrived, e) \in Nat /\ Cardinality(Takers(result, e)) \in Nat
          /\ refs[e] \in Nat
      BY Held DEF RefsCover
    <3>2. Occurrences(arrived, e) = Occurrences(arrived', e) + (IF arrived[i] = e THEN 1 ELSE 0)
      BY <1>3, DroppedCount
    <3>3. Occurrences(arrived', e) \in Nat
      BY <1>3, Counted DEF Drops
    <3>4. /\ size \in Nat /\ DOMAIN arrived = 1..size /\ i \in 1..size
          /\ Last(arrived) = arrived[size]
      BY <1>3, SeqTyped DEF Last, TypeOK
    <3>5. IsFiniteSet(moved) /\ Cardinality(moved) \in Nat
      <4>1. IsFiniteSet(1..size) /\ moved \subseteq 1..size
        BY <3>4, FS_Interval
      <4>2. IsFiniteSet(moved)
        BY <4>1, FS_Subset
      <4>. QED
        BY <4>2, FS_CardinalityType
    <3>6. Last(arrived) = e => arrived[i] = e \/ Cardinality(moved) # 0
      <4>. SUFFICES ASSUME Last(arrived) = e, arrived[i] # e PROVE Cardinality(moved) # 0
        OBVIOUS
      <4>1. size \in moved
        BY <3>4
      <4>. HIDE DEF moved
      <4>. QED
        BY <3>5, <4>1, FS_EmptySet
    <3>7. refs'[e] = refs[e] + Cardinality(moved) - (IF e = Last(arrived) THEN 1 ELSE 0)
      BY <1>3
    <3>8. Cardinality(Takers(result', e)) = Cardinality(Takers(result, e))
      BY <1>1
    <3>. HIDE DEF moved, size
    <3>9. CASE e = Last(arrived)
      <4>1. refs'[e] = refs[e] + Cardinality(moved) - 1
        BY <3>7, <3>9
      <4>2. CASE arrived[i] = e
        BY <3>1, <3>2, <3>3, <3>5, <3>8, <4>1, <4>2
      <4>3. CASE arrived[i] # e
        <5>1. Cardinality(moved) # 0
          BY <3>6, <3>9, <4>3
        <5>. QED
          BY <3>1, <3>2, <3>3, <3>5, <3>8, <4>1, <4>3, <5>1
      <4>. QED
        BY <4>2, <4>3
    <3>10. CASE e # Last(arrived)
      <4>1. refs'[e] = refs[e] + Cardinality(moved)
        BY <3>1, <3>5, <3>7, <3>10
      <4>2. Occurrences(arrived', e) <= Occurrences(arrived, e)
        BY <3>1, <3>2, <3>3
      <4>. QED
        BY <3>1, <3>3, <3>5, <3>8, <4>1, <4>2
    <3>. QED
      BY <3>9, <3>10
  <2>2. refs' \in [Devices -> Nat]
    BY <1>3, <2>1
  <2>. QED
    BY <2>1, <2>2 DEF RefsFit
<1>. QED
  BY <1>2, <1>3, LeftLists

\* The entry's reference goes to the result.
LEMMA TakenRefs ==
    ASSUME TypeOK, RefsCover, NEW t \in Tasks, TakeStored(t), UNCHANGED refs
    PROVE  RefsFit
<1>1. ASSUME NEW d \in Devices
      PROVE  refs'[d] >= Occurrences(arrived', d) + Cardinality(Takers(result', d))
  <2>. DEFINE e == Last(arrived)
  <2>1. /\ refs[d] >= Occurrences(arrived, d) + Cardinality(Takers(result, d))
        /\ Occurrences(arrived, d) \in Nat /\ Cardinality(Takers(result, d)) \in Nat
        /\ refs[d] \in Nat
    BY Held DEF RefsCover
  <2>2. /\ Drops(Devices, arrived, Len(arrived), arrived') /\ arrived[Len(arrived)] = e
        /\ e \in Devices /\ result' = [result EXCEPT ![t] = e]
    BY TakenLists
  <2>. HIDE DEF e
  <2>3. Occurrences(arrived, d) = Occurrences(arrived', d) + (IF e = d THEN 1 ELSE 0)
    BY <2>2, DroppedCount
  <2>4. Cardinality(Takers(result', d)) <= Cardinality(Takers(result, d))
                                             + (IF e = d THEN 1 ELSE 0)
    <3>1. result \in [Tasks -> Devices \cup {NoDevice}] /\ e \in Devices \cup {NoDevice}
      BY <2>2 DEF TypeOK
    <3>. QED
      BY <2>2, <3>1, TakersChange
  <2>5. Occurrences(arrived', d) \in Nat /\ Cardinality(Takers(result', d)) \in Nat
    BY <2>2, Counted, TakersCount DEF Drops
  <2>. QED
    BY <2>1, <2>3, <2>4, <2>5
<1>. QED
  BY <1>1 DEF RefsFit, TypeOK

\* The list gives its references back.
LEMMA ClearedRefs ==
    ASSUME TypeOK, RefsCover, ShutdownClears
    PROVE  RefsFit
<1>1. /\ UNCHANGED result /\ arrived' = <<>>
      /\ refs' = [d \in Devices |-> refs[d] - Occurrences(arrived, d)]
  BY DEF ShutdownClears, Occurrences
<1>2. ASSUME NEW d \in Devices
      PROVE  /\ refs'[d] \in Nat
             /\ refs'[d] >= Occurrences(arrived', d) + Cardinality(Takers(result', d))
  <2>1. /\ refs[d] >= Occurrences(arrived, d) + Cardinality(Takers(result, d))
        /\ Occurrences(arrived, d) \in Nat /\ Cardinality(Takers(result, d)) \in Nat
        /\ refs[d] \in Nat
    BY Held DEF RefsCover
  <2>2. Occurrences(arrived', d) = 0
    <3>1. {i \in DOMAIN arrived' : arrived'[i] = d} = {}
      BY <1>1
    <3>. QED
      BY <3>1, FS_EmptySet DEF Occurrences
  <2>3. Cardinality(Takers(result', d)) = Cardinality(Takers(result, d))
    BY <1>1
  <2>4. refs'[d] = refs[d] - Occurrences(arrived, d)
    BY <1>1
  <2>. QED
    BY <2>1, <2>2, <2>3, <2>4
<1>3. refs' \in [Devices -> Nat]
  BY <1>1, <1>2
<1>. QED
  BY <1>2, <1>3 DEF RefsFit

\* The reference of the caller's copy is given back with the result.
LEMMA ReturnRefs ==
    ASSUME TypeOK, RefsCover, NEW t \in Tasks, Return(t)
    PROVE  RefsFit
<1>1. UNCHANGED arrived /\ result' = [result EXCEPT ![t] = NoDevice]
  BY DEF Return
<1>2. ASSUME NEW d \in Devices
      PROVE  /\ refs'[d] \in Nat
             /\ refs'[d] >= Occurrences(arrived', d) + Cardinality(Takers(result', d))
  <2>1. /\ refs[d] >= Occurrences(arrived, d) + Cardinality(Takers(result, d))
        /\ Occurrences(arrived, d) \in Nat /\ Cardinality(Takers(result, d)) \in Nat
        /\ refs[d] \in Nat
    BY Held DEF RefsCover
  <2>2. NoDevice # d /\ Cardinality(Takers(result', d)) \in Nat
    BY NoDeviceAssumption, TakersCount
  <2>3. Cardinality(Takers(result', d)) <= Cardinality(Takers(result, d))
    <3>1. /\ result \in [Tasks -> Devices \cup {NoDevice}]
          /\ NoDevice \in Devices \cup {NoDevice}
      BY DEF TypeOK
    <3>2. Cardinality(Takers(result', d)) <= Cardinality(Takers(result, d))
                                               + (IF NoDevice = d THEN 1 ELSE 0)
      BY <1>1, <3>1, TakersChange
    <3>. QED
      BY <2>1, <2>2, <3>2
  <2>4. Occurrences(arrived', d) = Occurrences(arrived, d)
    BY <1>1
  <2>5. refs'[d] = refs[d] - (IF result[t] = d THEN 1 ELSE 0)
    BY <2>1, <2>2 DEF Return, Deliver, TypeOK
  <2>6. CASE result[t] = d
    <3>1. result'[t] # d /\ \A u \in Tasks \ {t} : result'[u] = result[u]
      BY <1>1, <2>2 DEF TypeOK
    <3>2. Cardinality(Takers(result', d)) = Cardinality(Takers(result, d)) - 1
      BY <2>6, <3>1, TakersLess
    <3>3. refs'[d] = refs[d] - 1
      BY <2>5, <2>6
    <3>. QED
      BY <2>1, <2>2, <2>4, <3>2, <3>3
  <2>7. CASE result[t] # d
    <3>1. refs'[d] = refs[d]
      BY <2>1, <2>5, <2>7
    <3>. QED
      BY <2>1, <2>2, <2>3, <2>4, <3>1
  <2>. QED
    BY <2>6, <2>7
<1>3. refs' \in [Devices -> Nat]
  <2>1. refs' \in [Devices -> Int]
    BY DEF Return, Deliver, TypeOK
  <2>. QED
    BY <1>2, <2>1
<1>. QED
  BY <1>2, <1>3 DEF RefsFit

\* Every step keeps the references that are needed.
LEMMA RefsStep ==
    ASSUME TypeOK, RefsCover, [Next]_vars
    PROVE  RefsFit
<1>1. ASSUME NEW d \in Devices, Plug(d) \/ Unplug(d) PROVE RefsFit
  BY <1>1, RefsKept DEF Plug, Unplug, Dispatch
<1>2. ASSUME NEW d \in Devices, Enumerate(d) PROVE RefsFit
  BY <1>2, ArrivedRefs DEF Enumerate
<1>3. CASE Callback
  BY <1>3, ArrivedRefs, LeftRefs, EventTyped DEF Callback
<1>4. CASE Bind \/ Listen \/ Close \/ ShutdownBegins
  BY <1>4, RefsKept DEF Bind, Listen, Close, ShutdownBegins
<1>5. CASE ShutdownFirst \/ ShutdownNext \/ ShutdownPosts
  BY <1>5, RefsKept DEF ShutdownFirst, ShutdownNext, Turn, ShutdownPosts
<1>6. CASE ShutdownClears
  BY <1>6, ClearedRefs
<1>7. ASSUME NEW t \in Tasks, AwaitReady(t) \/ AwaitSuspend(t) PROVE RefsFit
  BY <1>7, TakenRefs, RefsKept DEF AwaitReady, AwaitSuspend, Wait
<1>8. ASSUME NEW t \in Tasks, Return(t) PROVE RefsFit
  BY <1>8, ReturnRefs
<1>9. ASSUME NEW t \in Tasks,
             Accept(t) \/ AwaitStop(t) \/ Resume(t) \/ RequestStop(t) \/ StopFn(t)
      PROVE  RefsFit
  BY <1>9, RefsKept DEF Accept, AwaitStop, Resume, RequestStop, StopFn
<1>10. CASE UNCHANGED vars
  BY <1>10, RefsKept
<1>. QED
  BY <1>1, <1>2, <1>3, <1>4, <1>5, <1>6, <1>7, <1>8, <1>9, <1>10
     DEF Next, Accepting, ShuttingDown

-----------------------------------------------------------------------------
(* The invariant                                                           *)

\* The acceptor starts in it.
LEMMA InitInv ==
    ASSUME Init
    PROVE  IInv
<1>1. TypeOK
  BY EmptySeq DEF Init, TypeOK, TaskStates
<1>2. ListenInv
  BY DEF Init, ListenInv
<1>3. JoinInv /\ WalkInv
  BY DEF Init, JoinInv, WalkInv, Walked
<1>4. EntriesInv /\ NoneWaitsInVain
  BY DEF Init, EntriesInv, NoneWaitsInVain, Pending, IsInjective
<1>5. Served
  BY DEF Init, Served, PostedOnceAt, Pending
<1>6. RefsCover
  <2>. SUFFICES ASSUME NEW d \in Devices PROVE refs[d] >= HeldRefs(d)
    BY DEF RefsCover
  <2>1. {i \in DOMAIN arrived : arrived[i] = d} = {} /\ {t \in Tasks : result[t] = d} = {}
    BY NoDeviceAssumption DEF Init
  <2>2. Cardinality({i \in DOMAIN arrived : arrived[i] = d}) = 0
    BY <2>1, FS_EmptySet
  <2>3. Cardinality({t \in Tasks : result[t] = d}) = 0
    BY <2>1, FS_EmptySet
  <2>4. HeldRefs(d) = 0
    BY <2>2, <2>3 DEF HeldRefs
  <2>. QED
    BY <2>4 DEF Init
<1>. QED
  BY <1>1, <1>2, <1>3, <1>4, <1>5, <1>6 DEF IInv, WaitingInv

(***************************************************************************)
(* The callback, the two halves of accept(), the stop callback, close()    *)
(* and shutdown() keep the acceptor's lists and references in order, in    *)
(* whatever order they take m_mutex; and its coroutines, until one of them *)
(* changes m_resumptions between two turns of shutdown()'s loop.           *)
(***************************************************************************)
THEOREM AcceptorInv == SafeSpec => []IInv
<1>1. Init => IInv
  BY InitInv
<1>2. IInv /\ [Next]_vars => IInv'
  <2>. SUFFICES ASSUME IInv, [Next]_vars PROVE IInv'
    OBVIOUS
  <2>1. RefsFit
    BY RefsStep DEF IInv
  <2>2. TypeOK'
    BY <2>1, RefsFitCover, TypeStep DEF IInv
  <2>3. RefsCover'
    BY <2>1, RefsFitCover
  <2>4. ListenInv' /\ NoneWaitsInVain'
    BY <2>2, ListenStep, VainStep DEF IInv
  <2>5. ASSUME ~disturbed' PROVE WaitingInv'
    <3>1. WaitingInv
      BY <2>5, SteadyStep DEF IInv
    <3>2. WalkInv'
      BY <2>5, <3>1, WalkStep DEF IInv, WaitingInv
    <3>. QED
      BY <2>5, <3>1, <3>2, JoinStep, WaitingStep DEF IInv, WaitingInv
  <2>. QED
    BY <2>2, <2>3, <2>4, <2>5 DEF IInv
<1>. QED
  BY <1>1, <1>2, PTL DEF SafeSpec

(***************************************************************************)
(* No coroutine waits in m_resumptions while a device is in                *)
(* m_arrived_devices, though accept() looks at the list twice; and a       *)
(* suspended coroutine that no stop reaches is in m_resumptions exactly    *)
(* until the callback or shutdown() posts it, once, whatever comes between *)
(* the calls, unless m_resumptions changes between two turns of            *)
(* shutdown()'s loop.                                                      *)
(***************************************************************************)
THEOREM WaitersTheorem == SafeSpec => []WaitersAreServed
<1>1. IInv => WaitersAreServed
  BY DEF IInv, WaitingInv, WaitersAreServed, WaitsOrIsPosted
<1>. QED
  BY <1>1, AcceptorInv, PTL

\* RefsCover: device_ref's copies and moves, those of vector::erase among them,
\* never leave a list entry or a result without its reference.
THEOREM RefsCoverTheorem == SafeSpec => []RefsCover
BY AcceptorInv, PTL DEF IInv

-----------------------------------------------------------------------------
(* Stored devices are connected.  DEVICE_LEFT goes by triplets, so this is *)
(* so where they tell the devices apart: DistinctTriplets.                 *)

\* Steps that leave the stored devices alone.
LEMMA StoredKept ==
    ASSUME StoredInv,
           UNCHANGED <<arrived, connected, enum, event, filter, registered, leftover>>
    PROVE  StoredInv'
BY DEF StoredInv, StoredAreConnected

\* A list that loses an entry is as good as before, also when that was the entry
\* the callback was dispatched for.
LEMMA StoredDropped ==
    ASSUME StoredInv, UNCHANGED <<connected, enum, filter, registered, leftover>>,
           NEW i, Drops(Devices, arrived, i, arrived'),
           \/ UNCHANGED event
           \/ /\ event' = NoEvent
              /\ registered /\ ~leftover
                   => \A k \in DOMAIN arrived \ {i} : arrived[k] \in connected
    PROVE  StoredInv'
<1>1. /\ \A j \in DOMAIN arrived' : \E k \in DOMAIN arrived :
            arrived'[j] = arrived[k] /\ k # i
      /\ IsInjective(arrived) => IsInjective(arrived')
  BY DroppedEntries
<1>. SUFFICES ASSUME registered, ~leftover PROVE StoredInv'
  BY DEF StoredInv
<1>2. IsInjective(arrived') /\ \A j \in DOMAIN arrived' : arrived'[j] \notin enum
  BY <1>1 DEF StoredInv
<1>3. CASE UNCHANGED event
  BY <1>1, <1>2, <1>3 DEF StoredInv, StoredAreConnected
<1>4. CASE /\ event' = NoEvent
           /\ \A k \in DOMAIN arrived \ {i} : arrived[k] \in connected
  BY <1>1, <1>2, <1>4 DEF StoredInv, StoredAreConnected, NoEvent
<1>. QED
  BY <1>3, <1>4

\* A device that is stored was not in the list.
LEMMA StoredArrived ==
    ASSUME TypeOK, StoredInv, NEW d \in Devices, Arrived(d),
           UNCHANGED <<connected, filter, registered, leftover>>, enum' \subseteq enum,
           registered /\ ~leftover =>
              /\ d \in connected \ enum' /\ Matches(filter, Triplet[d])
              /\ \A i \in DOMAIN arrived : arrived[i] # d,
           \/ UNCHANGED event /\ (registered /\ ~leftover /\ event.kind = "arrived"
                                    => event.dev # d)
           \/ event.kind = "arrived" /\ event' = NoEvent
    PROVE  StoredInv'
<1>. SUFFICES ASSUME registered, ~leftover PROVE StoredInv'
  BY DEF StoredInv
<1>1. ASSUME NEW i \in DOMAIN arrived
      PROVE  /\ arrived[i] \in connected \/ event' = [kind |-> "left", dev |-> arrived[i]]
             /\ arrived[i] \notin enum' /\ Matches(filter, Triplet[arrived[i]])
  BY DEF StoredInv, StoredAreConnected
<1>2. /\ event'.kind = "arrived" =>
            /\ event'.dev \in connected \ enum' /\ Matches(filter, Triplet[event'.dev])
            /\ event'.dev # d
            /\ \A i \in DOMAIN arrived : arrived[i] # event'.dev
      /\ event'.kind = "left" => event'.dev \notin connected
  BY DEF StoredInv, NoEvent
<1>3. CASE UNCHANGED arrived
  BY <1>1, <1>2, <1>3 DEF StoredInv, StoredAreConnected
<1>4. CASE arrived' = Append(arrived, d)
  <2>. DEFINE n == Len(arrived) + 1
  <2>1. /\ Len(arrived) \in Nat /\ DOMAIN arrived = 1..Len(arrived) /\ DOMAIN arrived' = 1..n
        /\ \A i \in 1..Len(arrived) : arrived'[i] = arrived[i]
        /\ arrived'[n] = d
    BY <1>4, SeqTyped, AppendProperties DEF TypeOK
  <2>2. \A i \in DOMAIN arrived' : i \in DOMAIN arrived \/ i = n
    BY <2>1
  <2>3. \A i \in DOMAIN arrived : i \in DOMAIN arrived' /\ arrived'[i] = arrived[i]
    BY <2>1
  <2>. HIDE DEF n
  <2>4. IsInjective(arrived')
    BY <2>1, <2>2, <2>3 DEF StoredInv, IsInjective
  <2>5. ASSUME NEW i \in DOMAIN arrived'
        PROVE  /\ \/ arrived'[i] \in connected'
                  \/ event' = [kind |-> "left", dev |-> arrived'[i]]
               /\ arrived'[i] \notin enum' /\ Matches(filter', Triplet[arrived'[i]])
    <3>1. CASE i \in DOMAIN arrived
      BY <1>1, <2>3, <3>1
    <3>2. CASE i = n
      BY <2>1, <3>2
    <3>. QED
      BY <2>2, <3>1, <3>2
  <2>6. event'.kind = "arrived" => \A i \in DOMAIN arrived' : arrived'[i] # event'.dev
    BY <1>2, <2>1, <2>2, <2>3
  <2>. QED
    BY <1>2, <2>4, <2>5, <2>6 DEF StoredInv, StoredAreConnected
<1>. QED
  BY <1>3, <1>4, ArrivedLists

\* The callback for a device that was plugged stores it, if at all, once.
LEMMA StoredPlugged ==
    ASSUME TypeOK, StoredInv, NEW d \in Devices, Plug(d) \/ Unplug(d)
    PROVE  StoredInv'
<1>1. /\ UNCHANGED <<arrived, enum, filter, registered, leftover>> /\ event = NoEvent
      /\ enum \subseteq connected
  BY DEF Plug, Unplug, Dispatch, TypeOK
<1>. SUFFICES ASSUME registered, ~leftover PROVE StoredInv'
  BY <1>1 DEF StoredInv
<1>2. ASSUME NEW i \in DOMAIN arrived
      PROVE  /\ arrived[i] \in connected /\ arrived[i] \notin enum
             /\ Matches(filter, Triplet[arrived[i]])
  BY <1>1 DEF StoredInv, StoredAreConnected, NoEvent
<1>3. Watched(d) <=> Matches(filter, Triplet[d])
  BY DEF Watched
<1>4. CASE Plug(d)
  <2>1. d \notin connected /\ connected' = connected \cup {d}
    BY <1>4 DEF Plug
  <2>2. \/ Watched(d) /\ event' = [kind |-> "arrived", dev |-> d]
        \/ event' = NoEvent
    BY <1>4 DEF Plug, Dispatch
  <2>3. \A i \in DOMAIN arrived : arrived[i] \in connected' /\ arrived[i] # d
    BY <1>2, <2>1
  <2>4. /\ event'.kind = "arrived" =>
              event'.dev = d /\ d \in connected' \ enum /\ Matches(filter, Triplet[d])
        /\ event'.kind # "left"
    BY <1>1, <1>3, <2>1, <2>2 DEF NoEvent
  <2>. QED
    BY <1>1, <1>2, <2>3, <2>4 DEF StoredInv, StoredAreConnected
<1>5. CASE Unplug(d)
  <2>1. connected' = connected \ {d}
    BY <1>5 DEF Unplug
  <2>2. \/ Watched(d) /\ event' = [kind |-> "left", dev |-> d]
        \/ ~Watched(d) /\ event' = NoEvent
    BY <1>5 DEF Unplug, Dispatch
  <2>3. ASSUME NEW i \in DOMAIN arrived
        PROVE  arrived[i] \in connected' \/ event' = [kind |-> "left", dev |-> arrived[i]]
    BY <1>2, <1>3, <2>1, <2>2
  <2>4. event'.kind # "arrived" /\ (event'.kind = "left" => event'.dev \notin connected')
    BY <2>1, <2>2 DEF NoEvent
  <2>. QED
    BY <1>1, <1>2, <2>3, <2>4 DEF StoredInv, StoredAreConnected
<1>. QED
  BY <1>4, <1>5

\* A device that was unplugged takes its own entry with it.
LEMMA StoredLeft ==
    ASSUME DistinctTriplets, TypeOK, StoredInv, event.kind = "left", Left(event.dev),
           event' = NoEvent, UNCHANGED <<connected, enum, filter, registered, leftover>>
    PROVE  StoredInv'
<1>. SUFFICES ASSUME registered, ~leftover PROVE StoredInv'
  BY DEF StoredInv
<1>1. event.dev \in Devices
  BY EventTyped
<1>2. ASSUME NEW k \in DOMAIN arrived, arrived[k] # event.dev PROVE arrived[k] \in connected
  BY <1>2 DEF StoredInv, StoredAreConnected
<1>3. CASE /\ UNCHANGED arrived
           /\ \A i \in DOMAIN arrived : ~Matches(Triplet[arrived[i]], Triplet[event.dev])
  <2>1. \A i \in DOMAIN arrived : arrived[i] # event.dev
    BY <1>3 DEF Matches
  <2>2. event'.kind = "none"
    BY DEF NoEvent
  <2>. QED
    BY <1>2, <1>3, <2>1, <2>2 DEF StoredInv, StoredAreConnected
<1>4. ASSUME NEW i \in DOMAIN arrived, Matches(Triplet[arrived[i]], Triplet[event.dev]),
             Drops(Devices, arrived, i, arrived')
      PROVE  StoredInv'
  <2>1. arrived[i] = event.dev
    BY <1>1, <1>4, SeqTyped DEF DistinctTriplets, TypeOK
  <2>2. \A k \in DOMAIN arrived \ {i} : arrived[k] \in connected
    BY <1>2, <2>1 DEF StoredInv, IsInjective
  <2>. QED
    BY <1>4, <2>2, StoredDropped
<1>. QED
  BY <1>3, <1>4, LeftLists

\* Every step keeps to it.
LEMMA StoredStep ==
    ASSUME DistinctTriplets, TypeOK, ListenInv, StoredInv, [Next]_vars
    PROVE  StoredInv'
<1>1. ASSUME NEW d \in Devices, Plug(d) \/ Unplug(d) PROVE StoredInv'
  BY <1>1, StoredPlugged
<1>2. CASE Callback
  <2>1. event' = NoEvent /\ UNCHANGED <<connected, enum, filter, registered, leftover>>
    BY <1>2 DEF Callback
  <2>2. CASE event.kind = "arrived" /\ Arrived(event.dev)
    <3>1. registered /\ ~leftover =>
             /\ event.dev \in connected \ enum /\ Matches(filter, Triplet[event.dev])
             /\ \A i \in DOMAIN arrived : arrived[i] # event.dev
      BY <2>2 DEF StoredInv
    <3>2. event.dev \in Devices
      BY <2>2, EventTyped
    <3>. QED
      BY <2>1, <2>2, <3>1, <3>2, StoredArrived
  <2>3. CASE event.kind = "left" /\ Left(event.dev)
    BY <2>1, <2>3, StoredLeft
  <2>. QED
    BY <1>2, <2>2, <2>3 DEF Callback
<1>3. ASSUME NEW d \in Devices, Enumerate(d) PROVE StoredInv'
  <2>1. /\ UNCHANGED <<connected, event, filter, registered, leftover>>
        /\ enum' = enum \ {d} /\ Arrived(d) /\ d \in enum /\ d \in connected
    BY <1>3 DEF Enumerate, TypeOK
  <2>2. Matches(filter, Triplet[d])
    BY <2>1 DEF ListenInv
  <2>3. registered /\ ~leftover =>
           /\ \A i \in DOMAIN arrived : arrived[i] # d
           /\ event.kind = "arrived" => event.dev # d
    BY <2>1 DEF StoredInv
  <2>. QED
    BY <2>1, <2>2, <2>3, StoredArrived
<1>4. CASE Bind
  <2>1. ~registered'
    BY <1>4 DEF Bind, ListenInv
  <2>. QED
    BY <2>1 DEF StoredInv
<1>5. CASE Listen
  <2>1. ~leftover' => arrived' = <<>> /\ event' = NoEvent
    BY <1>5 DEF Listen
  <2>. QED
    BY <2>1 DEF StoredInv, StoredAreConnected, IsInjective, NoEvent
<1>6. CASE Close \/ ShutdownBegins
  BY <1>6 DEF Close, ShutdownBegins, StoredInv
<1>7. CASE ShuttingDown
  <2>1. ~registered'
    BY <1>7 DEF ShuttingDown, ShutdownFirst, ShutdownNext, Turn, ShutdownPosts,
       ShutdownClears, ListenInv
  <2>. QED
    BY <2>1 DEF StoredInv
<1>8. ASSUME NEW t \in Tasks, AwaitReady(t) \/ AwaitSuspend(t) PROVE StoredInv'
  <2>1. UNCHANGED <<connected, enum, event, filter, registered, leftover>>
    BY <1>8 DEF AwaitReady, AwaitSuspend
  <2>2. CASE TakeStored(t)
    <3>1. Drops(Devices, arrived, Len(arrived), arrived')
      BY <2>2, TakenLists
    <3>. QED
      BY <2>1, <3>1, StoredDropped
  <2>. QED
    BY <1>8, <2>1, <2>2, StoredKept DEF AwaitReady, AwaitSuspend, Wait
<1>9. ASSUME NEW t \in Tasks,
             \/ Accept(t) \/ AwaitStop(t) \/ Resume(t) \/ Return(t)
             \/ RequestStop(t) \/ StopFn(t)
      PROVE  StoredInv'
  BY <1>9, StoredKept DEF Accept, AwaitStop, Resume, Return, RequestStop, StopFn
<1>10. CASE UNCHANGED vars
  BY <1>10, StoredKept
<1>. QED
  BY <1>1, <1>2, <1>3, <1>4, <1>5, <1>6, <1>7, <1>8, <1>9, <1>10 DEF Next, Accepting

(***************************************************************************)
(* StoredAreConnected: where the triplets tell the devices apart, what     *)
(* accept() finds in m_arrived_devices is bound, and is plugged in or the  *)
(* callback is on its way to take it out, unless an earlier listen() left  *)
(* it.  Equal triplets do break it: DEVICE_LEFT then erases another's      *)
(* entry.                                                                  *)
(***************************************************************************)
THEOREM StoredAreConnectedTheorem ==
    ASSUME DistinctTriplets
    PROVE  SafeSpec => []StoredAreConnected
<1>1. Init => StoredInv
  BY DEF Init, StoredInv
<1>2. TypeOK /\ ListenInv /\ StoredInv /\ [Next]_vars => StoredInv'
  BY StoredStep
<1>3. StoredInv => StoredAreConnected
  BY DEF StoredInv, StoredAreConnected
<1>4. IInv => TypeOK /\ ListenInv
  BY DEF IInv
<1>. QED
  BY <1>1, <1>2, <1>3, <1>4, AcceptorInv, PTL DEF SafeSpec

-----------------------------------------------------------------------------
(* The acceptor implements Mailbox                                         *)

\* Coroutines inside accept(), and what is stored.
Inside == {t \in Tasks : task[t] # "idle"}
Stored == [d \in Devices |-> Occurrences(arrived, d)]

\* A coroutine has a device only from the step that posts or resumes it, and is
\* neither posted nor resumed without one unless it was cancelled.
GivenAt(t) ==
    /\ task[t] \in {"idle", "called", "unready", "joining"} => result[t] = NoDevice
    /\ t \in Waiting => result[t] = NoDevice
    /\ task[t] = "resumed" \/ (task[t] = "suspended" /\ posts[t] > 0)
         => result[t] # NoDevice \/ t \in cancelled

GivenInv == \A t \in Tasks : GivenAt(t)

\* A step of one coroutine leaves the others what they have.
LEMMA GivenOne ==
    ASSUME GivenInv, NEW t \in Tasks, GivenAt(t)',
           \A u \in Tasks \ {t} :
              /\ result'[u] = result[u] /\ task'[u] = task[u] /\ posts'[u] = posts[u]
              /\ u \in cancelled => u \in cancelled'
              /\ u \in Waiting' => u \in Waiting
    PROVE  GivenInv'
BY DEF GivenInv, GivenAt

\* A step that gives nothing and takes nothing away.
LEMMA GivenKept ==
    ASSUME GivenInv, UNCHANGED <<result, task, posts>>,
           cancelled \subseteq cancelled', Waiting' \subseteq Waiting
    PROVE  GivenInv'
BY DEF GivenInv, GivenAt

\* What holds of the coroutines before a step that does not disturb shutdown().
LEMMA Undisturbed ==
    ASSUME IInv, [Next]_vars, ~disturbed'
    PROVE  /\ ~disturbed /\ (Steady \/ ShutdownClears)
           /\ TypeOK /\ ListenInv /\ JoinInv /\ WalkInv /\ EntriesInv /\ Served
           /\ result \in [Tasks -> Devices \cup {NoDevice}]
           /\ task \in [Tasks -> TaskStates] /\ posts \in [Tasks -> Nat]
           /\ \A t \in Waiting : t \in Tasks /\ task[t] = "suspended" /\ posts[t] = 0
<1>1. ~disturbed /\ (Steady \/ ShutdownClears) /\ TypeOK /\ ListenInv
  BY SteadyStep DEF IInv
<1>2. JoinInv /\ WalkInv /\ EntriesInv /\ Served
  BY <1>1 DEF IInv, WaitingInv
<1>. QED
  BY <1>1, <1>2, WaitingTyped, WaitingCoroutines DEF TypeOK

\* The callback gives the device to one that waits.
LEMMA GivenArrived ==
    ASSUME TypeOK, EntriesInv, Steady, GivenInv, NEW d \in Devices, Arrived(d),
           UNCHANGED <<task, shutVars>>
    PROVE  GivenInv'
<1>1. /\ result \in [Tasks -> Devices \cup {NoDevice}] /\ posts \in [Tasks -> Nat]
  BY DEF TypeOK
<1>2. CASE resumptions # <<>>
  <2>1. PICK t \in Tasks :
           /\ task[t] = "suspended" /\ Waiting' = Waiting \ {t}
           /\ posts' = [posts EXCEPT ![t] = 1] /\ result' = [result EXCEPT ![t] = d]
           /\ UNCHANGED cancelled
    BY <1>2, WakeTakes
  <2>2. GivenAt(t)'
    BY <1>1, <2>1, NoDeviceAssumption DEF GivenAt
  <2>. QED
    BY <1>1, <2>1, <2>2, GivenOne
<1>3. CASE resumptions = <<>>
  BY <1>3, GivenKept DEF Arrived, Waiting, Pending
<1>. QED
  BY <1>2, <1>3

\* Every step keeps GivenInv.
LEMMA GivenStep ==
    ASSUME IInv, GivenInv, [Next]_vars, ~disturbed'
    PROVE  GivenInv'
<1>. USE DEF Enter
<1>1. /\ ~disturbed /\ (Steady \/ ShutdownClears)
      /\ TypeOK /\ ListenInv /\ JoinInv /\ WalkInv /\ EntriesInv /\ Served
      /\ result \in [Tasks -> Devices \cup {NoDevice}]
      /\ task \in [Tasks -> TaskStates] /\ posts \in [Tasks -> Nat]
      /\ \A t \in Waiting : t \in Tasks /\ task[t] = "suspended" /\ posts[t] = 0
  BY Undisturbed
<1>2. ASSUME NEW d \in Devices, Plug(d) \/ Unplug(d) PROVE GivenInv'
  BY <1>2, GivenKept DEF Plug, Unplug, Dispatch, Waiting, Pending
<1>3. ASSUME NEW d \in Devices, Enumerate(d) PROVE GivenInv'
  BY <1>1, <1>3, GivenArrived, EnumerateRuns DEF Enumerate, Steady
<1>4. CASE Callback
  <2>1. UNCHANGED <<task, shutVars>> /\ Steady
    BY <1>4 DEF Callback, Disturbs, Steady
  <2>2. ASSUME NEW d, Left(d) PROVE GivenInv'
    BY <2>1, <2>2, GivenKept DEF Left, Waiting, Pending
  <2>. QED
    BY <1>1, <1>4, <2>1, <2>2, GivenArrived, EventTyped DEF Callback
<1>5. CASE Bind \/ Listen \/ Close
  BY <1>5, GivenKept DEF Bind, Listen, Close, Waiting, Pending
<1>6. CASE ShutdownBegins
  BY <1>6, GivenKept DEF ShutdownBegins, Free, Waiting, Pending
<1>7. CASE ShutdownFirst \/ ShutdownNext
  BY <1>1, <1>7, TurnReads, TurnTakes, GivenKept
<1>8. CASE ShutdownPosts
  <2>1. /\ target \in Tasks /\ task[target] = "suspended"
        /\ Waiting' = Waiting \ {target} /\ posts' = [posts EXCEPT ![target] = 1]
    BY <1>1, <1>8, ShutdownPosted, ShutdownTakes
  <2>2. UNCHANGED <<result, task>> /\ cancelled' = cancelled \cup {target}
    BY <1>8 DEF ShutdownPosts
  <2>3. PICK t \in Tasks : t = target
    BY <2>1
  <2>4. GivenAt(t)'
    BY <1>1, <2>1, <2>2, <2>3 DEF GivenAt
  <2>. QED
    BY <1>1, <2>1, <2>2, <2>3, <2>4, GivenOne
<1>9. CASE ShutdownClears
  BY <1>1, <1>9, ClearedTakes, GivenKept DEF ShutdownClears
<1>10. ASSUME NEW t \in Tasks, Accept(t) PROVE GivenInv'
  <2>1. /\ task' = [task EXCEPT ![t] = "called"] /\ task[t] = "idle"
        /\ UNCHANGED <<result, cancelled, posts>> /\ Waiting' = Waiting
    BY <1>10 DEF Accept, Waiting, Pending
  <2>2. GivenAt(t)'
    BY <1>1, <2>1 DEF GivenInv, GivenAt
  <2>. QED
    BY <1>1, <2>1, <2>2, GivenOne
<1>11. ASSUME NEW t \in Tasks, TakeStored(t), AwaitReady(t) \/ AwaitSuspend(t) PROVE GivenInv'
  <2>1. /\ result' = [result EXCEPT ![t] = Last(arrived)] /\ Last(arrived) \in Devices
        /\ task' = [task EXCEPT ![t] = "resumed"] /\ UNCHANGED <<resumptions, cancelled>>
    BY <1>1, <1>11, TakenLists
  <2>2. UNCHANGED <<posts, shutVars>> /\ task[t] # "suspended"
    BY <1>11 DEF AwaitReady, AwaitSuspend
  <2>3. Waiting' = Waiting
    BY <2>1, <2>2 DEF Waiting, Pending
  <2>4. GivenAt(t)'
    BY <1>1, <2>1, <2>2, <2>3, NoDeviceAssumption DEF GivenAt
  <2>. QED
    BY <1>1, <2>1, <2>2, <2>3, <2>4, GivenOne
<1>12. ASSUME NEW t \in Tasks, (AwaitReady(t) /\ ~TakeStored(t)) \/ AwaitStop(t)
       PROVE  GivenInv'
  <2>1. /\ UNCHANGED <<result, posts, resumptions, shut, cursor>>
        /\ task[t] \in {"called", "unready"}
        /\ \/ task' = [task EXCEPT ![t] = "unready"] /\ UNCHANGED cancelled
           \/ task' = [task EXCEPT ![t] = "joining"] /\ UNCHANGED cancelled
           \/ task' = [task EXCEPT ![t] = "resumed"] /\ cancelled' = cancelled \cup {t}
    BY <1>12 DEF AwaitReady, AwaitStop
  <2>2. Waiting' = Waiting
    BY <2>1 DEF Waiting, Pending
  <2>3. result[t] = NoDevice /\ t \notin Waiting
    BY <1>1, <2>1 DEF GivenInv, GivenAt
  <2>4. GivenAt(t)'
    BY <1>1, <2>1, <2>2, <2>3 DEF GivenAt
  <2>. QED
    BY <1>1, <2>1, <2>2, <2>4, GivenOne
<1>13. ASSUME NEW t \in Tasks, AwaitSuspend(t), ~TakeStored(t) PROVE GivenInv'
  <2>1. Wait(t) /\ task[t] = "joining" /\ UNCHANGED <<posts, shutVars>> /\ Steady
    BY <1>13 DEF AwaitSuspend, Disturbs, Steady
  <2>2. Waiting' = Waiting \cup {t}
    BY <1>1, <2>1, WaitJoins
  <2>3. task' = [task EXCEPT ![t] = "suspended"] /\ UNCHANGED <<result, cancelled>>
    BY <2>1 DEF Wait
  <2>4. posts[t] = 0 /\ result[t] = NoDevice
    BY <1>1, <2>1 DEF JoinInv, GivenInv, GivenAt
  <2>5. GivenAt(t)'
    BY <1>1, <2>1, <2>3, <2>4 DEF GivenAt
  <2>. QED
    BY <1>1, <2>1, <2>2, <2>3, <2>5, GivenOne
<1>14. ASSUME NEW t \in Tasks, Resume(t) PROVE GivenInv'
  <2>1. /\ UNCHANGED <<result, cancelled>> /\ Waiting' = Waiting
        /\ task[t] = "suspended" /\ posts[t] > 0 /\ task' = [task EXCEPT ![t] = "resumed"]
        /\ posts' = [posts EXCEPT ![t] = @ - 1]
    BY <1>14 DEF Resume, Waiting, Pending
  <2>2. result[t] # NoDevice \/ t \in cancelled
    BY <2>1 DEF GivenInv, GivenAt
  <2>3. t \notin Waiting
    BY <1>1, <2>1
  <2>4. GivenAt(t)'
    BY <1>1, <2>1, <2>2, <2>3 DEF GivenAt
  <2>. QED
    BY <1>1, <2>1, <2>4, GivenOne
<1>15. ASSUME NEW t \in Tasks, Return(t) PROVE GivenInv'
  <2>1. /\ result' = [result EXCEPT ![t] = NoDevice] /\ task' = [task EXCEPT ![t] = "idle"]
        /\ cancelled' = cancelled \ {t} /\ UNCHANGED posts /\ Waiting' = Waiting
    BY <1>15 DEF Return, Waiting, Pending
  <2>2. GivenAt(t)'
    BY <1>1, <2>1 DEF GivenAt
  <2>. QED
    BY <1>1, <2>1, <2>2, GivenOne
<1>16. ASSUME NEW t \in Tasks, Accepting(t) PROVE GivenInv'
  <2>1. CASE AwaitReady(t) \/ AwaitStop(t)
    BY <1>11, <1>12, <2>1
  <2>2. CASE AwaitSuspend(t)
    BY <1>11, <1>13, <2>2
  <2>3. CASE Resume(t) \/ Return(t)
    BY <1>14, <1>15, <2>3
  <2>. QED
    BY <1>16, <2>1, <2>2, <2>3 DEF Accepting
<1>17. ASSUME NEW t \in Tasks, RequestStop(t) PROVE GivenInv'
  BY <1>17, GivenKept DEF RequestStop, Waiting, Pending
<1>18. ASSUME NEW t \in Tasks, StopFn(t) PROVE GivenInv'
  <2>1. UNCHANGED <<result, task, shutVars>> /\ Steady
    BY <1>18 DEF StopFn, Disturbs, Steady
  <2>2. CASE UNCHANGED <<cancelled, posts, resumptions>>
    BY <2>1, <2>2, GivenKept DEF Waiting, Pending
  <2>3. CASE Cancel(t)
    <3>1. /\ posts' = [posts EXCEPT ![t] = @ + 1] /\ cancelled' = cancelled \cup {t}
          /\ Waiting' = Waiting \ {t}
      BY <1>1, <2>1, <2>3, CancelLists, StopFnTakes
    <3>2. GivenAt(t)'
      BY <2>1, <3>1 DEF GivenInv, GivenAt
    <3>. QED
      BY <1>1, <2>1, <3>1, <3>2, GivenOne
  <2>. QED
    BY <1>18, <2>2, <2>3 DEF StopFn
<1>19. CASE UNCHANGED vars
  BY <1>19, GivenKept DEF Waiting, Pending
<1>. QED
  BY <1>2, <1>3, <1>4, <1>5, <1>6, <1>7, <1>8, <1>9, <1>10, <1>16, <1>17, <1>18, <1>19
     DEF Next, ShuttingDown

\* The actions of Mailbox in the terms of the acceptor.
LEMMA ExchangeActions ==
    /\ \A d \in Devices :
         /\ Exchange!Put(d) <=>
              /\ Waiting = {} /\ Stored' = [Stored EXCEPT ![d] = @ + 1]
              /\ UNCHANGED <<Inside, Waiting, result, cancelled>>
         /\ Exchange!Withdraw(d) <=>
              /\ Stored[d] > 0 /\ Stored' = [Stored EXCEPT ![d] = @ - 1]
              /\ UNCHANGED <<Inside, Waiting, result, cancelled>>
    /\ \A d \in Devices, t \in Tasks :
         /\ Exchange!Hand(d, t) <=>
              /\ t \in Waiting /\ result[t] = NoDevice
              /\ result' = [result EXCEPT ![t] = d] /\ Waiting' = Waiting \ {t}
              /\ UNCHANGED <<Stored, Inside, cancelled>>
         /\ Exchange!Take(d, t) <=>
              /\ t \in Inside \ Waiting /\ result[t] = NoDevice /\ Stored[d] > 0
              /\ Stored' = [Stored EXCEPT ![d] = @ - 1]
              /\ result' = [result EXCEPT ![t] = d]
              /\ UNCHANGED <<Inside, Waiting, cancelled>>
    /\ \A t \in Tasks :
         /\ Exchange!Ask(t) <=>
              /\ t \notin Inside /\ Inside' = Inside \cup {t}
              /\ UNCHANGED <<Stored, Waiting, result, cancelled>>
         /\ Exchange!Wait(t) <=>
              /\ t \in Inside \ Waiting /\ result[t] = NoDevice
              /\ Stored = [d \in Devices |-> 0] /\ Waiting' = Waiting \cup {t}
              /\ UNCHANGED <<Stored, Inside, result, cancelled>>
         /\ Exchange!Leave(t) <=>
              /\ t \in Inside \ Waiting /\ (result[t] # NoDevice \/ t \in cancelled)
              /\ Inside' = Inside \ {t} /\ result' = [result EXCEPT ![t] = NoDevice]
              /\ cancelled' = cancelled \ {t}
              /\ UNCHANGED <<Stored, Waiting>>
    /\ \A E, W : Exchange!GiveUp(E, W) <=>
         /\ cancelled' = cancelled \cup E /\ W \subseteq cancelled' /\ Waiting' = Waiting \ W
         /\ UNCHANGED <<Stored, Inside, result>>
    /\ Exchange!Clear <=>
         /\ Stored' = [d \in Devices |-> 0]
         /\ UNCHANGED <<Inside, Waiting, result, cancelled>>
<1>. USE DEF Stored, Occurrences, Inside, Waiting
<1>. QED
  BY DEF Exchange!Put, Exchange!Withdraw, Exchange!Hand, Exchange!Take, Exchange!Ask,
     Exchange!Wait, Exchange!Leave, Exchange!GiveUp, Exchange!Clear, Exchange!Empty

\* What is stored, as the list changes.
LEMMA StoredCount ==
    /\ \A d \in Devices : arrived \in Seq(Devices) => Stored[d] \in Nat
    /\ \A a : a = <<>> => [d \in Devices |-> Occurrences(a, d)] = [d \in Devices |-> 0]
<1>1. ASSUME NEW a, a = <<>>, NEW d PROVE Occurrences(a, d) = 0
  <2>1. {i \in DOMAIN a : a[i] = d} = {}
    BY <1>1
  <2>. QED
    BY <2>1, FS_EmptySet DEF Occurrences
<1>. QED
  BY <1>1, Counted DEF Stored

\* A stored device is one more.
LEMMA StoredMore ==
    ASSUME TypeOK, NEW d \in Devices, arrived' = Append(arrived, d)
    PROVE  Stored' = [Stored EXCEPT ![d] = @ + 1]
<1>1. arrived \in Seq(Devices)
  BY DEF TypeOK
<1>2. ASSUME NEW e \in Devices
      PROVE  Occurrences(arrived', e) = IF e = d THEN Stored[e] + 1 ELSE Stored[e]
  <2>1. Occurrences(arrived', e) = Occurrences(arrived, e) + (IF d = e THEN 1 ELSE 0)
    BY <1>1, AppendedCount
  <2>2. Occurrences(arrived, e) = Stored[e] /\ Stored[e] \in Nat
    BY <1>1, StoredCount DEF Stored
  <2>. QED
    BY <2>1, <2>2
<1>3. Stored' = [e \in Devices |-> Occurrences(arrived', e)]
  BY DEF Stored
<1>. QED
  BY <1>2, <1>3 DEF Stored

\* One that is erased or taken is one less.
LEMMA StoredLess ==
    ASSUME TypeOK, NEW i, Drops(Devices, arrived, i, arrived')
    PROVE  /\ arrived[i] \in Devices /\ Stored[arrived[i]] > 0
           /\ Stored' = [Stored EXCEPT ![arrived[i]] = @ - 1]
<1>. DEFINE d == arrived[i]
<1>1. d \in Devices
  BY SeqTyped DEF Drops
<1>2. ASSUME NEW e \in Devices
      PROVE  /\ Occurrences(arrived', e) = IF e = d THEN Stored[e] - 1 ELSE Stored[e]
             /\ e = d => Stored[e] > 0
  <2>1. Occurrences(arrived, e) = Occurrences(arrived', e) + (IF d = e THEN 1 ELSE 0)
    BY DroppedCount
  <2>2. Occurrences(arrived, e) = Stored[e] /\ Stored[e] \in Nat
    BY StoredCount DEF Stored, TypeOK
  <2>3. Occurrences(arrived', e) \in Nat
    BY Counted DEF Drops
  <2>. HIDE DEF d
  <2>. QED
    BY <2>1, <2>2, <2>3
<1>3. Stored' = [e \in Devices |-> Occurrences(arrived', e)]
  BY DEF Stored
<1>. HIDE DEF d
<1>4. Stored' = [Stored EXCEPT ![d] = @ - 1] /\ Stored[d] > 0
  BY <1>1, <1>2, <1>3 DEF Stored
<1>. QED
  BY <1>1, <1>4 DEF d

\* What is seen of the acceptor.
Seen == <<Stored, Inside, Waiting, result, cancelled>>

\* It depends on these variables.
LEMMA SeenOf ==
    /\ UNCHANGED arrived => UNCHANGED Stored
    /\ UNCHANGED task => UNCHANGED Inside
    /\ UNCHANGED <<resumptions, shut, cursor>> => UNCHANGED Waiting
BY DEF Stored, Inside, Waiting, Pending

\* A device that arrives is put or handed over.
LEMMA ArrivalRefines ==
    ASSUME TypeOK, EntriesInv, Steady, GivenInv, NEW d \in Devices, Arrived(d),
           UNCHANGED <<task, shutVars>>
    PROVE  Exchange!Exchanges
<1>1. UNCHANGED Inside
  BY SeenOf
<1>2. CASE resumptions = <<>>
  <2>1. Waiting = {} /\ UNCHANGED <<Waiting, result, cancelled>>
    BY <1>2, SeenOf DEF Arrived, Waiting, Pending
  <2>2. Stored' = [Stored EXCEPT ![d] = @ + 1]
    BY <1>2, StoredMore DEF Arrived
  <2>3. Exchange!Put(d)
    BY <1>1, <2>1, <2>2, ExchangeActions
  <2>. QED
    BY <2>3 DEF Exchange!Exchanges
<1>3. CASE resumptions # <<>>
  <2>1. PICK t \in Tasks :
           /\ t \in Waiting /\ Waiting' = Waiting \ {t}
           /\ result' = [result EXCEPT ![t] = d] /\ UNCHANGED <<arrived, cancelled>>
    BY <1>3, WakeTakes
  <2>2. UNCHANGED Stored /\ result[t] = NoDevice
    BY <2>1, SeenOf DEF GivenInv, GivenAt
  <2>3. Exchange!Hand(d, t)
    BY <1>1, <2>1, <2>2, ExchangeActions
  <2>. QED
    BY <2>3 DEF Exchange!Exchanges
<1>. QED
  BY <1>2, <1>3

\* A device that leaves is withdrawn if it was stored.
LEMMA DepartureRefines ==
    ASSUME TypeOK, NEW d, Left(d), UNCHANGED <<task, shutVars>>
    PROVE  Exchange!Exchanges \/ UNCHANGED Seen
<1>1. UNCHANGED <<Inside, Waiting, result, cancelled>>
  BY SeenOf DEF Left
<1>2. CASE UNCHANGED arrived
  BY <1>1, <1>2, SeenOf DEF Seen
<1>3. ASSUME NEW i, Drops(Devices, arrived, i, arrived') PROVE Exchange!Exchanges
  <2>1. PICK e \in Devices : Stored[e] > 0 /\ Stored' = [Stored EXCEPT ![e] = @ - 1]
    BY <1>3, StoredLess
  <2>2. Exchange!Withdraw(e)
    BY <1>1, <2>1, ExchangeActions
  <2>. QED
    BY <2>2 DEF Exchange!Exchanges
<1>. QED
  BY <1>2, <1>3, LeftLists

\* A coroutine asks for a device, takes a stored one, waits or leaves.
LEMMA AcceptRefines ==
    ASSUME IInv, GivenInv, ~disturbed', [Next]_vars, NEW t \in Tasks,
           Accept(t) \/ Accepting(t)
    PROVE  Exchange!Exchanges \/ UNCHANGED Seen
<1>. USE DEF Enter
<1>1. /\ TypeOK /\ EntriesInv /\ task \in [Tasks -> TaskStates]
      /\ result \in [Tasks -> Devices \cup {NoDevice}]
      /\ t \in Waiting => task[t] = "suspended" /\ posts[t] = 0
  BY Undisturbed
<1>2. CASE Accept(t)
  <2>1. /\ task[t] = "idle" /\ task' = [task EXCEPT ![t] = "called"]
        /\ UNCHANGED <<listVars, opVars, shutVars>>
    BY <1>2 DEF Accept
  <2>2. t \notin Inside /\ Inside' = Inside \cup {t}
    BY <1>1, <2>1 DEF Inside
  <2>3. UNCHANGED <<Stored, Waiting>>
    BY <2>1, SeenOf
  <2>4. Exchange!Ask(t)
    BY <2>1, <2>2, <2>3, ExchangeActions
  <2>. QED
    BY <2>4 DEF Exchange!Exchanges
<1>3. CASE TakeStored(t) /\ (AwaitReady(t) \/ AwaitSuspend(t))
  <2>1. /\ task[t] \in {"called", "joining"} /\ task' = [task EXCEPT ![t] = "resumed"]
        /\ UNCHANGED <<resumptions, cancelled, shut, cursor>>
        /\ Drops(Devices, arrived, Len(arrived), arrived')
        /\ result' = [result EXCEPT ![t] = arrived[Len(arrived)]]
    BY <1>1, <1>3, TakenLists DEF AwaitReady, AwaitSuspend
  <2>2. PICK d \in Devices :
           /\ d = arrived[Len(arrived)] /\ Stored[d] > 0
           /\ Stored' = [Stored EXCEPT ![d] = @ - 1]
    BY <1>1, <2>1, StoredLess
  <2>3. t \in Inside \ Waiting /\ result[t] = NoDevice
    BY <1>1, <2>1 DEF Inside, GivenInv, GivenAt
  <2>4. UNCHANGED <<Inside, Waiting>>
    BY <1>1, <2>1, SeenOf DEF Inside
  <2>5. Exchange!Take(d, t)
    BY <2>1, <2>2, <2>3, <2>4, ExchangeActions
  <2>. QED
    BY <2>5 DEF Exchange!Exchanges
<1>4. CASE AwaitReady(t) /\ ~TakeStored(t)
  <2>1. /\ task[t] = "called" /\ task' = [task EXCEPT ![t] = "unready"]
        /\ UNCHANGED <<listVars, opVars, shutVars>>
    BY <1>4 DEF AwaitReady
  <2>2. UNCHANGED Inside
    BY <1>1, <2>1 DEF Inside
  <2>. QED
    BY <2>1, <2>2, SeenOf DEF Seen
<1>5. CASE AwaitStop(t)
  <2>1. /\ task[t] = "unready" /\ UNCHANGED <<listVars, result, shutVars>>
        /\ \/ task' = [task EXCEPT ![t] = "resumed"] /\ cancelled' = cancelled \cup {t}
           \/ task' = [task EXCEPT ![t] = "joining"] /\ cancelled' = cancelled
    BY <1>5 DEF AwaitStop
  <2>2. UNCHANGED <<Stored, Inside, Waiting, result>>
    BY <1>1, <2>1, SeenOf DEF Inside
  <2>3. CASE cancelled' = cancelled
    BY <2>2, <2>3 DEF Seen
  <2>4. CASE cancelled' = cancelled \cup {t}
    <3>1. Exchange!GiveUp({t}, {})
      BY <2>2, <2>4, ExchangeActions
    <3>. QED
      BY <3>1 DEF Exchange!Exchanges
  <2>. QED
    BY <2>1, <2>3, <2>4
<1>6. CASE AwaitSuspend(t) /\ ~TakeStored(t)
  <2>1. Wait(t) /\ task[t] = "joining" /\ UNCHANGED shutVars /\ Steady
    BY <1>6 DEF AwaitSuspend, Disturbs, Steady
  <2>2. /\ arrived = <<>> /\ task' = [task EXCEPT ![t] = "suspended"]
        /\ UNCHANGED <<arrived, result, cancelled>>
    BY <2>1 DEF Wait
  <2>3. t \in Inside \ Waiting /\ result[t] = NoDevice /\ UNCHANGED Inside
    BY <1>1, <2>1, <2>2 DEF Inside, GivenInv, GivenAt
  <2>4. Stored = [d \in Devices |-> 0] /\ UNCHANGED Stored
    BY <2>2, StoredCount, SeenOf DEF Stored
  <2>5. Waiting' = Waiting \cup {t}
    BY <1>1, <2>1, WaitJoins
  <2>6. Exchange!Wait(t)
    BY <2>2, <2>3, <2>4, <2>5, ExchangeActions
  <2>. QED
    BY <2>6 DEF Exchange!Exchanges
<1>7. CASE Resume(t)
  <2>1. UNCHANGED Inside
    BY <1>1, <1>7 DEF Resume, Inside
  <2>. QED
    BY <1>7, <2>1, SeenOf DEF Seen, Resume
<1>8. CASE Return(t)
  <2>1. /\ task[t] = "resumed" /\ task' = [task EXCEPT ![t] = "idle"]
        /\ result' = [result EXCEPT ![t] = NoDevice] /\ cancelled' = cancelled \ {t}
        /\ UNCHANGED <<listVars, shutVars>>
    BY <1>8 DEF Return
  <2>2. t \in Inside \ Waiting /\ Inside' = Inside \ {t}
    BY <1>1, <2>1 DEF Inside
  <2>3. result[t] # NoDevice \/ t \in cancelled
    BY <2>1 DEF GivenInv, GivenAt
  <2>4. UNCHANGED <<Stored, Waiting>>
    BY <2>1, SeenOf
  <2>5. Exchange!Leave(t)
    BY <2>1, <2>2, <2>3, <2>4, ExchangeActions
  <2>. QED
    BY <2>5 DEF Exchange!Exchanges
<1>9. CASE Accepting(t)
  BY <1>3, <1>4, <1>5, <1>6, <1>7, <1>8, <1>9 DEF Accepting
<1>. QED
  BY <1>2, <1>9

\* shutdown() excuses those it posts, and clears the lists when none is left.
LEMMA ShutdownRefines ==
    ASSUME IInv, ~disturbed', [Next]_vars, ShutdownBegins \/ ShuttingDown
    PROVE  Exchange!Exchanges \/ UNCHANGED Seen
<1>1. TypeOK /\ ~disturbed /\ WalkInv /\ EntriesInv
  BY Undisturbed
<1>2. CASE ShutdownBegins
  <2>1. UNCHANGED Waiting
    BY <1>2 DEF ShutdownBegins, Free, Waiting, Pending
  <2>. QED
    BY <1>2, <2>1, SeenOf DEF ShutdownBegins, Seen
<1>3. CASE ShutdownFirst \/ ShutdownNext
  BY <1>1, <1>3, TurnReads, TurnTakes, SeenOf DEF Seen
<1>4. CASE ShutdownPosts
  <2>1. target \in Tasks /\ target \in Waiting /\ Waiting' = Waiting \ {target}
    BY <1>1, <1>4, ShutdownPosted, ShutdownTakes
  <2>2. PICK t \in Tasks : t = target
    BY <2>1
  <2>3. UNCHANGED <<arrived, task, result>> /\ cancelled' = cancelled \cup {t}
    BY <1>4, <2>2 DEF ShutdownPosts
  <2>4. Exchange!GiveUp({t}, {t})
    BY <2>1, <2>2, <2>3, SeenOf, ExchangeActions
  <2>5. {t} \in SUBSET Waiting /\ {t} \in SUBSET Tasks
    BY <2>1, <2>2
  <2>. QED
    BY <2>4, <2>5 DEF Exchange!Exchanges, Waiting
<1>5. CASE ShutdownClears
  <2>1. arrived' = <<>> /\ UNCHANGED <<task, opVars>>
    BY <1>5 DEF ShutdownClears
  <2>2. UNCHANGED Waiting
    BY <1>1, <1>5, ClearedTakes
  <2>3. Stored' = [d \in Devices |-> 0]
    BY <2>1, StoredCount DEF Stored
  <2>4. Exchange!Clear
    BY <2>1, <2>2, <2>3, SeenOf, ExchangeActions
  <2>. QED
    BY <2>4 DEF Exchange!Exchanges
<1>. QED
  BY <1>2, <1>3, <1>4, <1>5 DEF ShuttingDown

\* The stop callback excuses its coroutine, which waits no longer.
LEMMA StopRefines ==
    ASSUME IInv, ~disturbed', [Next]_vars, NEW t \in Tasks, StopFn(t)
    PROVE  Exchange!Exchanges \/ UNCHANGED Seen
<1>1. /\ TypeOK /\ EntriesInv /\ Steady /\ UNCHANGED shutVars
      /\ UNCHANGED <<Stored, Inside, result>>
  BY Undisturbed, SeenOf DEF StopFn, Disturbs, Steady
<1>2. CASE UNCHANGED <<cancelled, resumptions>>
  BY <1>1, <1>2, SeenOf DEF Seen
<1>3. CASE Cancel(t)
  <2>1. cancelled' = cancelled \cup {t} /\ Waiting' = Waiting \ {t}
    BY <1>1, <1>3, CancelLists, StopFnTakes
  <2>2. PICK W : W = Waiting \cap {t}
    OBVIOUS
  <2>3. Exchange!GiveUp({t}, W)
    <3>1. W \subseteq cancelled' /\ Waiting' = Waiting \ W
      BY <2>1, <2>2
    <3>. QED
      BY <1>1, <2>1, <3>1, ExchangeActions
  <2>4. {t} \in SUBSET Tasks /\ W \in SUBSET Waiting
    BY <2>2
  <2>. QED
    BY <2>3, <2>4 DEF Exchange!Exchanges, Waiting
<1>. QED
  BY <1>2, <1>3 DEF StopFn

\* Every step is one of Mailbox, is not seen, or ends the promise.
LEMMA ExchangeStep ==
    ASSUME IInv, ~disturbed => GivenInv, [Next]_vars
    PROVE  [Exchange!Next]_Exchange!mailvars
<1>1. CASE disturbed'
  BY <1>1 DEF Exchange!Next
<1>2. CASE ~disturbed'
  <2>1. ~disturbed /\ TypeOK /\ ListenInv /\ EntriesInv /\ GivenInv
    BY <1>2, Undisturbed
  <2>2. ASSUME \/ Bind \/ Listen \/ Close \/ UNCHANGED vars
               \/ \E t \in Tasks : RequestStop(t)
               \/ \E d \in Devices : Plug(d) \/ Unplug(d)
        PROVE  UNCHANGED Seen
    BY <2>2, SeenOf DEF Bind, Listen, Close, RequestStop, Plug, Unplug, Dispatch, Seen
  <2>3. ASSUME NEW d \in Devices, Enumerate(d) PROVE Exchange!Exchanges
    BY <2>1, <2>3, ArrivalRefines, EnumerateRuns DEF Enumerate, Steady
  <2>4. ASSUME Callback PROVE Exchange!Exchanges \/ UNCHANGED Seen
    <3>1. UNCHANGED <<task, shutVars>> /\ Steady
      BY <1>2, <2>4 DEF Callback, Disturbs, Steady
    <3>. QED
      BY <2>1, <2>4, <3>1, ArrivalRefines, DepartureRefines, EventTyped DEF Callback
  <2>5. ASSUME NEW t \in Tasks, Accept(t) \/ Accepting(t) \/ StopFn(t)
        PROVE  Exchange!Exchanges \/ UNCHANGED Seen
    BY <1>2, <2>1, <2>5, AcceptRefines, StopRefines
  <2>6. Exchange!Exchanges \/ UNCHANGED Seen
    BY <1>2, <2>2, <2>3, <2>4, <2>5, ShutdownRefines DEF Next
  <2>7. UNCHANGED Seen => UNCHANGED Exchange!mailvars
    BY <1>2, <2>1 DEF Seen, Exchange!mailvars, Stored, Occurrences, Inside, Waiting
  <2>. QED
    BY <1>2, <2>1, <2>6, <2>7 DEF Exchange!Next
<1>. QED
  BY <1>1, <1>2

\* Nothing is stored and nobody is inside.
LEMMA ExchangeInit == Init => Exchange!Init /\ GivenInv
<1>. SUFFICES ASSUME Init PROVE Exchange!Init /\ GivenInv
  OBVIOUS
<1>1. Stored = [d \in Devices |-> 0]
  BY StoredCount DEF Init, Stored
<1>2. Inside = {} /\ Waiting = {}
  BY DEF Init, Inside, Waiting, Pending
<1>3. Exchange!Init
  BY <1>1, <1>2 DEF Init, Exchange!Init, Exchange!Empty, Stored, Occurrences, Inside, Waiting
<1>4. GivenInv
  BY <1>2 DEF Init, GivenInv, GivenAt
<1>. QED
  BY <1>3, <1>4

(***************************************************************************)
(* Seen from the coroutines, the callback, accept(), its stop callback and *)
(* shutdown() are the abstract exchange, until m_resumptions changes       *)
(* between two turns of shutdown()'s loop: an arrival goes to one          *)
(* coroutine or to the store, to the store only while none waits, and an   *)
(* accept() returns one device, or none after a stop or a shutdown.        *)
(***************************************************************************)
THEOREM AcceptorIsMailbox == SafeSpec => ImplementsMailbox
<1>. DEFINE Given == ~disturbed => GivenInv
<1>1. Init => Exchange!Init /\ Given
  BY ExchangeInit
<1>2. IInv /\ Given /\ [Next]_vars => Given' /\ [Exchange!Next]_Exchange!mailvars
  <2>. SUFFICES ASSUME IInv, Given, [Next]_vars
                PROVE  Given' /\ [Exchange!Next]_Exchange!mailvars
    OBVIOUS
  <2>1. ASSUME ~disturbed' PROVE GivenInv'
    <3>1. ~disturbed
      BY <2>1, Undisturbed
    <3>. QED
      BY <2>1, <3>1, GivenStep
  <2>. QED
    BY <2>1, ExchangeStep
<1>. HIDE DEF Given
<1>. QED
  BY <1>1, <1>2, AcceptorInv, PTL DEF SafeSpec, ImplementsMailbox, Exchange!Spec
=============================================================================
