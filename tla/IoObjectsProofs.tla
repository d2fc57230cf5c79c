--------------------------- MODULE IoObjectsProofs ---------------------------
(***************************************************************************)
(* Event handler objects and the I/O adapters that refer to them, for any  *)
(* number of owners, references, blocks, adapters and sequences.           *)
(***************************************************************************)
EXTENDS IoObjects, FiniteSetTheorems, TLAPS

\* A block that no owner has is as the handler before it left it.
FreeInv == \A b \in Blocks : (\A a \in Owners : Storage(a) # b) =>
                                count[b] = 0 /\ adrift[b] = 0

HandlersInv == HandlersTypeOK /\ StorageOwned /\ FreeInv /\ CountExact

-----------------------------------------------------------------------------
(* Counting the references to an owner                                     *)

UsersIn(f, c) == {q \in Refs : f[q] = c}

\* What a reference to x adds to the users of c.
One(x, c) == IF x = c THEN 1 ELSE 0

\* A reference that changes moves one from what it pointed to.
LEMMA UsersMoved ==
    ASSUME NEW f \in [Refs -> Owners \cup {None}], NEW r \in Refs,
           NEW x \in Owners \cup {None}, NEW c \in Owners
    PROVE  Cardinality(UsersIn([f EXCEPT ![r] = x], c)) =
               Cardinality(UsersIn(f, c)) - One(f[r], c) + One(x, c)
<1>. DEFINE g == [f EXCEPT ![r] = x]
            others == UsersIn(f, c) \ {r}
<1>1. IsFiniteSet(others) /\ IsFiniteSet(UsersIn(f, c))
  BY RefsAssumption, FS_Subset DEF UsersIn
<1>2. Cardinality(others) \in Nat
  BY <1>1, FS_CardinalityType
<1>3. Cardinality(UsersIn(f, c)) = Cardinality(others) + One(f[r], c)
  <2>1. CASE f[r] = c
    <3>1. UsersIn(f, c) = others \cup {r} /\ r \notin others
      BY <2>1 DEF UsersIn
    <3>. QED
      BY <1>1, <2>1, <3>1, FS_AddElement DEF One
  <2>2. CASE f[r] # c
    <3>1. UsersIn(f, c) = others
      BY <2>2 DEF UsersIn
    <3>2. One(f[r], c) = 0
      BY <2>2 DEF One
    <3>. HIDE DEF others
    <3>. QED
      BY <1>2, <3>1, <3>2
  <2>. QED
    BY <2>1, <2>2
<1>4. Cardinality(UsersIn(g, c)) = Cardinality(others) + One(x, c)
  <2>1. CASE x = c
    <3>1. UsersIn(g, c) = others \cup {r} /\ r \notin others
      BY <2>1 DEF UsersIn
    <3>. QED
      BY <1>1, <2>1, <3>1, FS_AddElement DEF One
  <2>2. CASE x # c
    <3>1. UsersIn(g, c) = others
      BY <2>2 DEF UsersIn
    <3>. HIDE DEF g, others
    <3>. QED
      BY <1>2, <2>2, <3>1 DEF One
  <2>. QED
    BY <2>1, <2>2
<1>. QED
  BY <1>2, <1>3, <1>4 DEF One

\* A count that is changed is still a number.
LEMMA CountedType ==
    ASSUME NEW a, NEW f \in [Blocks -> Int], NEW d \in Int
    PROVE  Counted(f, a, d) \in [Blocks -> Int]
<1>1. CASE Storage(a) \in Blocks
  <2>1. f[Storage(a)] + d \in Int
    BY <1>1
  <2>. QED
    BY <2>1 DEF Counted
<1>2. CASE Storage(a) \notin Blocks
  BY <1>2 DEF Counted
<1>. QED
  BY <1>1, <1>2

\* Counted() changes the count of one owner's handler, and of no other.
LEMMA CountedAt ==
    ASSUME HandlersInv, NEW a \in Owners \cup {None}, NEW c \in Owners, Storage(c) # None,
           NEW f \in [Blocks -> Int], NEW d \in Int
    PROVE  Counted(f, a, d)[Storage(c)] = f[Storage(c)] + (IF a = c THEN d ELSE 0)
<1>1. Storage(c) \in Blocks
  BY DEF HandlersInv, HandlersTypeOK, Owned, Storage
<1>2. a \in Owners /\ Storage(a) # None /\ a # c => Storage(a) # Storage(c)
  BY DEF HandlersInv, StorageOwned
<1>3. a \in Owners => Storage(a) \in Blocks \cup {None}
  BY DEF HandlersInv, HandlersTypeOK, Owned, Storage
<1>. QED
  BY <1>1, <1>2, <1>3, NoneAssumption DEF Counted

\* And never that of a block which is free.
LEMMA CountedFree ==
    ASSUME HandlersInv, NEW a \in Owners \cup {None}, NEW b \in Blocks,
           \A c \in Owners : Storage(c) # b,
           NEW f \in [Blocks -> Int], NEW d \in Int
    PROVE  Counted(f, a, d)[b] = f[b]
<1>1. a \in Owners => Storage(a) \in Blocks \cup {None}
  BY DEF HandlersInv, HandlersTypeOK, Owned, Storage
<1>. QED
  BY <1>1, NoneAssumption DEF Counted

-----------------------------------------------------------------------------
(* References: they change no owner                                        *)

\* Of an owner with a handler, what is counted is a number.
LEMMA CountTypes ==
    ASSUME HandlersInv, NEW c \in Owners, Storage(c) # None
    PROVE  /\ Storage(c) \in Blocks
           /\ Cardinality(Users(c)) \in Nat
           /\ adrift[Storage(c)] \in Int
           /\ count[Storage(c)] = Cardinality(Users(c)) + adrift[Storage(c)]
<1>1. Storage(c) \in Blocks
  BY DEF HandlersInv, HandlersTypeOK, Owned, Storage
<1>2. IsFiniteSet(Users(c))
  BY RefsAssumption, FS_Subset DEF Users
<1>. QED
  BY <1>1, <1>2, FS_CardinalityType DEF HandlersInv, HandlersTypeOK, CountExact

\* Types that a step on references relies on.
LEMMA RefTypes ==
    ASSUME HandlersInv
    PROVE  /\ ref \in [Refs -> Owners \cup {None}]
           /\ count \in [Blocks -> Int]
           /\ adrift \in [Blocks -> Int]
BY DEF HandlersInv, HandlersTypeOK

\* A reference that is moved onto x keeps every count, if the counts follow.
LEMMA RefMoved ==
    ASSUME HandlersInv, NEW r \in Refs, NEW x \in Owners \cup {None},
           UNCHANGED <<owner, allocated, adrift>>,
           ref' = [ref EXCEPT ![r] = x],
           count' = Counted(Counted(count, ref[r], -1), x, 1)
    PROVE  HandlersInv'
<1>. DEFINE d == -1
            u == 1
            less == Counted(count, ref[r], d)
<1>1. d \in Int /\ u \in Int /\ d = -1 /\ u = 1 /\ count' = Counted(less, x, u)
  OBVIOUS
<1>2. ref[r] \in Owners \cup {None} /\ less \in [Blocks -> Int]
  BY <1>1, RefTypes, CountedType
<1>. HIDE DEF d, u
<1>3. count' \in [Blocks -> Int]
  BY <1>1, <1>2, CountedType
<1>4. StorageOwned' /\ HandlersTypeOK'
  BY <1>3, RefTypes DEF HandlersInv, HandlersTypeOK, StorageOwned, Storage
<1>5. FreeInv'
  <2>. SUFFICES ASSUME NEW b \in Blocks, \A a \in Owners : Storage(a) # b
                PROVE  count'[b] = 0 /\ adrift'[b] = 0
    BY DEF FreeInv, Storage
  <2>1. less[b] = count[b]
    BY <1>1, <1>2, RefTypes, CountedFree
  <2>. HIDE DEF less
  <2>2. Counted(less, x, u)[b] = less[b]
    BY <1>1, <1>2, CountedFree
  <2>3. count'[b] = less[b]
    BY <1>1, <2>2
  <2>. QED
    BY <2>1, <2>3 DEF HandlersInv, FreeInv
<1>6. CountExact'
  <2>. SUFFICES ASSUME NEW c \in Owners, Storage(c) # None
                PROVE  count'[Storage(c)] = Cardinality(Users(c)') + adrift[Storage(c)]
    BY DEF CountExact, Storage
  <2>1. less[Storage(c)] = count[Storage(c)] + (IF ref[r] = c THEN d ELSE 0)
    <3>1. Counted(count, ref[r], d)[Storage(c)] =
              count[Storage(c)] + (IF ref[r] = c THEN d ELSE 0)
      <4>. DEFINE p == ref[r]
      <4>1. p \in Owners \cup {None} /\ d \in Int /\ count \in [Blocks -> Int]
        BY <1>1, <1>2, RefTypes
      <4>. HIDE DEF p
      <4>2. Counted(count, p, d)[Storage(c)] = count[Storage(c)] + (IF p = c THEN d ELSE 0)
        BY <4>1, CountedAt
      <4>. QED
        BY <4>2 DEF p
    <3>. QED
      BY <3>1
  <2>. HIDE DEF less
  <2>2. count'[Storage(c)] = less[Storage(c)] + (IF x = c THEN 1 ELSE 0)
    <3>1. u \in Int /\ less \in [Blocks -> Int] /\ x \in Owners \cup {None}
      BY <1>1, <1>2
    <3>2. Counted(less, x, u)[Storage(c)] = less[Storage(c)] + (IF x = c THEN u ELSE 0)
      BY <3>1, CountedAt
    <3>. QED
      BY <1>1, <3>2
  <2>3. Users(c) = UsersIn(ref, c) /\ Users(c)' = UsersIn([ref EXCEPT ![r] = x], c)
    BY DEF Users, UsersIn
  <2>4. Cardinality(Users(c)') = Cardinality(Users(c)) - One(ref[r], c) + One(x, c)
    BY <2>3, RefTypes, UsersMoved
  <2>. QED
    BY <1>1, <2>1, <2>2, <2>4, CountTypes DEF One
<1>. QED
  BY <1>4, <1>5, <1>6 DEF HandlersInv

\* An owner assigned to a reference: the count that stays is a lost one.
LEMMA BindAssignStep ==
    ASSUME HandlersInv, NEW r \in Refs, NEW a \in Owners, BindAssign(r, a)
    PROVE  HandlersInv'
<1>. DEFINE u == 1
<1>1. /\ UNCHANGED <<owner, allocated>> /\ ref[r] # a
      /\ ref' = [ref EXCEPT ![r] = a]
      /\ count' = Counted(count, a, u)
      /\ adrift' = Counted(adrift, ref[r], u)
  BY DEF BindAssign, ownerVars
<1>2. /\ ref[r] \in Owners \cup {None} /\ a \in Owners \cup {None}
      /\ adrift \in [Blocks -> Int] /\ u \in Int /\ u = 1
  BY RefTypes
<1>. HIDE DEF u
<1>3. count' \in [Blocks -> Int]
  BY <1>1, <1>2, RefTypes, CountedType
<1>4. adrift' \in [Blocks -> Int]
  BY <1>1, <1>2, CountedType
<1>5. StorageOwned' /\ HandlersTypeOK'
  BY <1>1, <1>3, <1>4, RefTypes DEF HandlersInv, HandlersTypeOK, StorageOwned, Storage
<1>6. FreeInv'
  <2>. SUFFICES ASSUME NEW b \in Blocks, \A c \in Owners : Storage(c) # b
                PROVE  count'[b] = 0 /\ adrift'[b] = 0
    BY <1>1 DEF FreeInv, Storage
  <2>1. count'[b] = count[b] /\ adrift'[b] = adrift[b]
    BY <1>1, <1>2, RefTypes, CountedFree
  <2>. QED
    BY <2>1 DEF HandlersInv, FreeInv
<1>7. CountExact'
  <2>. SUFFICES ASSUME NEW c \in Owners, Storage(c) # None
                PROVE  count'[Storage(c)] = Cardinality(Users(c)') + adrift'[Storage(c)]
    BY <1>1 DEF CountExact, Storage
  <2>1. count'[Storage(c)] = count[Storage(c)] + (IF a = c THEN u ELSE 0)
    BY <1>1, <1>2, RefTypes, CountedAt
  <2>2. adrift'[Storage(c)] = adrift[Storage(c)] + (IF ref[r] = c THEN u ELSE 0)
    <3>. DEFINE p == ref[r]
    <3>1. p \in Owners \cup {None} /\ u \in Int /\ adrift \in [Blocks -> Int]
      BY <1>2
    <3>2. adrift' = Counted(adrift, p, u)
      BY <1>1
    <3>. HIDE DEF p
    <3>3. Counted(adrift, p, u)[Storage(c)] = adrift[Storage(c)] + (IF p = c THEN u ELSE 0)
      BY <3>1, CountedAt
    <3>. QED
      BY <3>2, <3>3 DEF p
  <2>3. Users(c) = UsersIn(ref, c) /\ Users(c)' = UsersIn([ref EXCEPT ![r] = a], c)
    BY <1>1 DEF Users, UsersIn
  <2>4. Cardinality(UsersIn([ref EXCEPT ![r] = a], c)) =
            Cardinality(UsersIn(ref, c)) - One(ref[r], c) + One(a, c)
    BY <1>2, RefTypes, UsersMoved
  <2>. QED
    BY <1>2, <2>1, <2>2, <2>3, <2>4, CountTypes DEF One
<1>. QED
  BY <1>5, <1>6, <1>7 DEF HandlersInv

\* A move: what the target pointed to loses a reference, what the source did not.
LEMMA MoveRefStep ==
    ASSUME HandlersInv, NEW from \in Refs, NEW to \in Refs, MoveRef(from, to)
    PROVE  HandlersInv'
<1>. DEFINE d == -1
            p == ref[to]
            q == ref[from]
            one == [ref EXCEPT ![to] = q]
<1>1. /\ UNCHANGED <<owner, allocated, adrift>> /\ from # to
      /\ ref' = [one EXCEPT ![from] = None]
      /\ count' = Counted(count, p, d)
  BY DEF MoveRef, ownerVars
<1>2. /\ p \in Owners \cup {None} /\ q \in Owners \cup {None}
      /\ None \in Owners \cup {None}
      /\ one \in [Refs -> Owners \cup {None}] /\ one[from] = q
      /\ d \in Int
  BY <1>1, RefTypes
<1>3. d = -1
  OBVIOUS
<1>4. ref' \in [Refs -> Owners \cup {None}]
  BY <1>1, <1>2
<1>. HIDE DEF d, p, q, one
<1>5. count' \in [Blocks -> Int]
  BY <1>1, <1>2, RefTypes, CountedType
<1>6. StorageOwned' /\ HandlersTypeOK'
  BY <1>1, <1>4, <1>5 DEF HandlersInv, HandlersTypeOK, StorageOwned, Storage
<1>7. FreeInv'
  <2>. SUFFICES ASSUME NEW b \in Blocks, \A a \in Owners : Storage(a) # b
                PROVE  count'[b] = 0 /\ adrift'[b] = 0
    BY <1>1 DEF FreeInv, Storage
  <2>1. Counted(count, p, d)[b] = count[b]
    BY <1>2, RefTypes, CountedFree
  <2>. QED
    BY <1>1, <2>1 DEF HandlersInv, FreeInv
<1>8. CountExact'
  <2>. SUFFICES ASSUME NEW c \in Owners, Storage(c) # None
                PROVE  count'[Storage(c)] = Cardinality(Users(c)') + adrift[Storage(c)]
    BY <1>1 DEF CountExact, Storage
  <2>1. Counted(count, p, d)[Storage(c)] = count[Storage(c)] + (IF p = c THEN d ELSE 0)
    <3>1. p \in Owners \cup {None} /\ d \in Int /\ count \in [Blocks -> Int]
      BY <1>2, RefTypes
    <3>. QED
      BY <3>1, CountedAt
  <2>2. Users(c) = UsersIn(ref, c) /\ Users(c)' = UsersIn([one EXCEPT ![from] = None], c)
    BY <1>1 DEF Users, UsersIn
  <2>3. Cardinality(UsersIn(one, c)) = Cardinality(UsersIn(ref, c)) - One(p, c) + One(q, c)
    <3>1. Cardinality(UsersIn([ref EXCEPT ![to] = q], c)) =
              Cardinality(UsersIn(ref, c)) - One(ref[to], c) + One(q, c)
      BY <1>2, RefTypes, UsersMoved
    <3>. QED
      BY <3>1 DEF one, p
  <2>4. Cardinality(UsersIn([one EXCEPT ![from] = None], c)) =
            Cardinality(UsersIn(one, c)) - One(q, c) + One(None, c)
    BY <1>2, UsersMoved
  <2>5. None # c
    BY NoneAssumption
  <2>. QED
    BY <1>1, <1>2, <1>3, <2>1, <2>2, <2>3, <2>4, <2>5, CountTypes DEF One
<1>. QED
  BY <1>6, <1>7, <1>8 DEF HandlersInv

\* The other operations each move one reference.
LEMMA RefStep ==
    ASSUME HandlersInv, NEW r \in Refs
    PROVE  /\ \A a \in Owners : Bind(r, a) => HandlersInv'
           /\ \A q \in Refs : CopyRef(q, r) => HandlersInv'
           /\ \A q \in Refs : AssignRef(q, r) => HandlersInv'
           /\ DropRef(r) => HandlersInv'
<1>1. \A f : Counted(f, None, -1) = f /\ Counted(f, None, 1) = f
  BY DEF Counted
<1>2. None \in Owners \cup {None} /\ \A q \in Refs : ref[q] \in Owners \cup {None}
  BY RefTypes
<1>3. ASSUME NEW a \in Owners, Bind(r, a)
      PROVE  HandlersInv'
  BY <1>1, <1>3, RefMoved DEF Bind, ownerVars
<1>4. ASSUME NEW q \in Refs, CopyRef(q, r)
      PROVE  HandlersInv'
  BY <1>1, <1>2, <1>4, RefMoved DEF CopyRef, ownerVars
<1>5. ASSUME NEW q \in Refs, AssignRef(q, r)
      PROVE  HandlersInv'
  BY <1>2, <1>5, RefMoved DEF AssignRef, ownerVars
<1>6. ASSUME DropRef(r)
      PROVE  HandlersInv'
  BY <1>1, <1>2, <1>6, RefMoved DEF DropRef, ownerVars
<1>. QED
  BY <1>3, <1>4, <1>5, <1>6

-----------------------------------------------------------------------------
(* Owners: what refers to one stays when its handler goes                  *)

\* Only what is kept for the handler of a is cleared.
LEMMA ClearedAt ==
    ASSUME NEW a, NEW f \in [Blocks -> Int]
    PROVE  /\ Cleared(f, a) \in [Blocks -> Int]
           /\ \A b \in Blocks : Cleared(f, a)[b] = IF Storage(a) = b THEN 0 ELSE f[b]
<1>1. CASE Storage(a) = None
  BY <1>1, NoneAssumption DEF Cleared
<1>2. CASE Storage(a) # None
  <2>1. Cleared(f, a) = [f EXCEPT ![Storage(a)] = 0]
    BY <1>2 DEF Cleared
  <2>2. [f EXCEPT ![Storage(a)] = 0] = [b \in Blocks |-> IF Storage(a) = b THEN 0 ELSE f[b]]
    BY Zenon
  <2>3. \A b \in Blocks : (IF Storage(a) = b THEN 0 ELSE f[b]) \in Int
    OBVIOUS
  <2>4. [b \in Blocks |-> IF Storage(a) = b THEN 0 ELSE f[b]] \in [Blocks -> Int]
    BY <2>3, Zenon
  <2>. QED
    BY <2>1, <2>2, <2>4
<1>. QED
  BY <1>1, <1>2

\* What goes with the handler of a.
LEMMA Gone ==
    ASSUME HandlersInv, NEW a \in Owners, count' = Cleared(count, a)
    PROVE  /\ count' \in [Blocks -> Int]
           /\ \A b \in Blocks : count'[b] = IF Storage(a) = b THEN 0 ELSE count[b]
           /\ Cleared(adrift, a) \in [Blocks -> Int]
           /\ \A b \in Blocks : Cleared(adrift, a)[b] = IF Storage(a) = b THEN 0 ELSE adrift[b]
BY RefTypes, ClearedAt

\* A handler that is destroyed returns its own block and no other.
LEMMA Returned ==
    ASSUME HandlersInv, NEW a \in Owners
    PROVE  /\ Destroyed(a) \in [Blocks -> Allocation \cup {None}]
           /\ \A b \in Blocks : Destroyed(a)[b] = IF Storage(a) = b THEN None ELSE allocated[b]
BY NoneAssumption DEF HandlersInv, HandlersTypeOK, Destroyed

\* An owned block is not free, and no other owner has it.
LEMMA Apart ==
    ASSUME HandlersInv, NEW c \in Owners, Storage(c) # None
    PROVE  /\ Storage(c) \in Blocks
           /\ allocated[Storage(c)] # None
           /\ allocated[Storage(c)] = [memres |-> owner[c].memres, type |-> owner[c].vtable]
           /\ \A a \in Owners \ {c} : Storage(a) # Storage(c)
<1>1. Storage(c) \in Blocks
  BY DEF HandlersInv, HandlersTypeOK, Owned, Storage
<1>2. allocated[Storage(c)] = [memres |-> owner[c].memres, type |-> owner[c].vtable]
  BY DEF HandlersInv, StorageOwned
<1>3. owner[c].memres \in Resources /\ owner[c].vtable \in HandlerTypes \cup {None}
  BY DEF HandlersInv, HandlersTypeOK, Owned
<1>4. allocated[Storage(c)] # None
  BY <1>2, <1>3, NoneAssumption
<1>. QED
  BY <1>1, <1>2, <1>4 DEF HandlersInv, StorageOwned

\* The handler of a is destroyed, and a may keep another resource.
LEMMA Destruction ==
    ASSUME HandlersInv, NEW a \in Owners, NEW m \in Resources,
           allocated' = Destroyed(a),
           owner' = [Emptied(a) EXCEPT ![a].memres = m],
           count' = Cleared(count, a), adrift' = Cleared(adrift, a), ref' = ref
    PROVE  HandlersInv'
<1>1. owner \in [Owners -> Owned]
  BY DEF HandlersInv, HandlersTypeOK
<1>2. /\ owner' \in [Owners -> Owned]
      /\ Storage(a)' = None
      /\ \A c \in Owners \ {a} : owner'[c] = owner[c] /\ Storage(c)' = Storage(c)
  BY <1>1 DEF Emptied, Owned, Storage
<1>3. HandlersTypeOK'
  BY <1>2, Gone, Returned, RefTypes DEF HandlersTypeOK
<1>4. StorageOwned'
  <2>1. ASSUME NEW c \in Owners, Storage(c)' # None
        PROVE  /\ allocated'[Storage(c)'] =
                      [memres |-> owner'[c].memres, type |-> owner'[c].vtable]
               /\ \A e \in Owners \ {c} : Storage(e)' # Storage(c)'
    <3>1. c # a /\ Storage(c)' = Storage(c) /\ owner'[c] = owner[c]
      BY <1>2, <2>1
    <3>. QED
      BY <1>2, <2>1, <3>1, Apart, Returned
  <2>2. ASSUME NEW b \in Blocks, allocated'[b] # None
        PROVE  \E c \in Owners : Storage(c)' = b
    BY <1>2, <2>2, Returned DEF HandlersInv, StorageOwned
  <2>. QED
    BY <2>1, <2>2 DEF StorageOwned
<1>5. FreeInv'
  BY <1>2, Gone DEF HandlersInv, FreeInv
<1>6. CountExact'
  <2>. SUFFICES ASSUME NEW c \in Owners, Storage(c)' # None
                PROVE  count'[Storage(c)'] = Cardinality(Users(c)') + adrift'[Storage(c)']
    BY DEF CountExact
  <2>1. c # a /\ Storage(c)' = Storage(c) /\ Users(c)' = Users(c)
    BY <1>2 DEF Users
  <2>2. Storage(c) \in Blocks /\ Storage(a) # Storage(c)
    BY <2>1, Apart
  <2>. QED
    BY <2>1, <2>2, Gone, CountTypes
<1>. QED
  BY <1>3, <1>4, <1>5, <1>6 DEF HandlersInv

\* A handler is constructed in a block that is free once the old one is gone.
LEMMA Construction ==
    ASSUME HandlersInv, NEW a \in Owners, NEW m \in Resources, NEW t \in HandlerTypes,
           NEW b \in Blocks, Destroyed(a)[b] = None,
           Construct(a, m, t, b, FALSE), count' = Cleared(count, a), ref' = ref,
           adrift' = [Cleared(adrift, a) EXCEPT ![b] = -Cardinality(Users(a))]
    PROVE  HandlersInv'
<1>. DEFINE made == [memres |-> m, type |-> t]
<1>1. /\ allocated' = [Destroyed(a) EXCEPT ![b] = made]
      /\ owner' = [owner EXCEPT ![a] = [storage |-> b, memres |-> m, vtable |-> t]]
      /\ owner \in [Owners -> Owned]
      /\ made \in Allocation /\ b # None
  BY NoneAssumption DEF Construct, HandlersInv, HandlersTypeOK, Allocation
<1>2. /\ owner' \in [Owners -> Owned]
      /\ Storage(a)' = b /\ owner'[a].memres = m /\ owner'[a].vtable = t
      /\ \A c \in Owners \ {a} : owner'[c] = owner[c] /\ Storage(c)' = Storage(c)
  BY <1>1 DEF Owned, Storage
<1>3. \A c \in Owners \ {a} : Storage(c) # b
  <2>. SUFFICES ASSUME NEW c \in Owners \ {a}, Storage(c) = b
                PROVE  FALSE
    OBVIOUS
  <2>1. Storage(a) # b /\ allocated[b] # None
    BY <1>1, Apart
  <2>. QED
    BY <2>1, Returned
<1>4. Cardinality(Users(a)) \in Nat
  BY RefsAssumption, FS_Subset, FS_CardinalityType DEF Users
<1>5. /\ adrift' \in [Blocks -> Int] /\ adrift'[b] = -Cardinality(Users(a))
       /\ \A x \in Blocks : x # b =>
              adrift'[x] = IF Storage(a) = x THEN 0 ELSE adrift[x]
  BY <1>4, Gone
<1>6. count'[b] = 0
  <2>1. CASE Storage(a) = b
    BY <2>1, Gone
  <2>2. CASE Storage(a) # b
    BY <1>3, <2>2, Gone DEF HandlersInv, FreeInv
  <2>. QED
    BY <2>1, <2>2
<1>7. HandlersTypeOK'
  BY <1>1, <1>2, <1>5, Gone, Returned, RefTypes DEF HandlersTypeOK
<1>8. StorageOwned'
  <2>1. ASSUME NEW c \in Owners, Storage(c)' # None
        PROVE  /\ allocated'[Storage(c)'] =
                      [memres |-> owner'[c].memres, type |-> owner'[c].vtable]
               /\ \A e \in Owners \ {c} : Storage(e)' # Storage(c)'
    <3>1. CASE c = a
      BY <1>1, <1>2, <1>3, <3>1, Returned
    <3>2. CASE c # a
      BY <1>1, <1>2, <1>3, <2>1, <3>2, Apart, Returned
    <3>. QED
      BY <3>1, <3>2
  <2>2. ASSUME NEW x \in Blocks, allocated'[x] # None
        PROVE  \E c \in Owners : Storage(c)' = x
    BY <1>1, <1>2, <2>2, Returned DEF HandlersInv, StorageOwned
  <2>. QED
    BY <2>1, <2>2 DEF StorageOwned
<1>9. FreeInv'
  BY <1>2, <1>5, Gone DEF HandlersInv, FreeInv
<1>10. CountExact'
  <2>. SUFFICES ASSUME NEW c \in Owners, Storage(c)' # None
                PROVE  count'[Storage(c)'] = Cardinality(Users(c)') + adrift'[Storage(c)']
    BY DEF CountExact
  <2>1. Users(c)' = Users(c)
    BY DEF Users
  <2>2. CASE c = a
    BY <1>2, <1>6, <1>4, <1>5, <2>1, <2>2
  <2>3. CASE c # a
    <3>1. /\ Storage(c)' = Storage(c) /\ Storage(c) \in Blocks
          /\ Storage(a) # Storage(c) /\ Storage(c) # b
      BY <1>2, <1>3, <2>3, Apart
    <3>. QED
      BY <1>5, <2>1, <3>1, Gone, CountTypes
  <2>. QED
    BY <2>2, <2>3
<1>. QED
  BY <1>7, <1>8, <1>9, <1>10 DEF HandlersInv

\* The target's handler goes, and the source's becomes the target's.
LEMMA MoveOwnerStep ==
    ASSUME HandlersInv, NEW from \in Owners, NEW to \in Owners, MoveOwner(from, to)
    PROVE  HandlersInv'
<1>. DEFINE n == Cardinality(Users(from)) - Cardinality(Users(to))
<1>1. /\ from # to /\ allocated' = Destroyed(to)
      /\ count' = Cleared(count, to) /\ ref' = ref
      /\ owner' = [owner EXCEPT ![to] = owner[from], ![from].storage = None]
      /\ owner \in [Owners -> Owned]
  BY DEF MoveOwner, CountMoves, HandlersInv, HandlersTypeOK
<1>2. /\ owner' \in [Owners -> Owned]
      /\ owner'[to] = owner[from] /\ Storage(to)' = Storage(from)
      /\ Storage(from)' = None
      /\ \A c \in Owners \ {from, to} : owner'[c] = owner[c] /\ Storage(c)' = Storage(c)
  BY <1>1 DEF Owned, Storage
<1>3. n \in Int /\ Cardinality(Users(from)) \in Nat /\ Cardinality(Users(to)) \in Nat
  BY RefsAssumption, FS_Subset, FS_CardinalityType DEF Users
<1>. HIDE DEF n
<1>4. \A c \in Owners \ {to} : Storage(c) # None =>
        Storage(c) \in Blocks /\ Storage(c) # Storage(to)
  BY Apart
<1>5. /\ adrift' \in [Blocks -> Int]
       /\ \A b \in Blocks : adrift'[b] =
              IF Storage(to) = b THEN 0
              ELSE IF Storage(from) = b THEN adrift[b] + n ELSE adrift[b]
  <2>1. CASE Storage(from) = None
    <3>1. adrift' = Cleared(adrift, to) /\ \A b \in Blocks : Storage(from) # b
      BY <2>1, NoneAssumption DEF MoveOwner, CountMoves
    <3>. QED
      BY <1>1, <3>1, Gone
  <2>2. CASE Storage(from) # None
    <3>. DEFINE f == Cleared(adrift, to)
                b == Storage(from)
    <3>1. /\ f \in [Blocks -> Int] /\ b \in Blocks /\ f[b] = adrift[b] /\ b # Storage(to)
          /\ \A x \in Blocks : f[x] = IF Storage(to) = x THEN 0 ELSE adrift[x]
      BY <1>1, <1>4, <2>2, Gone
    <3>2. adrift' = [f EXCEPT ![b] = @ + Cardinality(Users(from)) - Cardinality(Users(to))]
      BY <2>2 DEF MoveOwner, CountMoves
    <3>3. f[b] + Cardinality(Users(from)) - Cardinality(Users(to)) = f[b] + n /\ f[b] + n \in Int
      BY <1>3, <3>1 DEF n
    <3>4. adrift' = [f EXCEPT ![b] = f[b] + n]
      BY <3>2, <3>3
    <3>. HIDE DEF f, b
    <3>5. adrift' \in [Blocks -> Int] /\ \A x \in Blocks : adrift'[x] = IF x = b THEN f[b] + n ELSE f[x]
      BY <3>1, <3>3, <3>4
    <3>. QED
      BY <3>1, <3>5 DEF b
  <2>. QED
    BY <2>1, <2>2
<1>6. HandlersTypeOK'
  BY <1>1, <1>2, <1>5, Gone, Returned, RefTypes DEF HandlersTypeOK
<1>7. \A c \in Owners \ {to} : Storage(c) # None =>
        /\ Storage(c) \in Blocks /\ Storage(c) # Storage(to)
        /\ allocated'[Storage(c)] = allocated[Storage(c)]
        /\ count'[Storage(c)] = count[Storage(c)]
  BY <1>1, <1>4, Gone, Returned
<1>8. StorageOwned'
  <2>1. ASSUME NEW c \in Owners, Storage(c)' # None
        PROVE  /\ allocated'[Storage(c)'] =
                      [memres |-> owner'[c].memres, type |-> owner'[c].vtable]
               /\ \A e \in Owners \ {c} : Storage(e)' # Storage(c)'
    <3>1. CASE c = to
      BY <1>1, <1>2, <1>7, <2>1, <3>1, Apart
    <3>2. CASE c # to
      <4>1. c # from
        BY <1>2, <2>1
      <4>. QED
        BY <1>1, <1>2, <1>7, <2>1, <3>2, <4>1, Apart
    <3>. QED
      BY <3>1, <3>2
  <2>2. ASSUME NEW b \in Blocks, allocated'[b] # None
        PROVE  \E c \in Owners : Storage(c)' = b
    <3>1. Storage(to) # b /\ allocated[b] # None
      BY <1>1, <2>2, Returned
    <3>2. PICK c \in Owners : Storage(c) = b
      BY <3>1 DEF HandlersInv, StorageOwned
    <3>. QED
      BY <1>2, <3>1, <3>2
  <2>. QED
    BY <2>1, <2>2 DEF StorageOwned
<1>9. FreeInv'
  <2>. SUFFICES ASSUME NEW b \in Blocks, \A c \in Owners : Storage(c)' # b
                PROVE  count'[b] = 0 /\ adrift'[b] = 0
    BY DEF FreeInv
  <2>1. CASE Storage(to) = b
    BY <1>1, <1>5, <2>1, Gone
  <2>2. CASE Storage(to) # b
    <3>1. \A c \in Owners : Storage(c) # b
      BY <1>2, <2>2
    <3>. QED
      BY <1>1, <1>5, <2>2, <3>1, Gone DEF HandlersInv, FreeInv
  <2>. QED
    BY <2>1, <2>2
<1>10. CountExact'
  <2>. SUFFICES ASSUME NEW c \in Owners, Storage(c)' # None
                PROVE  count'[Storage(c)'] = Cardinality(Users(c)') + adrift'[Storage(c)']
    BY DEF CountExact
  <2>1. \A e \in Owners : Users(e)' = Users(e)
    BY <1>1 DEF Users
  <2>2. CASE c = to
    <3>1. /\ Storage(from) # None /\ Storage(to)' = Storage(from) /\ Users(to)' = Users(to)
          /\ Storage(from) \in Blocks /\ Storage(from) # Storage(to)
      BY <1>1, <1>2, <1>4, <2>1, <2>2
    <3>2. count[Storage(from)] = Cardinality(Users(from)) + adrift[Storage(from)]
      BY <3>1, CountTypes
    <3>3. adrift'[Storage(from)] = adrift[Storage(from)] + n
          /\ count'[Storage(from)] = count[Storage(from)] /\ adrift[Storage(from)] \in Int
      BY <1>1, <1>7, <1>5, <3>1, CountTypes
    <3>. QED
      BY <1>3, <2>2, <3>1, <3>2, <3>3 DEF n
  <2>3. CASE c # to
    <3>1. c # from /\ Storage(c)' = Storage(c)
      BY <1>2, <2>3
    <3>2. Storage(c) \in Blocks /\ Storage(c) # Storage(to) /\ Storage(c) # Storage(from)
      BY <1>4, <2>3, <3>1, Apart
    <3>. QED
      BY <1>7, <1>5, <2>1, <2>3, <3>1, <3>2, CountTypes
  <2>. QED
    BY <2>2, <2>3
<1>. QED
  BY <1>6, <1>8, <1>9, <1>10 DEF HandlersInv

\* Every operation on an owner keeps the invariant of the handlers.
LEMMA OwnerStep ==
    ASSUME HandlersInv, OwnerNext
    PROVE  HandlersInv'
<1>1. ASSUME NEW a \in Owners, NEW m \in Resources, NEW t \in HandlerTypes, Emplace(a, m, t)
      PROVE  HandlersInv'
  <2>1. PICK b \in Blocks, throws \in BOOLEAN :
            /\ Destroyed(a)[b] = None /\ Construct(a, m, t, b, throws)
            /\ adrift' = IF throws THEN Cleared(adrift, a)
                         ELSE [Cleared(adrift, a) EXCEPT ![b] = -Cardinality(Users(a))]
    BY <1>1 DEF Emplace
  <2>2. count' = Cleared(count, a) /\ ref' = ref
    BY <1>1 DEF Emplace
  <2>3. CASE throws
    BY <2>1, <2>2, <2>3, Destruction DEF Construct
  <2>4. CASE ~throws
    BY <2>1, <2>2, <2>4, Construction DEF Construct
  <2>. QED
    BY <2>3, <2>4
<1>2. ASSUME NEW a \in Owners, DestroyOwner(a)
      PROVE  HandlersInv'
  <2>1. owner[a].memres \in Resources /\ owner \in [Owners -> Owned]
    BY DEF HandlersInv, HandlersTypeOK, Owned
  <2>2. owner' = [Emptied(a) EXCEPT ![a].memres = owner[a].memres]
    BY <1>2, <2>1 DEF DestroyOwner, Emptied, Owned
  <2>. QED
    BY <1>2, <2>1, <2>2, Destruction DEF DestroyOwner
<1>. QED
  BY <1>1, <1>2, MoveOwnerStep DEF OwnerNext

\* And so does every operation on a reference.
LEMMA RefNextStep ==
    ASSUME HandlersInv, NEW own \in SUBSET Refs, RefNext(own)
    PROVE  HandlersInv'
<1>1. PICK r \in own :
          \/ \E a \in Owners : Bind(r, a) \/ BindAssign(r, a)
          \/ \E q \in own : CopyRef(q, r) \/ AssignRef(q, r) \/ MoveRef(q, r)
          \/ DropRef(r)
  BY DEF RefNext
<1>. QED
  BY <1>1, RefStep, BindAssignStep, MoveRefStep

-----------------------------------------------------------------------------
(* Adapters                                                                *)

\* The endpoints of a direction have its bit.
LEMMA EndpointsAreSafe ==
    ASSUME NEW dir \in Directions, NEW ep \in Endpoints(dir)
    PROVE  ep \in Int /\ (IsIn(ep) <=> dir = "in")
<1>1. PICK x \in Addresses : ep \in {MakeSafe(dir, x)} \cup MakeThrowing(dir, x) \cup As(dir, x)
  BY DEF Endpoints
<1>2. x \in 0..255
  BY AddressesAssumption
<1>3. CASE ep = MakeSafe(dir, x)
  <2>1. IsIn((x % 128) + 128) /\ ~IsIn(x % 128)
    BY <1>2 DEF IsIn
  <2>2. CASE dir = "in"
    BY <1>3, <2>1, <2>2 DEF MakeSafe
  <2>3. CASE dir = "out"
    <3>1. ep = x % 128
      BY <1>2, <1>3, <2>3 DEF MakeSafe
    <3>. QED
      BY <2>1, <2>3, <3>1
  <2>. QED
    BY <2>2, <2>3 DEF Directions
<1>4. CASE ep \in MakeThrowing(dir, x) \cup As(dir, x)
  <2>1. ep = x
    BY <1>4 DEF MakeThrowing, As
  <2>. QED
    BY <1>2, <1>4, <2>1 DEF MakeThrowing, As, Directions
<1>. QED
  BY <1>1, <1>3, <1>4

\* An adapter that runs exists, in its direction, with an endpoint of it.
RunningInv ==
    /\ adapter \in [Adapters -> {None} \cup
          [type : PartialTypes \cup CompleteTypes, seq : Sequences, ep : Int, timeout : Timeouts]]
    /\ running \in [Adapters -> {"none", "in", "out"}]
    /\ \A a \in Adapters : Alive(a) => (IsIn(adapter[a].ep) <=> adapter[a].type.dir = "in")
    /\ \A a \in Adapters : running[a] # "none" => Alive(a) /\ running[a] = adapter[a].type.dir

\* The sequence of an adapter is as the constructor of the last one left it.
FilledInv ==
    /\ DOMAIN filled = Sequences
    /\ \A a \in Adapters : Alive(a) /\ a \notin overtaken =>
        LET f == filled[adapter[a].seq]
        IN  /\ f.kind = adapter[a].type.kind
            /\ f.timeout = Timeout(adapter[a].timeout)
            /\ f.kind # "control" => f.ep = adapter[a].ep

IInv == HandlersInv /\ RunningInv /\ FilledInv

\* No object has been made: nothing is owned, counted or filled in.
LEMMA InitIInv == Init => IInv
<1>. SUFFICES ASSUME Init PROVE IInv
  OBVIOUS
<1>1. HandlersInv
  <2>1. PICK m \in Resources :
            owner = [a \in Owners |-> [storage |-> None, memres |-> m, vtable |-> None]]
    BY DEF Init, HandlersInit
  <2>2. HandlersTypeOK /\ \A a \in Owners : Storage(a) = None
    BY <2>1 DEF Init, HandlersInit, HandlersTypeOK, Owned, Storage
  <2>. QED
    BY <2>2 DEF Init, HandlersInit, HandlersInv, StorageOwned, FreeInv, CountExact
<1>2. RunningInv
  BY DEF Init, RunningInv, Alive
<1>3. FilledInv
  BY DEF Init, FilledInv, Alive
<1>. QED
  BY <1>1, <1>2, <1>3 DEF IInv

\* prefill_*: what the transfers of each kind are filled in with.
LEMMA Prefilled ==
    ASSUME NEW kind \in Kinds, NEW ep, NEW t
    PROVE  LET f == Prefill(kind, ep, t)
           IN  /\ f.kind = kind /\ f.timeout = Timeout(t)
               /\ f.kind # "control" => f.ep = ep
BY KindsAssumption DEF Prefill, PrefillControl, PrefillBulk, PrefillInterrupt,
   PrefillIsochronous, PrefillBulkStream

\* A new adapter fills its sequence in, and overtakes the others on it.
LEMMA NewAdapterStep ==
    ASSUME IInv, NEW a \in Adapters, NEW type \in PartialTypes \cup CompleteTypes,
           NEW s \in Sequences, NEW ep \in Endpoints(type.dir), NEW t \in Timeouts,
           NewAdapter(a, type, s, ep, t)
    PROVE  IInv'
<1>. DEFINE made == [type |-> type, seq |-> s, ep |-> ep, timeout |-> t]
<1>1. /\ ~Alive(a) /\ Idle(s)
      /\ adapter' = [adapter EXCEPT ![a] = made]
      /\ filled' = [filled EXCEPT ![s] = Prefill(type.kind, ep, t)]
      /\ overtaken' = (overtaken \cup On(s)) \ {a}
      /\ running' = running
  BY DEF NewAdapter
<1>2. type.kind \in Kinds /\ type.dir \in Directions
  BY DEF PartialTypes, CompleteTypes
<1>3. ep \in Int /\ (IsIn(ep) <=> type.dir = "in")
  BY <1>2, EndpointsAreSafe
<1>4. HandlersInv'
  BY AdaptersAssumption, RefStep DEF IInv, NewAdapter
<1>5. RunningInv'
  <2>1. running[a] = "none"
    BY <1>1 DEF IInv, RunningInv
  <2>. QED
    BY <1>1, <1>3, <2>1 DEF IInv, RunningInv, Alive
<1>6. FilledInv'
  <2>. SUFFICES ASSUME NEW c \in Adapters, Alive(c)', c \notin overtaken'
                PROVE  LET f == filled'[adapter'[c].seq]
                       IN  /\ f.kind = adapter'[c].type.kind
                           /\ f.timeout = Timeout(adapter'[c].timeout)
                           /\ f.kind # "control" => f.ep = adapter'[c].ep
    BY <1>1 DEF IInv, FilledInv
  <2>1. CASE c = a
    <3>1. adapter'[c] = made /\ filled'[s] = Prefill(type.kind, ep, t)
      BY <1>1, <2>1 DEF IInv, RunningInv, FilledInv
    <3>. QED
      BY <1>2, <3>1, Prefilled
  <2>2. CASE c # a
    <3>1. adapter'[c] = adapter[c] /\ Alive(c)
      BY <1>1, <2>2 DEF Alive
    <3>2. c \notin On(s) /\ c \notin overtaken
      BY <1>1, <2>2
    <3>3. filled'[adapter[c].seq] = filled[adapter[c].seq]
      BY <1>1, <3>1, <3>2 DEF On
    <3>. QED
      BY <3>1, <3>2, <3>3 DEF IInv, FilledInv
  <2>. QED
    BY <2>1, <2>2
<1>. QED
  BY <1>4, <1>5, <1>6 DEF IInv

\* A copy stands for the adapter it was made from.
LEMMA CopyAdapterStep ==
    ASSUME IInv, NEW from \in Adapters, NEW to \in Adapters, CopyAdapter(from, to)
    PROVE  IInv'
<1>1. /\ Alive(from) /\ ~Alive(to)
      /\ adapter' = [adapter EXCEPT ![to] = adapter[from]]
      /\ overtaken' = Inherits(from, to)
      /\ UNCHANGED <<filled, running>>
  BY DEF CopyAdapter
<1>2. HandlersInv'
  BY AdaptersAssumption, RefStep DEF IInv, CopyAdapter
<1>3. RunningInv'
  BY <1>1 DEF IInv, RunningInv, Alive
<1>4. FilledInv'
  BY <1>1 DEF IInv, RunningInv, FilledInv, Alive, Inherits
<1>. QED
  BY <1>2, <1>3, <1>4 DEF IInv

\* So does the target of a move, of an adapter that runs nothing.
LEMMA MoveAdapterStep ==
    ASSUME IInv, NEW from \in Adapters, NEW to \in Adapters, MoveAdapter(from, to)
    PROVE  IInv'
<1>1. /\ Alive(from) /\ ~Alive(to) /\ running[from] = "none"
      /\ adapter' = [adapter EXCEPT ![to] = adapter[from], ![from] = None]
      /\ overtaken' = Inherits(from, to) \ {from}
      /\ UNCHANGED <<filled, running>>
  BY DEF MoveAdapter
<1>2. HandlersInv'
  BY AdaptersAssumption, MoveRefStep DEF IInv, MoveAdapter
<1>3. RunningInv'
  BY <1>1 DEF IInv, RunningInv, Alive
<1>4. FilledInv'
  BY <1>1 DEF IInv, RunningInv, FilledInv, Alive, Inherits
<1>. QED
  BY <1>2, <1>3, <1>4 DEF IInv

\* The adapters that are left keep their sequences.
LEMMA DestroyAdapterStep ==
    ASSUME IInv, NEW a \in Adapters, DestroyAdapter(a)
    PROVE  IInv'
<1>1. /\ running[a] = "none" /\ adapter' = [adapter EXCEPT ![a] = None]
      /\ overtaken' = overtaken \ {a}
      /\ UNCHANGED <<filled, running>>
  BY DEF DestroyAdapter
<1>2. HandlersInv'
  BY AdaptersAssumption, RefStep DEF IInv, DestroyAdapter
<1>3. RunningInv'
  BY <1>1 DEF IInv, RunningInv, Alive
<1>4. FilledInv'
  BY <1>1 DEF IInv, RunningInv, FilledInv, Alive
<1>. QED
  BY <1>2, <1>3, <1>4 DEF IInv

\* The references of the program, and the owners, are not the adapters'.
LEMMA HandlersFrame ==
    ASSUME HandlersInv, UNCHANGED handlerVars
    PROVE  HandlersInv'
BY DEF HandlersInv, HandlersTypeOK, StorageOwned, FreeInv, CountExact, Storage, Users,
   handlerVars, ownerVars, refVars

\* Nor do steps of handlers and references change the adapters.
LEMMA AdaptersFrame ==
    ASSUME RunningInv, FilledInv, UNCHANGED ioVars
    PROVE  RunningInv' /\ FilledInv'
BY DEF RunningInv, FilledInv, Alive, ioVars

\* An adapter starts operations in its own direction.
LEMMA OperationStep ==
    ASSUME IInv, NEW a \in Adapters,
           ReadSome(a) \/ WriteSome(a) \/ Read(a) \/ Write(a) \/ Done(a)
    PROVE  IInv'
<1>1. UNCHANGED <<handlerVars, adapter, filled, overtaken>>
  BY DEF ReadSome, WriteSome, Read, Write, Done, Start
<1>2. \/ Alive(a) /\ running' = [running EXCEPT ![a] = "in"] /\ adapter[a].type.dir = "in"
      \/ Alive(a) /\ running' = [running EXCEPT ![a] = "out"] /\ adapter[a].type.dir = "out"
      \/ running' = [running EXCEPT ![a] = "none"]
  BY DEF ReadSome, WriteSome, Read, Write, Done, Start
<1>3. HandlersInv'
  BY <1>1, HandlersFrame DEF IInv
<1>4. RunningInv'
  BY <1>1, <1>2 DEF IInv, RunningInv, Alive
<1>5. FilledInv'
  BY <1>1 DEF IInv, FilledInv, Alive
<1>. QED
  BY <1>3, <1>4, <1>5 DEF IInv

\* The invariant is inductive: one case for each action.
LEMMA NextIInv == IInv /\ [Next]_vars => IInv'
<1>. SUFFICES ASSUME IInv, [Next]_vars PROVE IInv'
  OBVIOUS
<1>1. CASE OwnerNext /\ UNCHANGED ioVars
  BY <1>1, OwnerStep, AdaptersFrame DEF IInv
<1>2. CASE RefNext(Refs \ Adapters) /\ UNCHANGED ioVars
  BY <1>2, RefNextStep, AdaptersFrame DEF IInv
<1>3. ASSUME NEW a \in Adapters, NEW s \in Sequences, NEW t \in Timeouts,
             NEW dir \in Directions, NEW ep \in Endpoints(dir),
             NEW type, type.dir = dir,
             PartialAdapter(a, type, s, ep, t) \/ CompleteAdapter(a, type, s, ep, t)
      PROVE  IInv'
  BY <1>3, NewAdapterStep DEF PartialAdapter, CompleteAdapter
<1>4. ASSUME NEW a \in Adapters, NEW b \in Adapters, CopyAdapter(a, b) \/ MoveAdapter(a, b)
      PROVE  IInv'
  BY <1>4, CopyAdapterStep, MoveAdapterStep
<1>5. ASSUME NEW a \in Adapters,
             DestroyAdapter(a) \/ ReadSome(a) \/ WriteSome(a) \/ Read(a) \/ Write(a) \/ Done(a)
      PROVE  IInv'
  BY <1>5, DestroyAdapterStep, OperationStep
<1>6. CASE UNCHANGED vars
  BY <1>6, HandlersFrame, AdaptersFrame DEF IInv, vars
<1>. QED
  BY <1>1, <1>2, <1>3, <1>4, <1>5, <1>6 DEF Next

-----------------------------------------------------------------------------
(* Theorems                                                                *)

\* The inductive invariant of the handlers, their references and the adapters.
THEOREM Invariance == Spec => []IInv
BY InitIInv, NextIInv, PTL DEF Spec

(***************************************************************************)
(* A handler's count is the number of references to its owner, but for     *)
(* what an owner assigned to a reference and a handler put into, or moved  *)
(* out of, an owner that has references set it off by.                     *)
(***************************************************************************)
THEOREM CountsReferences == Spec => []CountExact
<1>1. IInv => CountExact
  BY DEF IInv, HandlersInv
<1>. QED
  BY <1>1, Invariance, PTL

(***************************************************************************)
(* Every block has one owner, which returns it as it was allocated, and    *)
(* none is left without an owner.                                          *)
(***************************************************************************)
THEOREM StorageReturned == Spec => []StorageOwned
<1>1. IInv => StorageOwned
  BY DEF IInv, HandlersInv
<1>. QED
  BY <1>1, Invariance, PTL

\* An operation's transfers go where its adapter was made to send them.
THEOREM TransfersGoThere == Spec => []GoesToItsEndpoint
<1>1. IInv => GoesToItsEndpoint
  BY DEF IInv, RunningInv, FilledInv, GoesToItsEndpoint
<1>. QED
  BY <1>1, Invariance, PTL
=============================================================================
