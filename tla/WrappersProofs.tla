--------------------------- MODULE WrappersProofs ---------------------------
(***************************************************************************)
(* Ownership in the RAII wrappers, for any number of handles, interfaces   *)
(* and locals and for any of the error protocols: whatever is opened,      *)
(* moved, assigned, released and destroyed, in whatever order.             *)
(***************************************************************************)
EXTENDS Wrappers, TLAPS

\* The claims that interface objects have a share in.
Shared == claimed \cup doubled

\* libusb's claims are through open handles.
ClaimsInv == \A c \in Shared : c[1] \in opened

\* Interfaces and guards have an interface number, handles have none.
Numbered(o) == IF o.kind = "handle" THEN o.num = Null ELSE o.num \in Ifaces

NumbersInv == \A k \in Live : Numbered(local[k])

IInv == /\ TypeOK /\ NumbersInv /\ WithinHandle(local)
        /\ SoleHolders /\ HeldByOne /\ ClaimsInv

-----------------------------------------------------------------------------
(* Objects                                                                 *)

\* Acquired(o), of given open handles, claims and drivers.
Has(o, op, cl, dr) ==
    /\ o.kind = "handle" => o.devh \in op
    /\ o.kind = "interface" => <<o.devh, o.num>> \in cl
    /\ o.kind = "guard" => dr[o.num] = "detached"

\* An object around a claim that is among db.
Twice(o, db) == o.kind = "interface" /\ <<o.devh, o.num>> \in db

\* A step leaves the object o with what it has.
Stays(o) == /\ Has(o, opened', Shared', driver')
            /\ Twice(o, doubled) => Twice(o, doubled')

\* The object o is in charge of what is named.
Tags(o, kind, h, i) == o.kind = kind /\ o.devh = h /\ o.num = i

\* Whether some object of os is in charge of each thing that is held.
Covered(os, op, cl, dr) ==
    /\ \A h \in op : \E o \in os : Tags(o, "handle", h, Null)
    /\ \A c \in cl : \E o \in os : Tags(o, "interface", c[1], c[2])
    /\ \A i \in Ifaces : dr[i] = "detached" =>
        \E h \in Handles : \E o \in os : Tags(o, "guard", h, i)

Objects == {local[k] : k \in Live}
Others(k) == {local[j] : j \in Live \ {k}}

\* Nobody else works through the handle at k.
Alone(k) ==
    IsHandle(local, k) /\ Holds(local, k) =>
        \A j \in Live \ {k} :
            Holds(local, j) /\ ~IsHandle(local, j) => local[j].devh # local[k].devh

\* The invariant in these terms.
LEMMA Restated ==
    /\ SoleHolders <=>
        \A k \in Live : Holds(local, k) =>
            /\ Has(local[k], opened, Shared, driver)
            /\ Twice(local[k], doubled) \/ \A j \in Live \ {k} :
                   Holds(local, j) => ~Same(local[j], local[k])
    /\ HeldByOne <=> Covered(lost \cup Objects, opened, claimed, driver)
<1>1. ASSUME NEW k PROVE Doubled(local[k]) <=> Twice(local[k], doubled)
  BY DEF Doubled, Twice
<1>2. ASSUME NEW k
      PROVE  ~Twice(local[k], doubled) =>
                 (Has(local[k], opened, Shared, driver) <=> Acquired(local[k]))
  BY DEF Has, Acquired, Twice, Shared
<1>3. ASSUME NEW k PROVE Twice(local[k], doubled) => Has(local[k], opened, Shared, driver)
  BY DEF Has, Twice, Shared
<1>4. HeldByOne <=> Covered(lost \cup Objects, opened, claimed, driver)
  BY DEF HeldByOne, Owner, Covered, Tags, Objects
<1>. QED
  BY <1>1, <1>2, <1>3, <1>4 DEF SoleHolders

\* A local is an object; the slots behind the last are dead.
LEMMA LocalsTyped ==
    ASSUME TypeOK
    PROVE  /\ Live \subseteq Slots /\ top \in Nat
           /\ \A k \in Live : local[k] \in Object
           /\ \A k \in Slots : k \notin Live => local[k] = Dead
<1>1. top \in 0..MaxLocals /\ MaxLocals \in Nat
  BY MaxLocalsAssumption DEF TypeOK
<1>2. \A k \in Slots : local[k] \in Object \cup {Dead} /\ (local[k] = Dead <=> k > top)
  BY DEF TypeOK
<1>3. Live \subseteq Slots /\ \A k \in Slots : k \in Live <=> ~(k > top)
  BY <1>1 DEF Live, Slots
<1>. QED
  BY <1>1, <1>2, <1>3

\* Who holds something works through an open handle that a local before it has.
LEMMA ThroughOpen ==
    ASSUME IInv, NEW k \in Live, Holds(local, k)
    PROVE  /\ local[k].devh \in opened
           /\ \E j \in Live : j <= k /\ IsHandle(local, j) /\ local[j].devh = local[k].devh
<1>1. local[k] \in Object /\ k \in Slots
  BY LocalsTyped DEF IInv
<1>2. \E j \in Live : j <= k /\ IsHandle(local, j) /\ local[j].devh = local[k].devh
  <2>1. CASE IsHandle(local, k)
    BY <2>1 DEF Live
  <2>2. CASE ~IsHandle(local, k)
    <3>1. \E j \in 1..k - 1 : IsHandle(local, j) /\ local[j].devh = local[k].devh
      BY <1>1, <2>2 DEF IInv, WithinHandle
    <3>. QED
      BY <1>1, <3>1, LocalsTyped DEF IInv, Live, Slots
  <2>. QED
    BY <2>1, <2>2
<1>3. PICK j \in Live : IsHandle(local, j) /\ local[j].devh = local[k].devh
  BY <1>2
<1>4. local[j].devh \in opened
  BY <1>3 DEF IInv, SoleHolders, Acquired, Holds, IsHandle, Doubled
<1>. QED
  BY <1>2, <1>3, <1>4

\* Before the first call there is nothing to own.
LEMMA InitIInv == Init => IInv
<1>. SUFFICES ASSUME Init PROVE IInv
  OBVIOUS
<1>. USE DEF Init
<1>1. TypeOK
  BY MaxLocalsAssumption DEF TypeOK, Slots, Codes
<1>2. WithinHandle(local)
  BY DEF WithinHandle, Holds, Dead
<1>3. SoleHolders /\ HeldByOne /\ ClaimsInv /\ NumbersInv
  BY DEF SoleHolders, HeldByOne, ClaimsInv, Shared, NumbersInv, Live
<1>. QED
  BY <1>1, <1>2, <1>3 DEF IInv

\* The same, of the state that a step leads to.
LEMMA RestatedNext ==
    /\ SoleHolders' <=>
        \A k \in Live' : Holds(local', k) =>
            /\ Has(local'[k], opened', Shared', driver')
            /\ Twice(local'[k], doubled') \/ \A j \in Live' \ {k} :
                   Holds(local', j) => ~Same(local'[j], local'[k])
    /\ HeldByOne' <=> Covered(lost' \cup Objects', opened', claimed', driver')
<1>1. ASSUME NEW k PROVE (Doubled(local[k]))' <=> Twice(local'[k], doubled')
  BY DEF Doubled, Twice
<1>2. ASSUME NEW k
      PROVE  ~Twice(local'[k], doubled') =>
                 (Has(local'[k], opened', Shared', driver') <=> (Acquired(local[k]))')
  BY DEF Has, Acquired, Twice, Shared
<1>3. ASSUME NEW k PROVE Twice(local'[k], doubled') => Has(local'[k], opened', Shared', driver')
  BY DEF Has, Twice, Shared
<1>4. HeldByOne' <=> Covered(lost' \cup Objects', opened', claimed', driver')
  BY DEF HeldByOne, Owner, Covered, Tags, Objects, Live
<1>5. \A j, k : (Same(local[j], local[k]))' <=> Same(local'[j], local'[k])
  BY DEF Same
<1>6. \A k : (Holds(local, k))' <=> Holds(local', k)
  BY DEF Holds
<1>. QED
  BY <1>1, <1>2, <1>3, <1>4, <1>5, <1>6 DEF SoleHolders

-----------------------------------------------------------------------------
(* Letting go                                                              *)

\* What libusb, the kernel and the ghost are left with is well typed.
ResourcesOK ==
    /\ opened \subseteq Handles
    /\ claimed \subseteq Handles \X Ifaces
    /\ driver \in [Ifaces -> {"none", "bound", "detached"}]
    /\ lost \subseteq Object
    /\ doubled \subseteq Handles \X Ifaces
    /\ ClaimsInv

\* The ways in which a local lets go.
LEMMA LetGoWays ==
    ASSUME TypeOK, NEW o \in Object, LetGo(o)
    PROVE  \/ /\ o.devh = Null /\ LetGoCode(o) = "success"
              /\ UNCHANGED <<opened, claimed, driver, lost, doubled>>
           \/ /\ o.kind = "handle" /\ o.devh # Null /\ LetGoCode(o) = "success"
              /\ Close(o.devh)
           \/ /\ o.kind = "interface" /\ o.devh # Null /\ LetGoCode(o) = "success"
              /\ claimed' = claimed \ {<<o.devh, o.num>>}
              /\ UNCHANGED <<opened, driver, lost, doubled>>
           \/ /\ o.kind = "guard" /\ o.devh # Null /\ LetGoCode(o) = "success"
              /\ driver' = [driver EXCEPT ![o.num] = "bound"]
              /\ UNCHANGED <<opened, claimed, lost, doubled>>
           \/ /\ o.kind # "handle" /\ o.devh # Null /\ LetGoCode(o) # "success"
              /\ lost' = lost \cup {o} /\ UNCHANGED <<opened, claimed, driver, doubled>>
<1>1. CASE o.devh = Null
  BY <1>1 DEF LetGo, LetGoCode, ghostVars
<1>2. CASE o.kind = "handle" /\ o.devh # Null
  BY <1>2 DEF LetGo, LetGoCode
<1>3. CASE o.kind = "interface" /\ o.devh # Null
  <2>1. Release(o)
    BY <1>3 DEF LetGo
  <2>. QED
    BY <1>3, <2>1 DEF Release
<1>4. CASE o.kind = "guard" /\ o.devh # Null
  <2>1. Attach(o)
    BY <1>4 DEF LetGo
  <2>. QED
    BY <1>4, <2>1 DEF Attach
<1>. QED
  BY <1>1, <1>2, <1>3, <1>4 DEF Object

\* Closing a handle takes what was held through it, and nothing else.
LEMMA CloseWays ==
    ASSUME NEW h, Close(h), claimed \subseteq Handles \X Ifaces,
           doubled \subseteq Handles \X Ifaces
    PROVE  /\ opened' = opened \ {h} /\ driver' = driver
           /\ \A g, i : <<g, i>> \in claimed' <=> <<g, i>> \in claimed /\ g # h
           /\ claimed' \subseteq claimed /\ \A c \in claimed' : c[1] # h
           /\ doubled' \subseteq doubled /\ \A c \in doubled' : c[1] # h
           /\ \A g, i : <<g, i>> \in doubled' <=> <<g, i>> \in doubled /\ g # h
           /\ \A q \in lost' : q \in lost
           /\ \A q \in lost : q.kind # "interface" \/ q.devh # h => q \in lost'
BY DEF Close, Without

\* No two locals work through the same handle object, nor hold the same.
LEMMA Distinct ==
    ASSUME IInv, NEW k \in Live, NEW j \in Live \ {k}, Alone(k),
           Holds(local, k), Holds(local, j)
    PROVE  /\ local[k].kind = "handle" => local[j].devh # local[k].devh
           /\ local[k].kind = "interface" /\ local[j].kind = "interface" =>
                \/ <<local[j].devh, local[j].num>> # <<local[k].devh, local[k].num>>
                \/ Twice(local[k], doubled)
           /\ local[k].kind = "guard" /\ local[j].kind = "guard" =>
                local[j].num # local[k].num
<1>1. Twice(local[k], doubled) \/ ~Same(local[j], local[k])
  BY Restated DEF IInv
<1>2. Numbered(local[k]) /\ Numbered(local[j])
  BY DEF IInv, NumbersInv
<1>. QED
  BY <1>1, <1>2 DEF Same, Numbered, Alone, IsHandle, Twice

\* A local that lets go takes nothing from the others.
LEMMA LetGoKeeps ==
    ASSUME IInv, NEW k \in Live, Alone(k), LetGo(local[k])
    PROVE  \A j \in Live \ {k} : Holds(local, j) => Stays(local[j])
<1>. SUFFICES ASSUME NEW j \in Live \ {k}, Holds(local, j)
              PROVE  Stays(local[j])
  OBVIOUS
<1>. DEFINE o == local[k]
            q == local[j]
<1>1. q \in Object /\ o \in Object /\ Has(q, opened, Shared, driver) /\ Numbered(q)
  BY LocalsTyped, Restated DEF IInv, NumbersInv
<1>2. claimed \subseteq Handles \X Ifaces /\ driver \in [Ifaces -> {"none", "bound", "detached"}]
      /\ doubled \subseteq Handles \X Ifaces
  BY DEF IInv, TypeOK
<1>3. Holds(local, k) =>
        /\ o.kind = "handle" => q.devh # o.devh
        /\ o.kind = "interface" /\ q.kind = "interface" =>
             <<q.devh, q.num>> # <<o.devh, o.num>> \/ Twice(o, doubled)
        /\ o.kind = "guard" /\ q.kind = "guard" => q.num # o.num
  BY Distinct
<1>4. Holds(local, k) <=> o.devh # Null
  BY DEF Holds
<1>5. TypeOK /\ LetGo(o)
  BY DEF IInv
<1>. HIDE DEF o, q
<1>6. ASSUME o.kind = "handle", o.devh # Null, Close(o.devh)
      PROVE  Stays(q)
  <2>1. q.devh # o.devh
    BY <1>3, <1>4, <1>6
  <2>2. CASE q.kind = "interface"
    <3>1. <<q.devh, q.num>> \in Shared'
      BY <1>1, <1>2, <1>6, <2>1, <2>2, CloseWays DEF Has, Shared
    <3>2. Twice(q, doubled) => Twice(q, doubled')
      BY <1>2, <1>6, <2>1, CloseWays DEF Twice
    <3>. QED
      BY <2>2, <3>1, <3>2 DEF Has, Stays
  <2>3. CASE q.kind # "interface"
    BY <1>1, <1>6, <2>1, <2>3 DEF Close, Has, Object, Stays, Twice, Shared
  <2>. QED
    BY <2>2, <2>3
<1>7. ASSUME o.kind = "interface", o.devh # Null,
             claimed' = claimed \ {<<o.devh, o.num>>}, UNCHANGED <<opened, driver, doubled>>
      PROVE  Stays(q)
  BY <1>1, <1>3, <1>4, <1>7 DEF Has, Object, Stays, Twice, Shared
<1>8. ASSUME o.kind = "guard", o.devh # Null,
             driver' = [driver EXCEPT ![o.num] = "bound"], UNCHANGED <<opened, claimed, doubled>>
      PROVE  Stays(q)
  BY <1>1, <1>2, <1>3, <1>4, <1>8 DEF Has, Object, Numbered, Stays, Twice, Shared
<1>9. ASSUME UNCHANGED <<opened, claimed, driver, doubled>>
      PROVE  Stays(q)
  BY <1>1, <1>9 DEF Has, Stays, Twice, Shared
<1>10. Stays(q)
  BY <1>1, <1>5, <1>6, <1>7, <1>8, <1>9, LetGoWays
<1>. QED
  BY <1>10 DEF q

\* What nobody holds any more the local that let go did not hold either, or it
\* told its user.
LEMMA LetGoCovers ==
    ASSUME IInv, NEW k \in Live, Alone(k), LetGo(local[k])
    PROVE  Covered(lost' \cup Others(k), opened', claimed', driver')
<1>. DEFINE o == local[k]
            before == lost \cup Objects
            after == lost' \cup Others(k)
<1>1. o \in Object /\ Numbered(o) /\ TypeOK /\ Covered(before, opened, claimed, driver)
  BY LocalsTyped, Restated DEF IInv, NumbersInv
<1>2. Objects = Others(k) \cup {o}
  BY DEF Objects, Others
<1>3. claimed \subseteq Handles \X Ifaces /\ driver \in [Ifaces -> {"none", "bound", "detached"}]
      /\ doubled \subseteq Handles \X Ifaces
  BY DEF IInv, TypeOK
<1>4. LetGo(o)
  OBVIOUS
<1>. HIDE DEF o
<1>5. CASE o.devh = Null /\ UNCHANGED <<opened, claimed, driver, lost, doubled>>
  <2>1. opened \subseteq Handles /\ Null \notin Handles
    BY NullAssumption DEF IInv, TypeOK
  <2>2. \A q \in before : q \in after \/ q = o
    BY <1>2, <1>5
  <2>. HIDE DEF before, after
  <2>3. Covered(after, opened, claimed, driver)
    BY <1>1, <1>3, <1>5, <2>1, <2>2 DEF Covered, Tags
  <2>. QED
    BY <1>5, <2>3 DEF after
<1>6. CASE o.kind = "handle" /\ o.devh # Null /\ Close(o.devh)
  <2>1. \A q \in before : q \in after \/ (q.kind = "interface" /\ q.devh = o.devh) \/ q = o
    BY <1>2, <1>3, <1>6, CloseWays
  <2>. HIDE DEF before, after
  <2>2. Covered(after, opened', claimed', driver')
    BY <1>1, <1>3, <1>6, <2>1, CloseWays DEF Covered, Tags
  <2>. QED
    BY <2>2 DEF after
<1>7. CASE o.kind = "interface" /\ claimed' = claimed \ {<<o.devh, o.num>>}
           /\ UNCHANGED <<opened, driver, lost, doubled>>
  <2>1. \A q \in before : q \in after \/ q = o
    BY <1>2, <1>7
  <2>2. \A c \in claimed' : c \in claimed /\ c # <<o.devh, o.num>> /\ c = <<c[1], c[2]>>
    BY <1>3, <1>7
  <2>. HIDE DEF before, after
  <2>3. Covered(after, opened', claimed', driver')
    BY <1>1, <1>7, <2>1, <2>2 DEF Covered, Tags
  <2>. QED
    BY <2>3 DEF after
<1>8. CASE o.kind = "guard" /\ driver' = [driver EXCEPT ![o.num] = "bound"]
           /\ UNCHANGED <<opened, claimed, lost, doubled>>
  <2>1. \A q \in before : q \in after \/ q = o
    BY <1>2, <1>8
  <2>2. \A i \in Ifaces : driver'[i] = "detached" => driver[i] = "detached" /\ i # o.num
    BY <1>3, <1>8
  <2>. HIDE DEF before, after
  <2>3. Covered(after, opened', claimed', driver')
    BY <1>1, <1>8, <2>1, <2>2 DEF Covered, Tags
  <2>. QED
    BY <2>3 DEF after
<1>9. CASE lost' = lost \cup {o} /\ UNCHANGED <<opened, claimed, driver, doubled>>
  <2>1. before = after
    BY <1>2, <1>9
  <2>. QED
    BY <1>1, <1>9, <2>1
<1>. QED
  BY <1>1, <1>4, <1>5, <1>6, <1>7, <1>8, <1>9, LetGoWays

\* Its types are kept, and whether the device is plugged.
LEMMA LetGoTyped ==
    ASSUME IInv, NEW k \in Live, LetGo(local[k])
    PROVE  ResourcesOK' /\ plugged' = plugged
<1>. DEFINE o == local[k]
<1>1. o \in Object /\ Numbered(o) /\ TypeOK /\ ResourcesOK
  BY LocalsTyped DEF IInv, NumbersInv, TypeOK, ResourcesOK
<1>2. plugged' = plugged /\ LetGo(o)
  BY DEF LetGo
<1>. HIDE DEF o
<1>3. CASE o.kind = "handle" /\ Close(o.devh)
  <2>1. claimed' \subseteq claimed /\ lost' \subseteq lost /\ opened' \subseteq opened
        /\ doubled' \subseteq doubled
        /\ driver' = driver /\ \A c \in Shared' : c \in Shared /\ c[1] # o.devh
    BY <1>1, <1>3, CloseWays DEF ResourcesOK, Shared
  <2>2. opened' = opened \ {o.devh}
    BY <1>3 DEF Close
  <2>. QED
    BY <1>1, <1>2, <2>1, <2>2 DEF ResourcesOK, ClaimsInv
<1>4. CASE ~(o.kind = "handle" /\ Close(o.devh))
  BY <1>1, <1>2, <1>4, LetGoWays DEF ResourcesOK, ClaimsInv, Shared, Numbered
<1>. QED
  BY <1>2, <1>3, <1>4

-----------------------------------------------------------------------------
(* Steps                                                                   *)

LocalsOK ==
    /\ top \in 0..MaxLocals
    /\ local \in [Slots -> Object \cup {Dead}]
    /\ \A k \in Slots : local[k] = Dead <=> k > top

ReportOK ==
    /\ mode \in {"running", "unwinding", "terminated"}
    /\ ec \in Codes
    /\ returned \in [has : BOOLEAN, error : Codes]

\* The parts of the type invariant, and how they make it up again.
LEMMA TypeParts ==
    /\ IInv => LocalsOK /\ ReportOK /\ ResourcesOK /\ plugged \in BOOLEAN
    /\ LocalsOK' /\ ReportOK' /\ ResourcesOK' /\ plugged' \in BOOLEAN => TypeOK' /\ ClaimsInv'
BY DEF IInv, TypeOK, LocalsOK, ReportOK, ResourcesOK

\* A null handle is no handle.
LEMMA NullHolds == Null \notin Handles
BY NullAssumption

\* A call reports the value or the error, in well-typed variables, and does not
\* terminate the program.
LEMMA Reports ==
    ASSUME NEW p \in Protocols, NEW code \in Codes, Report(p, code), ReportOK
    PROVE  /\ ReportOK' /\ (returned'.has <=> returned'.error = "success")
           /\ mode' = "terminated" => mode = "terminated"
<1>1. p \in {"exception", "optional", "expected", "results"}
  BY ProtocolsAssumption
<1>2. \/ AsException(code) \/ AsOptional(code) \/ AsExpected(code)
  BY <1>1 DEF Report, AsResults
<1>3. returned' = [has |-> code = "success", error |-> code]
  BY <1>2 DEF AsException, AsOptional, AsExpected
<1>4. returned' \in [has : BOOLEAN, error : Codes] /\ (returned'.has <=> returned'.error = "success")
  <2>1. (code = "success") \in BOOLEAN
    OBVIOUS
  <2>. QED
    BY <1>3, <2>1
<1>5. mode' \in {mode, "unwinding"} /\ ec' \in Codes
  BY <1>2 DEF AsException, AsOptional, AsExpected, ReportOK
<1>. QED
  BY <1>4, <1>5 DEF ReportOK

\* Holding more does not uncover anything.
LEMMA CoveredMore ==
    ASSUME NEW A, NEW B, NEW op, NEW cl, NEW dr, Covered(A, op, cl, dr),
           op \subseteq Handles, cl \subseteq Handles \X Ifaces,
           \A q \in A : q.devh \in Handles =>
               \E r \in B : r.kind = q.kind /\ r.devh = q.devh /\ r.num = q.num
    PROVE  Covered(B, op, cl, dr)
<1>1. \A h \in op : \E o \in B : Tags(o, "handle", h, Null)
  BY DEF Covered, Tags
<1>2. ASSUME NEW c \in cl PROVE \E o \in B : Tags(o, "interface", c[1], c[2])
  <2>1. c[1] \in Handles
    OBVIOUS
  <2>. QED
    BY <2>1 DEF Covered, Tags
<1>3. \A i \in Ifaces : dr[i] = "detached" =>
        \E h \in Handles : \E o \in B : Tags(o, "guard", h, i)
  BY DEF Covered, Tags
<1>. QED
  BY <1>1, <1>2, <1>3 DEF Covered

(***************************************************************************)
(* A step after which every local that holds something is one that held it *)
(* before, possibly at another place (f), and still has it, and after      *)
(* which nothing is without an owner, keeps the invariant.                 *)
(***************************************************************************)
LEMMA Settle ==
    ASSUME IInv, LocalsOK', ReportOK', ResourcesOK', plugged' \in BOOLEAN,
           NumbersInv', WithinHandle(local'),
           Covered(lost' \cup Objects', opened', claimed', driver'), NEW f,
           \A k \in Live' : Holds(local', k) =>
               /\ f[k] \in Live /\ Holds(local, f[k])
               /\ local'[k].kind = local[f[k]].kind
               /\ local'[k].devh = local[f[k]].devh
               /\ local'[k].num = local[f[k]].num
               /\ Stays(local[f[k]]),
           \A j, k \in Live' : Holds(local', j) /\ Holds(local', k) /\ f[j] = f[k] => j = k
    PROVE  IInv'
<1>1. TypeOK' /\ ClaimsInv'
  BY TypeParts
<1>2. ASSUME NEW k \in Live', Holds(local', k)
      PROVE  /\ Has(local'[k], opened', Shared', driver')
             /\ Twice(local'[k], doubled') \/ \A j \in Live' \ {k} :
                    Holds(local', j) => ~Same(local'[j], local'[k])
  <2>1. Has(local'[k], opened', Shared', driver')
    BY <1>2 DEF Has, Stays
  <2>2. ASSUME ~Twice(local'[k], doubled'), NEW j \in Live' \ {k}, Holds(local', j)
        PROVE  ~Same(local'[j], local'[k])
    <3>1. f[j] # f[k] /\ f[j] \in Live /\ f[k] \in Live
      BY <1>2, <2>2
    <3>2. ~Twice(local[f[k]], doubled)
      BY <1>2, <2>2 DEF Stays, Twice
    <3>3. ~Same(local[f[j]], local[f[k]])
      BY <1>2, <2>2, <3>1, <3>2, Restated DEF IInv
    <3>. QED
      BY <1>2, <2>2, <3>3 DEF Same
  <2>. QED
    BY <2>1, <2>2
<1>3. SoleHolders' /\ HeldByOne'
  BY <1>2, RestatedNext
<1>. QED
  BY <1>1, <1>3 DEF IInv, WithinHandle

\* A step that touches neither the locals nor what is held for them.
LEMMA Elsewhere ==
    ASSUME IInv, ReportOK', plugged' \in BOOLEAN,
           UNCHANGED <<localVars, opened, claimed, driver, lost, doubled>>
    PROVE  IInv'
<1>. DEFINE f == [k \in Live |-> k]
<1>1. LocalsOK' /\ ResourcesOK'
  BY TypeParts DEF LocalsOK, ResourcesOK, ClaimsInv, Shared, localVars
<1>2. NumbersInv' /\ WithinHandle(local') /\ Objects' = Objects /\ Live' = Live /\ local' = local
  BY DEF IInv, NumbersInv, Live, Objects, localVars
<1>3. Covered(lost' \cup Objects', opened', claimed', driver')
  BY <1>2, Restated DEF IInv
<1>4. \A k \in Live' : Holds(local', k) =>
        f[k] = k /\ k \in Live /\ Holds(local, k) /\ Stays(local[k])
  BY <1>2, Restated DEF IInv, Stays, Shared
<1>. HIDE DEF f
<1>. QED
  BY <1>1, <1>2, <1>3, <1>4, Settle

\* A new local at the end, with what it got.
LEMMA Gain ==
    ASSUME IInv, ReportOK', ResourcesOK', UNCHANGED <<plugged, lost>>,
           top < MaxLocals, NEW o \in Object, o.devh # Null, Numbered(o),
           top' = top + 1, local' = [local EXCEPT ![top + 1] = o],
           o.kind # "handle" =>
               \E j \in Live : IsHandle(local, j) /\ local[j].devh = o.devh,
           Has(o, opened', Shared', driver'),
           \A j \in Live : Holds(local, j) =>
               Stays(local[j]) /\ (Twice(o, doubled') \/ ~Same(local[j], o)),
           Covered(lost \cup Objects \cup {o}, opened', claimed', driver')
    PROVE  IInv'
<1>. DEFINE n == top + 1
<1>1. /\ n \in Slots /\ n \notin Live /\ Live' = Live \cup {n} /\ Live \subseteq Slots
      /\ \A k \in Live : k < n
  BY LocalsTyped, MaxLocalsAssumption DEF IInv, Live, Slots
<1>2. /\ local' \in [Slots -> Object \cup {Dead}] /\ local'[n] = o
      /\ \A k \in Slots : k # n => local'[k] = local[k]
  BY <1>1 DEF IInv, TypeOK
<1>3. o # Dead
  BY DEF Object, Dead
<1>4. LocalsOK'
  <2>1. \A k \in Slots : local'[k] = Dead <=> k > n
    BY <1>1, <1>2, <1>3, LocalsTyped DEF IInv, TypeOK, Slots
  <2>. QED
    BY <1>2, <2>1, LocalsTyped, MaxLocalsAssumption DEF LocalsOK, IInv
<1>5. NumbersInv'
  BY <1>1, <1>2 DEF IInv, NumbersInv
<1>6. WithinHandle(local')
  <2>. SUFFICES ASSUME NEW k \in Slots, Holds(local', k), ~IsHandle(local', k)
                PROVE  \E j \in 1..k - 1 : IsHandle(local', j) /\ local'[j].devh = local'[k].devh
    BY DEF WithinHandle
  <2>1. CASE k = n
    <3>1. PICK j \in Live : IsHandle(local, j) /\ local[j].devh = o.devh
      BY <1>2, <2>1 DEF IsHandle
    <3>. QED
      BY <1>1, <1>2, <2>1, <3>1 DEF IsHandle, Live, Slots
  <2>2. CASE k # n
    <3>1. Holds(local, k) /\ ~IsHandle(local, k) /\ local'[k] = local[k]
      BY <1>2, <2>2 DEF Holds, IsHandle
    <3>2. k \in Live
      BY <3>1, LocalsTyped DEF IInv, Holds, Dead
    <3>3. PICK j \in 1..k - 1 : IsHandle(local, j) /\ local[j].devh = local[k].devh
      BY <3>1 DEF IInv, WithinHandle
    <3>4. j \in Slots /\ j # n
      BY <1>1, <3>2 DEF Live, Slots
    <3>. QED
      BY <1>2, <3>1, <3>3, <3>4 DEF IsHandle
  <2>. QED
    BY <2>1, <2>2
<1>7. ASSUME NEW k \in Live', Holds(local', k)
      PROVE  /\ Has(local'[k], opened', Shared', driver')
             /\ Twice(local'[k], doubled') \/ \A j \in Live' \ {k} :
                    Holds(local', j) => ~Same(local'[j], local'[k])
  <2>1. Has(local'[k], opened', Shared', driver')
    BY <1>1, <1>2, <1>7 DEF Holds, Stays
  <2>2. ASSUME ~Twice(local'[k], doubled'), NEW j \in Live' \ {k}, Holds(local', j)
        PROVE  ~Same(local'[j], local'[k])
    <3>1. CASE k = n
      BY <1>1, <1>2, <2>2, <3>1 DEF Holds
    <3>2. CASE j = n
      <4>1. local'[k] = local[k] /\ (Twice(o, doubled') \/ ~Same(local[k], o))
        BY <1>1, <1>2, <1>7, <2>2, <3>2 DEF Holds
      <4>. QED
        BY <1>2, <1>1, <2>2, <3>2, <4>1 DEF Same, Twice
    <3>3. CASE k # n /\ j # n
      <4>1. /\ local'[k] = local[k] /\ local'[j] = local[j] /\ k \in Live /\ j \in Live
            /\ Holds(local, k) /\ Holds(local, j)
        BY <1>1, <1>2, <1>7, <2>2, <3>3 DEF Holds
      <4>2. ~Twice(local[k], doubled)
        BY <2>2, <4>1 DEF Stays, Twice
      <4>. QED
        BY <2>2, <4>1, <4>2, Restated DEF IInv
    <3>. QED
      BY <3>1, <3>2, <3>3
  <2>. QED
    BY <2>1, <2>2
<1>8. Objects' = Objects \cup {o}
  BY <1>1, <1>2 DEF Objects
<1>9. SoleHolders' /\ HeldByOne'
  <2>1. lost' \cup Objects' = lost \cup Objects \cup {o}
    BY <1>8
  <2>. QED
    BY <1>7, <2>1, RestatedNext
<1>10. TypeOK' /\ ClaimsInv'
  BY <1>4, TypeParts
<1>. QED
  BY <1>5, <1>6, <1>9, <1>10 DEF IInv

\* What a call that acquires something returns, when it succeeds and when not.
LEMMA Returns ==
    ASSUME IInv, NEW p \in Protocols, NEW code \in Codes, NEW kind, NEW h, NEW i,
           Return(p, code, kind, h, i)
    PROVE  /\ ReportOK' /\ (returned'.has <=> returned'.error = "success")
           /\ mode' = "terminated" => mode = "terminated"
           /\ code = "success" =>
                /\ local' = [local EXCEPT ![top + 1] =
                       [kind |-> kind, devh |-> h, num |-> i, boxed |-> p # "exception"]]
                /\ top' = top + 1
           /\ code # "success" => UNCHANGED localVars
BY Reports, TypeParts DEF Return

\* open_device owns a new handle or reports the error of libusb_open.
LEMMA OpenDeviceReports ==
    ASSUME IInv, NEW p \in Protocols, NEW h \in Handles, OpenDevice(p, h)
    PROVE  /\ IInv' /\ (returned'.has <=> returned'.error = "success")
           /\ mode' = "terminated" => mode = "terminated"
<1>1. PICK code \in OpenCode, byRef \in BOOLEAN :
        /\ Return(p, IF byRef \/ code = "success" THEN code ELSE "unknown", "handle", h, Null)
        /\ opened' = IF code = "success" THEN opened \cup {h} ELSE opened
  BY DEF OpenDevice
<1>. DEFINE res == IF byRef \/ code = "success" THEN code ELSE "unknown"
<1>2. res \in Codes /\ (res = "success" <=> code = "success")
  BY DEF OpenCode, Codes
<1>3. UNCHANGED <<plugged, claimed, driver, lost, doubled>> /\ top < MaxLocals /\ h \notin opened
  BY DEF OpenDevice, Room, ghostVars
<1>4. Return(p, res, "handle", h, Null)
  BY <1>1
<1>. HIDE DEF res
<1>5. ReportOK' /\ (returned'.has <=> returned'.error = "success")
      /\ (mode' = "terminated" => mode = "terminated")
  BY <1>2, <1>4, Returns
<1>6. CASE code # "success"
  <2>1. UNCHANGED localVars /\ opened' = opened
    BY <1>1, <1>2, <1>4, <1>6, Returns
  <2>. QED
    BY <1>3, <1>5, <2>1, TypeParts, Elsewhere
<1>7. CASE code = "success"
  <2>. DEFINE o == [kind |-> "handle", devh |-> h, num |-> Null, boxed |-> p # "exception"]
  <2>1. /\ local' = [local EXCEPT ![top + 1] = o] /\ top' = top + 1
        /\ opened' = opened \cup {h}
    BY <1>1, <1>2, <1>4, <1>7, Returns
  <2>2. o \in Object /\ o.kind = "handle" /\ o.devh = h /\ o.num = Null /\ h # Null
    BY NullHolds DEF Object
  <2>. HIDE DEF o
  <2>3. ResourcesOK'
    BY <1>3, <2>1, TypeParts DEF ResourcesOK, ClaimsInv, Shared
  <2>4. \A j \in Live : Holds(local, j) =>
          Stays(local[j]) /\ (Twice(o, doubled') \/ ~Same(local[j], o))
    <3>. SUFFICES ASSUME NEW j \in Live, Holds(local, j)
                  PROVE  Stays(local[j]) /\ (Twice(o, doubled') \/ ~Same(local[j], o))
      OBVIOUS
    <3>1. Has(local[j], opened, Shared, driver) /\ local[j] \in Object
      BY Restated, LocalsTyped DEF IInv
    <3>2. Stays(local[j])
      BY <1>3, <2>1, <3>1 DEF Has, Object, Stays, Twice, Shared
    <3>3. ~Same(local[j], o)
      BY <1>3, <2>2, <3>1 DEF Same, Has
    <3>. QED
      BY <3>2, <3>3
  <2>5. Covered(lost \cup Objects \cup {o}, opened', claimed', driver')
    <3>1. Covered(lost \cup Objects, opened, claimed, driver)
      BY Restated DEF IInv
    <3>. DEFINE os == lost \cup Objects
    <3>. HIDE DEF os
    <3>2. Covered(os \cup {o}, opened', claimed', driver')
      BY <1>3, <2>1, <2>2, <3>1 DEF Covered, Tags, os
    <3>. QED
      BY <3>2 DEF os
  <2>6. Has(o, opened', Shared', driver') /\ Numbered(o)
    BY <2>1, <2>2 DEF Has, Numbered, Shared
  <2>. QED
    BY <1>3, <1>5, <2>1, <2>2, <2>3, <2>4, <2>5, <2>6, Gain
<1>. QED
  BY <1>5, <1>6, <1>7

\* claim_interface likewise, also for a claim that its handle has already.
LEMMA ClaimInterfaceReports ==
    ASSUME IInv, NEW p \in Protocols, NEW k \in Live, NEW i \in Ifaces, ClaimInterface(p, k, i)
    PROVE  /\ IInv' /\ (returned'.has <=> returned'.error = "success")
           /\ mode' = "terminated" => mode = "terminated"
<1>. DEFINE h == DeviceHandleOf(k)
            code == ClaimCode(h, i)
<1>1. /\ top < MaxLocals /\ Holds(local, k) /\ Return(p, code, "interface", h, i)
      /\ doubled' = IF code = "success" THEN doubled \cup ({<<h, i>>} \cap claimed) ELSE doubled
      /\ claimed' = IF code = "success" THEN claimed \cup {<<h, i>>} ELSE claimed
      /\ UNCHANGED <<plugged, opened, driver, lost>>
  BY DEF ClaimInterface, Room
<1>2. code \in Codes
  BY DEF ClaimCode, Codes
<1>3. h \in opened /\ h \in Handles /\ h # Null
      /\ \E j \in Live : IsHandle(local, j) /\ local[j].devh = h
  <2>1. h \in opened /\ \E j \in Live : IsHandle(local, j) /\ local[j].devh = h
    BY <1>1, ThroughOpen DEF DeviceHandleOf
  <2>. QED
    BY <2>1, NullHolds DEF IInv, TypeOK
<1>. HIDE DEF h, code
<1>4. ReportOK' /\ (returned'.has <=> returned'.error = "success")
      /\ (mode' = "terminated" => mode = "terminated")
  BY <1>1, <1>2, Returns
<1>5. CASE code # "success"
  <2>1. UNCHANGED localVars /\ claimed' = claimed /\ doubled' = doubled
    BY <1>1, <1>2, <1>5, Returns
  <2>. QED
    BY <1>1, <1>4, <2>1, TypeParts, Elsewhere
<1>6. CASE code = "success"
  <2>. DEFINE o == [kind |-> "interface", devh |-> h, num |-> i, boxed |-> p # "exception"]
  <2>1. /\ local' = [local EXCEPT ![top + 1] = o] /\ top' = top + 1
        /\ claimed' = claimed \cup {<<h, i>>}
        /\ doubled' = doubled \cup ({<<h, i>>} \cap claimed)
    BY <1>1, <1>2, <1>6, Returns
  <2>2. o \in Object /\ o.kind = "interface" /\ o.devh = h /\ o.num = i
    BY <1>3 DEF Object
  <2>. HIDE DEF o
  <2>3. ResourcesOK'
    BY <1>1, <1>3, <2>1, TypeParts DEF ResourcesOK, ClaimsInv, Shared
  <2>4. \A j \in Live : Holds(local, j) =>
          Stays(local[j]) /\ (Twice(o, doubled') \/ ~Same(local[j], o))
    <3>. SUFFICES ASSUME NEW j \in Live, Holds(local, j)
                  PROVE  Stays(local[j]) /\ (Twice(o, doubled') \/ ~Same(local[j], o))
      OBVIOUS
    <3>1. Has(local[j], opened, Shared, driver) /\ local[j] \in Object
      BY Restated, LocalsTyped DEF IInv
    <3>2. Stays(local[j])
      BY <1>1, <2>1, <3>1 DEF Has, Object, Stays, Twice, Shared
    <3>3. ASSUME Same(local[j], o) PROVE Twice(o, doubled')
      <4>1. local[j].kind = "interface" /\ local[j].devh = h /\ local[j].num = i
        BY <2>2, <3>3 DEF Same
      <4>2. <<h, i>> \in Shared
        BY <3>1, <4>1 DEF Has
      <4>. QED
        BY <2>1, <2>2, <4>2 DEF Shared, Twice
    <3>. QED
      BY <3>2, <3>3
  <2>5. Covered(lost \cup Objects \cup {o}, opened', claimed', driver')
    <3>1. Covered(lost \cup Objects, opened, claimed, driver)
      BY Restated DEF IInv
    <3>. DEFINE os == lost \cup Objects
    <3>. HIDE DEF os
    <3>2. Covered(os \cup {o}, opened', claimed', driver')
      BY <1>1, <2>1, <2>2, <3>1 DEF Covered, Tags, os
    <3>. QED
      BY <3>2 DEF os
  <2>6. Has(o, opened', Shared', driver') /\ Numbered(o)
    BY <2>1, <2>2 DEF Has, Numbered, Shared
  <2>. QED
    BY <1>1, <1>3, <1>4, <2>1, <2>2, <2>3, <2>4, <2>5, <2>6, Gain
<1>. QED
  BY <1>4, <1>5, <1>6

\* detach_driver likewise, for a driver that is bound.
LEMMA DetachDriverReports ==
    ASSUME IInv, NEW p \in Protocols, NEW k \in Live, NEW i \in Ifaces, DetachDriver(p, k, i)
    PROVE  /\ IInv' /\ (returned'.has <=> returned'.error = "success")
           /\ mode' = "terminated" => mode = "terminated"
<1>. DEFINE h == DeviceHandleOf(k)
            code == DetachCode(i)
<1>1. /\ top < MaxLocals /\ Holds(local, k)
      /\ Return(p, code, "guard", h, i)
      /\ driver' = IF code = "success" THEN [driver EXCEPT ![i] = "detached"] ELSE driver
      /\ UNCHANGED <<plugged, opened, claimed, lost, doubled>>
  BY DEF DetachDriver, Room, ghostVars
<1>2. code \in Codes /\ (code = "success" => driver[i] = "bound")
  BY DEF DetachCode, Codes
<1>3. h \in Handles /\ h # Null /\ \E j \in Live : IsHandle(local, j) /\ local[j].devh = h
  <2>1. h \in opened /\ \E j \in Live : IsHandle(local, j) /\ local[j].devh = h
    BY <1>1, ThroughOpen DEF DeviceHandleOf
  <2>. QED
    BY <2>1, NullHolds DEF IInv, TypeOK
<1>. HIDE DEF h, code
<1>4. ReportOK' /\ (returned'.has <=> returned'.error = "success")
      /\ (mode' = "terminated" => mode = "terminated")
  BY <1>1, <1>2, Returns
<1>5. CASE code # "success"
  <2>1. UNCHANGED localVars /\ driver' = driver
    BY <1>1, <1>2, <1>5, Returns
  <2>. QED
    BY <1>1, <1>4, <2>1, TypeParts, Elsewhere
<1>6. CASE code = "success"
  <2>. DEFINE o == [kind |-> "guard", devh |-> h, num |-> i, boxed |-> p # "exception"]
  <2>1. /\ local' = [local EXCEPT ![top + 1] = o] /\ top' = top + 1
        /\ driver' = [driver EXCEPT ![i] = "detached"] /\ driver[i] = "bound"
    BY <1>1, <1>2, <1>6, Returns
  <2>2. o \in Object /\ o.kind = "guard" /\ o.devh = h /\ o.num = i
    BY <1>3 DEF Object
  <2>. HIDE DEF o
  <2>3. ResourcesOK' /\ \A m \in Ifaces : driver'[m] = IF m = i THEN "detached" ELSE driver[m]
    BY <1>1, <2>1, TypeParts DEF ResourcesOK, ClaimsInv, Shared
  <2>4. \A j \in Live : Holds(local, j) =>
          Stays(local[j]) /\ (Twice(o, doubled') \/ ~Same(local[j], o))
    <3>. SUFFICES ASSUME NEW j \in Live, Holds(local, j)
                  PROVE  Stays(local[j]) /\ (Twice(o, doubled') \/ ~Same(local[j], o))
      OBVIOUS
    <3>1. Has(local[j], opened, Shared, driver) /\ Numbered(local[j]) /\ local[j] \in Object
      BY Restated, LocalsTyped DEF IInv, NumbersInv
    <3>2. Stays(local[j])
      BY <1>1, <2>3, <3>1 DEF Has, Object, Numbered, Stays, Twice, Shared
    <3>3. ~Same(local[j], o)
      BY <2>1, <2>2, <3>1 DEF Same, Has
    <3>. QED
      BY <3>2, <3>3
  <2>5. Covered(lost \cup Objects \cup {o}, opened', claimed', driver')
    <3>1. Covered(lost \cup Objects, opened, claimed, driver)
      BY Restated DEF IInv
    <3>. DEFINE os == lost \cup Objects
    <3>. HIDE DEF os
    <3>2. Covered(os \cup {o}, opened', claimed', driver')
      BY <1>1, <1>3, <2>2, <2>3, <3>1 DEF Covered, Tags, os
    <3>. QED
      BY <3>2 DEF os
  <2>6. Has(o, opened', Shared', driver') /\ Numbered(o)
    BY <2>2, <2>3 DEF Has, Numbered, Shared
  <2>. QED
    BY <1>1, <1>3, <1>4, <2>1, <2>2, <2>3, <2>4, <2>5, <2>6, Gain
<1>. QED
  BY <1>4, <1>5, <1>6

\* Two locals do not hold the same handle.
LEMMA HandlesDiffer ==
    ASSUME IInv, NEW j \in Live, NEW k \in Live, IsHandle(local, j), IsHandle(local, k),
           Holds(local, j), local[j].devh = local[k].devh
    PROVE  j = k
<1>1. Holds(local, k) /\ local[j].num = local[k].num
  BY DEF Holds, IInv, NumbersInv, Numbered, IsHandle
<1>2. j # k => ~Same(local[j], local[k])
  BY <1>1 DEF IInv, SoleHolders, Doubled, IsHandle
<1>. QED
  BY <1>1, <1>2 DEF Same, IsHandle

(***************************************************************************)
(* When what the program keeps in s is within its handles, and the handles *)
(* of s are among the locals other than k, nobody works through k.         *)
(***************************************************************************)
LEMMA NobodyThrough ==
    ASSUME IInv, NEW k \in Live, NEW s, WithinHandle(s),
           \A j \in Live \ {k} : Holds(local, j) /\ ~IsHandle(local, j) => s[j] = local[j],
           \A i \in Slots : IsHandle(s, i) /\ Holds(s, i) =>
               \E m \in Live \ {k} : IsHandle(local, m) /\ local[m].devh = s[i].devh
    PROVE  Alone(k)
<1>. SUFFICES ASSUME IsHandle(local, k), NEW j \in Live \ {k}, Holds(local, j),
                     ~IsHandle(local, j), local[j].devh = local[k].devh
              PROVE  FALSE
  BY DEF Alone
<1>1. s[j] = local[j] /\ j \in Slots /\ k \in Slots
  BY LocalsTyped DEF IInv
<1>2. PICK i \in 1..j - 1 : IsHandle(s, i) /\ s[i].devh = s[j].devh
  BY <1>1 DEF WithinHandle, Holds, IsHandle
<1>3. i \in Slots /\ Holds(s, i)
  BY <1>1, <1>2, MaxLocalsAssumption DEF Slots, Holds
<1>4. PICK m \in Live \ {k} : IsHandle(local, m) /\ local[m].devh = s[i].devh
  BY <1>2, <1>3
<1>5. local[m].devh = local[k].devh /\ Holds(local, m)
  BY <1>1, <1>2, <1>4 DEF Holds
<1>. QED
  BY <1>4, <1>5, HandlesDiffer

\* Letting go reports one of libusb's codes.
LEMMA LetGoCodes == ASSUME NEW o PROVE LetGoCode(o) \in Codes
BY DEF LetGoCode, ReleaseCode, AttachCode, Codes

\* close(), release() and attach() give up what their object owns.
LEMMA LetGoOfKeeps ==
    ASSUME IInv, NEW k \in Live, LetGoOf(k)
    PROVE  IInv'
<1>. DEFINE f == [j \in Live |-> j]
            s == local'
<1>1. /\ LetGo(local[k]) /\ local' = [local EXCEPT ![k].devh = Null] /\ WithinHandle(local')
      /\ UNCHANGED <<top, mode, returned>>
      /\ ec' = IF LetGoCode(local[k]) = "success" THEN ec ELSE LetGoCode(local[k])
  BY DEF LetGoOf
<1>2. /\ k \in Slots /\ local[k] \in Object /\ Live' = Live /\ Live \subseteq Slots
      /\ \A j \in Slots : j # k => local'[j] = local[j]
      /\ local'[k] = [local[k] EXCEPT !.devh = Null]
      /\ local' \in [Slots -> Object \cup {Dead}]
  <2>1. k \in Slots /\ local[k] \in Object /\ Live' = Live /\ Live \subseteq Slots
        /\ local \in [Slots -> Object \cup {Dead}]
    BY <1>1, LocalsTyped DEF IInv, Live, TypeOK
  <2>2. [local[k] EXCEPT !.devh = Null] \in Object
    BY <2>1 DEF Object
  <2>. QED
    BY <1>1, <2>1, <2>2
<1>3. local'[k] \in Object /\ local'[k].devh = Null /\ local'[k].kind = local[k].kind
      /\ local'[k].num = local[k].num /\ local'[k] # Dead
  BY <1>2 DEF Object, Dead
<1>4. Alone(k)
  <2>1. \A i \in Slots : IsHandle(s, i) /\ Holds(s, i) =>
          \E m \in Live \ {k} : IsHandle(local, m) /\ local[m].devh = s[i].devh
    <3>. SUFFICES ASSUME NEW i \in Slots, IsHandle(s, i), Holds(s, i)
                  PROVE  i \in Live \ {k} /\ IsHandle(local, i) /\ local[i].devh = s[i].devh
      OBVIOUS
    <3>1. i # k /\ local'[i] = local[i]
      BY <1>2, <1>3 DEF Holds
    <3>2. i \in Live
      BY <3>1, LocalsTyped DEF IInv, IsHandle, Dead
    <3>. QED
      BY <3>1, <3>2 DEF IsHandle
  <2>2. \A j \in Live \ {k} : s[j] = local[j]
    BY <1>2
  <2>3. WithinHandle(s)
    BY <1>1
  <2>. HIDE DEF s
  <2>. QED
    BY <2>1, <2>2, <2>3, NobodyThrough
<1>5. LocalsOK'
  <2>1. \A j \in Slots : local'[j] = Dead <=> j > top
    <3>1. ~(k > top)
      BY <1>2, LocalsTyped DEF IInv, Live
    <3>. QED
      BY <1>2, <1>3, <3>1 DEF IInv, TypeOK
  <2>. QED
    BY <1>1, <1>2, <2>1 DEF LocalsOK, IInv, TypeOK
<1>6. ReportOK' /\ NumbersInv'
  <2>1. ReportOK'
    BY <1>1, LetGoCodes DEF IInv, TypeOK, ReportOK
  <2>2. NumbersInv'
    <3>1. k \in Live /\ \A j \in Live : Numbered(local[j])
      BY DEF IInv, NumbersInv
    <3>2. Numbered(local'[k])
      BY <1>3, <3>1 DEF Numbered
    <3>3. Live' = Live /\ \A j \in Live \ {k} : local'[j] = local[j]
      BY <1>2
    <3>. QED
      BY <3>1, <3>2, <3>3 DEF NumbersInv
  <2>. QED
    BY <2>1, <2>2
<1>7. ResourcesOK' /\ plugged' \in BOOLEAN
  BY <1>1, LetGoTyped DEF IInv, TypeOK
<1>8. Covered(lost' \cup Objects', opened', claimed', driver')
  <2>1. Covered(lost' \cup Others(k), opened', claimed', driver')
    BY <1>1, <1>4, LetGoCovers
  <2>2. Others(k) \subseteq Objects'
    BY <1>2 DEF Others, Objects
  <2>. QED
    BY <1>7, <2>1, <2>2, CoveredMore DEF ResourcesOK
<1>9. \A j \in Live' : Holds(local', j) =>
        f[j] = j /\ j \in Live /\ Holds(local, j) /\ local'[j] = local[j]
        /\ Stays(local[j])
  <2>1. \A j \in Live \ {k} : Holds(local, j) => Stays(local[j])
    BY <1>1, <1>4, LetGoKeeps
  <2>. QED
    BY <1>2, <1>3, <2>1 DEF Holds
<1>10. WithinHandle(local')
  BY <1>1
<1>. HIDE DEF f, s
<1>. QED
  BY <1>5, <1>6, <1>7, <1>8, <1>9, <1>10, Settle

\* A destructor or an assignment that throws ends the program only where it must not.
LEMMA Throwing ==
    ASSUME NEW code, NEW boxed, Throws(code, boxed), ReportOK
    PROVE  /\ ReportOK' /\ UNCHANGED returned
           /\ mode' = "terminated" /\ mode # "terminated" => code # "success"
           /\ mode' = "terminated" /\ Running => boxed
BY DEF Throws, ReportOK, Running

\* The last local is destroyed with nobody working through it.
LEMMA DestroyLastKeeps ==
    ASSUME IInv, DestroyLast
    PROVE  IInv'
<1>. DEFINE f == [j \in Live |-> j]
<1>1. /\ LetGo(local[top]) /\ local' = [local EXCEPT ![top] = Dead] /\ top' = top - 1
      /\ Throws(LetGoCode(local[top]), local[top].boxed) /\ top > 0
  BY DEF DestroyLast
<1>2. /\ top \in Live /\ top \in Slots /\ local[top] \in Object /\ Live \subseteq Slots
      /\ Live' = Live \ {top} /\ \A j \in Live' : j < top
      /\ \A j \in Slots : j # top => local'[j] = local[j]
      /\ local'[top] = Dead /\ local' \in [Slots -> Object \cup {Dead}]
  <2>1. top \in Nat /\ top \in Live
    BY <1>1, LocalsTyped DEF IInv, Live
  <2>2. local[top] \in Object /\ Live \subseteq Slots
    BY <2>1, LocalsTyped DEF IInv
  <2>3. Live' = Live \ {top} /\ \A j \in Live' : j < top
    BY <1>1, <2>1 DEF Live
  <2>4. local \in [Slots -> Object \cup {Dead}]
    BY DEF IInv, TypeOK
  <2>. QED
    BY <1>1, <2>1, <2>2, <2>3, <2>4
<1>3. Alone(top)
  <2>. SUFFICES ASSUME IsHandle(local, top), Holds(local, top), NEW j \in Live \ {top},
                       Holds(local, j), ~IsHandle(local, j), local[j].devh = local[top].devh
                PROVE  FALSE
    BY DEF Alone
  <2>1. PICK m \in Live : m <= j /\ IsHandle(local, m) /\ local[m].devh = local[j].devh
    BY ThroughOpen
  <2>2. m # top
    BY <1>2, <2>1 DEF Live
  <2>. QED
    BY <1>2, <2>1, <2>2, HandlesDiffer DEF Holds
<1>4. LocalsOK'
  <2>1. \A j \in Slots : local'[j] = Dead <=> j > top'
    BY <1>1, <1>2, LocalsTyped DEF IInv, TypeOK, Slots
  <2>2. top' \in 0..MaxLocals
    BY <1>1, MaxLocalsAssumption DEF IInv, TypeOK
  <2>. QED
    BY <1>2, <2>1, <2>2 DEF LocalsOK
<1>5. ReportOK' /\ NumbersInv'
  BY <1>1, <1>2, Throwing, TypeParts DEF IInv, NumbersInv
<1>6. ResourcesOK' /\ plugged' \in BOOLEAN
  BY <1>1, <1>2, LetGoTyped DEF IInv, TypeOK
<1>7. WithinHandle(local')
  <2>. SUFFICES ASSUME NEW k \in Slots, Holds(local', k), ~IsHandle(local', k)
                PROVE  \E j \in 1..k - 1 : IsHandle(local', j) /\ local'[j].devh = local'[k].devh
    BY DEF WithinHandle
  <2>1. k # top /\ local'[k] = local[k] /\ Holds(local, k) /\ ~IsHandle(local, k)
    BY <1>2 DEF Holds, IsHandle, Dead
  <2>2. k \in Live
    BY <2>1, LocalsTyped DEF IInv, Holds, Dead
  <2>3. PICK j \in 1..k - 1 : IsHandle(local, j) /\ local[j].devh = local[k].devh
    BY <2>1 DEF IInv, WithinHandle
  <2>4. j \in Slots /\ j # top
    BY <1>2, <2>2 DEF Live, Slots
  <2>. QED
    BY <1>2, <2>1, <2>3, <2>4 DEF IsHandle
<1>8. Covered(lost' \cup Objects', opened', claimed', driver')
  <2>1. Covered(lost' \cup Others(top), opened', claimed', driver')
    BY <1>1, <1>2, <1>3, LetGoCovers
  <2>2. Others(top) = Objects'
    BY <1>2 DEF Others, Objects
  <2>. QED
    BY <2>1, <2>2
<1>9. \A j \in Live' : Holds(local', j) =>
        f[j] = j /\ j \in Live /\ Holds(local, j) /\ local'[j] = local[j]
        /\ Stays(local[j])
  <2>1. \A j \in Live \ {top} : Holds(local, j) => Stays(local[j])
    BY <1>1, <1>2, <1>3, LetGoKeeps
  <2>. QED
    BY <1>2, <2>1 DEF Holds
<1>. HIDE DEF f
<1>. QED
  BY <1>4, <1>5, <1>6, <1>7, <1>8, <1>9, Settle

\* The locals after a move from one slot to another.
LEMMA Moved ==
    ASSUME IInv, NEW k \in Live, NEW n \in Slots, n # k, local' = Move(k, n)
    PROVE  /\ \A j \in Slots : j # k /\ j # n => local'[j] = local[j]
           /\ local' \in [Slots -> Object \cup {Dead}]
           /\ local'[n] \in Object /\ local'[n].kind = local[k].kind
           /\ local'[n].devh = local[k].devh /\ local'[n].num = local[k].num
           /\ local'[k] \in Object /\ local'[k].kind = local[k].kind
           /\ local'[k].devh = Null /\ local'[k].num = local[k].num
<1>1. k \in Slots /\ local[k] \in Object /\ local \in [Slots -> Object \cup {Dead}]
  BY LocalsTyped DEF IInv, TypeOK
<1>2. local[n].boxed \in BOOLEAN
  <2>1. local[n] \in Object \/ local[n] = Dead
    BY <1>1
  <2>2. Dead.boxed \in BOOLEAN
    BY DEF Dead
  <2>3. local[n] \in Object => local[n].boxed \in BOOLEAN
    BY DEF Object
  <2>. QED
    BY <2>1, <2>2, <2>3
<1>. DEFINE o == [local[k] EXCEPT !.boxed = local[n].boxed]
            q == [local[k] EXCEPT !.devh = Null]
<1>3. /\ o \in Object /\ o.kind = local[k].kind /\ o.devh = local[k].devh /\ o.num = local[k].num
      /\ q \in Object /\ q.kind = local[k].kind /\ q.devh = Null /\ q.num = local[k].num
  BY <1>1, <1>2 DEF Object
<1>4. local' = [local EXCEPT ![n] = o, ![k] = q]
  BY <1>1 DEF Move
<1>. HIDE DEF o, q
<1>. QED
  BY <1>1, <1>3, <1>4

\* An object is none of those that are gone.
LEMMA ObjectsAreLive == Dead \notin Object
BY DEF Object, Dead

\* A move constructor passes the ownership on.
LEMMA MoveConstructKeeps ==
    ASSUME IInv, NEW k \in Live, MoveConstruct(k)
    PROVE  IInv'
<1>. DEFINE n == top + 1
            f == [j \in Live' |-> IF j = n THEN k ELSE j]
<1>1. /\ local' = Move(k, n) /\ top' = n /\ top < MaxLocals
      /\ UNCHANGED <<reportVars, usbVars, lost, doubled>>
  BY DEF MoveConstruct, Room, ghostVars
<1>2. /\ n \in Slots /\ n \notin Live /\ Live' = Live \cup {n} /\ Live \subseteq Slots /\ k # n
  BY <1>1, LocalsTyped, MaxLocalsAssumption DEF IInv, Live, Slots
<1>3. /\ \A j \in Slots : j # k /\ j # n => local'[j] = local[j]
      /\ local' \in [Slots -> Object \cup {Dead}]
      /\ local'[n] \in Object /\ local'[n].kind = local[k].kind
      /\ local'[n].devh = local[k].devh /\ local'[n].num = local[k].num
      /\ local'[k] \in Object /\ local'[k].kind = local[k].kind
      /\ local'[k].devh = Null /\ local'[k].num = local[k].num
  BY <1>1, <1>2, Moved
<1>4. LocalsOK'
  <2>1. ASSUME NEW j \in Slots PROVE local'[j] = Dead <=> j > n
    <3>1. CASE j = n \/ j = k
      BY <1>2, <1>3, <3>1, ObjectsAreLive, LocalsTyped DEF IInv, Live
    <3>2. CASE j # n /\ j # k
      BY <1>3, <3>2, LocalsTyped DEF IInv, TypeOK, Slots
    <3>. QED
      BY <3>1, <3>2
  <2>2. n \in 0..MaxLocals
    BY <1>1, LocalsTyped, MaxLocalsAssumption DEF IInv
  <2>. QED
    BY <1>1, <1>3, <2>1, <2>2 DEF LocalsOK
<1>5. ReportOK' /\ ResourcesOK' /\ plugged' \in BOOLEAN
  BY <1>1, TypeParts DEF ReportOK, ResourcesOK, ClaimsInv, Shared, reportVars, usbVars
<1>6. NumbersInv'
  <2>. SUFFICES ASSUME NEW j \in Live' PROVE Numbered(local'[j])
    BY DEF NumbersInv
  <2>1. Numbered(local[k]) /\ (j \in Live => Numbered(local[j])) /\ j \in Slots
    BY <1>2 DEF IInv, NumbersInv
  <2>. QED
    BY <1>2, <1>3, <2>1 DEF Numbered
<1>7. WithinHandle(local')
  BY DEF MoveConstruct
<1>8. Covered(lost' \cup Objects', opened', claimed', driver')
  <2>. DEFINE A == lost \cup Objects
              B == lost' \cup Objects'
  <2>1. Covered(A, opened', claimed', driver')
    BY <1>1, Restated DEF IInv, usbVars
  <2>2. ASSUME NEW q \in A, q.devh \in Handles
        PROVE  \E r \in B : r.kind = q.kind /\ r.devh = q.devh /\ r.num = q.num
    <3>1. CASE q \in lost
      BY <1>1, <3>1
    <3>2. CASE q \notin lost
      <4>1. PICK j \in Live : q = local[j]
        BY <3>2 DEF Objects
      <4>2. local'[n] \in B /\ local'[j] \in B
        BY <1>2 DEF Objects
      <4>. QED
        BY <1>2, <1>3, <4>1, <4>2
    <3>. QED
      BY <3>1, <3>2
  <2>. HIDE DEF A, B
  <2>3. opened' \subseteq Handles /\ claimed' \subseteq Handles \X Ifaces
    BY <1>5 DEF ResourcesOK
  <2>4. Covered(B, opened', claimed', driver')
    BY <2>1, <2>2, <2>3, CoveredMore
  <2>. QED
    BY <2>4 DEF B
<1>9. ASSUME NEW j \in Live', Holds(local', j)
      PROVE  /\ f[j] \in Live /\ Holds(local, f[j]) /\ j # k
             /\ local'[j].kind = local[f[j]].kind
             /\ local'[j].devh = local[f[j]].devh
             /\ local'[j].num = local[f[j]].num
             /\ Stays(local[f[j]])
  <2>1. f[j] \in Live /\ Holds(local, f[j]) /\ j # k
        /\ local'[j].kind = local[f[j]].kind
        /\ local'[j].devh = local[f[j]].devh
        /\ local'[j].num = local[f[j]].num
    BY <1>2, <1>3, <1>9 DEF Holds
  <2>. HIDE DEF f
  <2>2. Stays(local[f[j]])
    BY <1>1, <2>1, Restated DEF IInv, usbVars, Stays, Shared
  <2>. QED
    BY <2>1, <2>2
<1>10. \A i, j \in Live' : Holds(local', i) /\ Holds(local', j) /\ f[i] = f[j] => i = j
  <2>. SUFFICES ASSUME NEW i \in Live', NEW j \in Live', Holds(local', i), Holds(local', j),
                       f[i] = f[j]
                PROVE  i = j
    OBVIOUS
  <2>1. i # k /\ j # k
    BY <1>9
  <2>. QED
    BY <2>1
<1>. HIDE DEF f
<1>. QED
  BY <1>4, <1>5, <1>6, <1>7, <1>8, <1>9, <1>10, Settle

\* The target of a move assignment lets go with nobody working through it.
LEMMA MoveAssignAlone ==
    ASSUME IInv, NEW from \in Live, NEW to \in Live, MoveAssign(from, to)
    PROVE  Alone(to)
<1>1. CASE ~IsHandle(local, to)
  BY <1>1 DEF Alone
<1>2. CASE IsHandle(local, to)
  <2>. DEFINE s == local'
  <2>1. LetGoCode(local[to]) = "success"
    BY <1>2 DEF LetGoCode, IsHandle
  <2>2. from # to /\ IsHandle(local, from) /\ local' = Move(from, to) /\ WithinHandle(s)
    BY <1>2, <2>1 DEF MoveAssign, IsHandle
  <2>3. /\ \A j \in Slots : j # from /\ j # to => local'[j] = local[j]
        /\ local'[to].devh = local[from].devh /\ local'[from].devh = Null
        /\ Live \subseteq Slots
    BY <2>2, Moved, LocalsTyped DEF IInv
  <2>4. \A j \in Live \ {to} : Holds(local, j) /\ ~IsHandle(local, j) => s[j] = local[j]
    BY <2>2, <2>3 DEF IsHandle
  <2>5. ASSUME NEW i \in Slots, IsHandle(s, i), Holds(s, i)
        PROVE  \E m \in Live \ {to} : IsHandle(local, m) /\ local[m].devh = s[i].devh
    <3>1. CASE i = to
      BY <2>2, <2>3, <3>1
    <3>2. CASE i # to
      <4>1. i # from /\ s[i] = local[i]
        BY <2>3, <2>5, <3>2 DEF Holds
      <4>2. i \in Live
        BY <2>5, <4>1, LocalsTyped DEF IInv, IsHandle, Dead
      <4>. QED
        BY <2>5, <3>2, <4>1, <4>2 DEF IsHandle
    <3>. QED
      BY <3>1, <3>2
  <2>. HIDE DEF s
  <2>. QED
    BY <2>2, <2>4, <2>5, NobodyThrough
<1>. QED
  BY <1>1, <1>2

\* A move assignment lets go first, and takes over when that worked.
LEMMA MoveAssignKeeps ==
    ASSUME IInv, NEW from \in Live, NEW to \in Live, MoveAssign(from, to)
    PROVE  IInv'
<1>. DEFINE ok == LetGoCode(local[to]) = "success"
            f == [j \in Live |-> IF ok /\ j = to THEN from ELSE j]
<1>1. /\ from # to /\ local[from].kind = local[to].kind /\ LetGo(local[to])
      /\ Throws(LetGoCode(local[to]), FALSE) /\ WithinHandle(local') /\ top' = top
  BY DEF MoveAssign
<1>2. /\ to \in Slots /\ from \in Slots /\ Live \subseteq Slots /\ Live' = Live
      /\ local[to] \in Object /\ local \in [Slots -> Object \cup {Dead}]
  BY <1>1, LocalsTyped DEF IInv, Live, TypeOK
<1>3. /\ \A j \in Slots : j # from /\ j # to => local'[j] = local[j]
      /\ local' \in [Slots -> Object \cup {Dead}]
      /\ local'[from] \in Object /\ local'[from].kind = local[from].kind
      /\ local'[from].num = local[from].num
      /\ local'[to] \in Object /\ local'[to].kind = local[from].kind
      /\ ok => local'[to].devh = local[from].devh /\ local'[to].num = local[from].num
               /\ local'[from].devh = Null
      /\ ~ok => local'[to].devh = Null /\ local'[to].num = local[to].num
                /\ local'[from] = local[from]
  <2>1. CASE ok
    <3>1. local' = Move(from, to)
      BY <2>1 DEF MoveAssign
    <3>. QED
      BY <1>1, <1>2, <2>1, <3>1, Moved
  <2>2. CASE ~ok
    <3>1. local' = [local EXCEPT ![to].devh = Null]
      BY <2>2 DEF MoveAssign
    <3>2. [local[to] EXCEPT !.devh = Null] \in Object /\ local[from] \in Object
      BY <1>2, LocalsTyped DEF IInv, Object
    <3>. QED
      BY <1>1, <1>2, <2>2, <3>1, <3>2
  <2>. QED
    BY <2>1, <2>2
<1>4. Alone(to)
  BY MoveAssignAlone
<1>5. LocalsOK'
  <2>1. ASSUME NEW j \in Slots PROVE local'[j] = Dead <=> j > top
    <3>1. ~(from > top) /\ ~(to > top)
      BY LocalsTyped DEF IInv, Live
    <3>2. CASE j = from \/ j = to
      BY <1>3, <3>1, <3>2, ObjectsAreLive
    <3>3. CASE j # from /\ j # to
      BY <1>3, <3>3 DEF IInv, TypeOK
    <3>. QED
      BY <3>2, <3>3
  <2>. QED
    BY <1>1, <1>3, <2>1 DEF LocalsOK, IInv, TypeOK
<1>6. ReportOK' /\ ResourcesOK' /\ plugged' \in BOOLEAN
  BY <1>1, Throwing, TypeParts, LetGoTyped DEF IInv, TypeOK
<1>7. NumbersInv'
  <2>. SUFFICES ASSUME NEW j \in Live' PROVE Numbered(local'[j])
    BY DEF NumbersInv
  <2>1. Numbered(local[j]) /\ Numbered(local[from]) /\ Numbered(local[to]) /\ j \in Slots
    BY <1>2 DEF IInv, NumbersInv
  <2>. QED
    BY <1>1, <1>3, <2>1 DEF Numbered
<1>8. Covered(lost' \cup Objects', opened', claimed', driver')
  <2>. DEFINE A == lost' \cup Others(to)
              B == lost' \cup Objects'
  <2>1. Covered(A, opened', claimed', driver')
    BY <1>1, <1>4, LetGoCovers
  <2>2. ASSUME NEW q \in A, q.devh \in Handles
        PROVE  \E r \in B : r.kind = q.kind /\ r.devh = q.devh /\ r.num = q.num
    <3>1. CASE q \in lost'
      BY <3>1
    <3>2. CASE q \notin lost'
      <4>1. PICK j \in Live \ {to} : q = local[j]
        BY <3>2 DEF Others
      <4>2. local'[to] \in B /\ local'[j] \in B
        BY <1>2 DEF Objects
      <4>. QED
        BY <1>2, <1>3, <4>1, <4>2
    <3>. QED
      BY <3>1, <3>2
  <2>. HIDE DEF A, B
  <2>3. opened' \subseteq Handles /\ claimed' \subseteq Handles \X Ifaces
    BY <1>6 DEF ResourcesOK
  <2>4. Covered(B, opened', claimed', driver')
    BY <2>1, <2>2, <2>3, CoveredMore
  <2>. QED
    BY <2>4 DEF B
<1>9. ASSUME NEW j \in Live', Holds(local', j)
      PROVE  /\ f[j] \in Live \ {to} /\ Holds(local, f[j]) /\ (ok => j # from)
             /\ local'[j].kind = local[f[j]].kind
             /\ local'[j].devh = local[f[j]].devh
             /\ local'[j].num = local[f[j]].num
             /\ Stays(local[f[j]])
  <2>1. f[j] \in Live \ {to} /\ Holds(local, f[j]) /\ (ok => j # from)
        /\ local'[j].kind = local[f[j]].kind
        /\ local'[j].devh = local[f[j]].devh
        /\ local'[j].num = local[f[j]].num
    <3>1. CASE j = to
      <4>1. ok
        BY <1>3, <1>9, <3>1 DEF Holds
      <4>2. f[j] = from
        BY <1>2, <3>1, <4>1
      <4>. HIDE DEF f, ok
      <4>. QED
        BY <1>1, <1>3, <1>9, <3>1, <4>1, <4>2 DEF Holds
    <3>2. CASE j # to
      <4>1. f[j] = j /\ j \in Live
        BY <1>2, <3>2
      <4>. HIDE DEF f
      <4>2. local'[j].devh = local[j].devh /\ local'[j].kind = local[j].kind
            /\ local'[j].num = local[j].num /\ (ok => j # from)
        BY <1>2, <1>3, <1>9, <3>2, <4>1 DEF Holds
      <4>. QED
        BY <1>9, <3>2, <4>1, <4>2 DEF Holds
    <3>. QED
      BY <3>1, <3>2
  <2>. HIDE DEF f
  <2>2. Stays(local[f[j]])
    BY <1>1, <1>4, <2>1, LetGoKeeps
  <2>. QED
    BY <2>1, <2>2
<1>10. \A i, j \in Live' : Holds(local', i) /\ Holds(local', j) /\ f[i] = f[j] => i = j
  <2>. SUFFICES ASSUME NEW i \in Live', NEW j \in Live', Holds(local', i), Holds(local', j),
                       f[i] = f[j]
                PROVE  i = j
    OBVIOUS
  <2>1. (ok => i # from /\ j # from) /\ i \in Live /\ j \in Live
    BY <1>2, <1>9
  <2>. QED
    BY <2>1
<1>11. WithinHandle(local')
  BY <1>1
<1>. HIDE DEF f
<1>. QED
  BY <1>5, <1>6, <1>7, <1>8, <1>9, <1>10, <1>11, Settle

\* When the device is back nobody holds anything of it.
LEMMA ReplugKeeps ==
    ASSUME IInv, Replug
    PROVE  IInv'
<1>. DEFINE f == [k \in Live |-> k]
<1>1. /\ opened = {} /\ opened' = {} /\ plugged' = TRUE /\ lost' = {}
      /\ driver' \in [Ifaces -> {"none", "bound"}]
      /\ UNCHANGED <<localVars, reportVars, claimed, doubled>>
  BY DEF Replug
<1>2. claimed = {} /\ claimed' = {} /\ doubled = {} /\ doubled' = {}
  BY <1>1 DEF IInv, ClaimsInv, Shared
<1>3. \A k \in Live : ~Holds(local, k)
  BY <1>1, ThroughOpen
<1>4. /\ LocalsOK' /\ ReportOK' /\ NumbersInv' /\ WithinHandle(local')
      /\ local' = local /\ Live' = Live
  BY <1>1, TypeParts
     DEF IInv, LocalsOK, ReportOK, NumbersInv, Live, localVars, reportVars
<1>5. ResourcesOK'
  BY <1>1, <1>2 DEF ResourcesOK, ClaimsInv, Shared
<1>6. Covered(lost' \cup Objects', opened', claimed', driver')
  BY <1>1, <1>2 DEF Covered
<1>7. \A k \in Live' : ~Holds(local', k)
  BY <1>3, <1>4
<1>. HIDE DEF f
<1>. QED
  BY <1>1, <1>4, <1>5, <1>6, <1>7, Settle

-----------------------------------------------------------------------------
(* Theorems                                                                *)

ObjectOrErrorInv == IInv /\ ObjectOrError

\* The invariant is inductive: one case for each action.
LEMMA NextIInv == IInv /\ [Next]_vars => IInv'
<1>. SUFFICES ASSUME IInv, [Next]_vars PROVE IInv'
  OBVIOUS
<1>1. ASSUME NEW p \in Protocols, NEW h \in Handles, OpenDevice(p, h) PROVE IInv'
  BY <1>1, OpenDeviceReports
<1>2. ASSUME NEW p \in Protocols, NEW k \in Live, NEW i \in Ifaces, ClaimInterface(p, k, i)
      PROVE  IInv'
  BY <1>2, ClaimInterfaceReports
<1>3. ASSUME NEW p \in Protocols, NEW k \in Live, NEW i \in Ifaces, DetachDriver(p, k, i)
      PROVE  IInv'
  BY <1>3, DetachDriverReports
<1>4. ASSUME NEW k \in Live, LetGoOf(k) PROVE IInv'
  BY <1>4, LetGoOfKeeps
<1>5. ASSUME NEW k \in Live, MoveConstruct(k) PROVE IInv'
  BY <1>5, MoveConstructKeeps
<1>6. ASSUME NEW j \in Live, NEW k \in Live, MoveAssign(j, k) PROVE IInv'
  BY <1>6, MoveAssignKeeps
<1>7. CASE DestroyLast
  BY <1>7, DestroyLastKeeps
<1>8. CASE Catch
  <2>1. ReportOK' /\ plugged' \in BOOLEAN
    BY <1>8, TypeParts DEF Catch, ReportOK, usbVars
  <2>. QED
    BY <1>8, <2>1, Elsewhere DEF Catch, usbVars, ghostVars
<1>9. CASE Unplug
  <2>1. ReportOK' /\ plugged' \in BOOLEAN
    BY <1>9, TypeParts DEF Unplug, ReportOK, reportVars
  <2>. QED
    BY <1>9, <2>1, Elsewhere DEF Unplug, ghostVars
<1>10. CASE Replug
  BY <1>10, ReplugKeeps
<1>11. CASE UNCHANGED vars
  <2>1. ReportOK' /\ plugged' \in BOOLEAN
    BY <1>11, TypeParts DEF vars, ReportOK, reportVars, usbVars
  <2>. QED
    BY <1>11, <2>1, Elsewhere DEF vars, usbVars, ghostVars
<1>. QED
  BY <1>1, <1>2, <1>3, <1>4, <1>5, <1>6, <1>7, <1>8, <1>9, <1>10, <1>11 DEF Next, Terminated

\* The invariant in every reachable state.
THEOREM WrappersInv == Spec => []IInv
<1>1. Init => IInv
  BY InitIInv
<1>2. IInv /\ [Next]_vars => IInv'
  BY NextIInv
<1>. QED
  BY <1>1, <1>2, PTL DEF Spec

(***************************************************************************)
(* Whatever is opened, claimed, detached, moved, assigned, released and    *)
(* destroyed: nothing but what was claimed twice is held twice, and        *)
(* nothing is held by nobody.                                              *)
(***************************************************************************)
THEOREM OneOwnerTheorem == Spec => []OneOwner
<1>1. IInv => OneOwner
  BY DEF IInv, OneOwner
<1>. QED
  BY <1>1, WrappersInv, PTL

\* A caller gets the object or an error with every protocol.
THEOREM ObjectOrErrorTheorem == Spec => []ObjectOrError
<1>1. Init => ObjectOrErrorInv
  BY InitIInv DEF ObjectOrErrorInv, ObjectOrError, Init
<1>2. ObjectOrErrorInv /\ [Next]_vars => ObjectOrErrorInv'
  <2>. SUFFICES ASSUME IInv, ObjectOrError, [Next]_vars PROVE ObjectOrError'
    BY NextIInv DEF ObjectOrErrorInv
  <2>1. ASSUME NEW p \in Protocols, NEW h \in Handles, OpenDevice(p, h) PROVE ObjectOrError'
    BY <2>1, OpenDeviceReports DEF ObjectOrError
  <2>2. ASSUME NEW p \in Protocols, NEW k \in Live, NEW i \in Ifaces,
               ClaimInterface(p, k, i) \/ DetachDriver(p, k, i)
        PROVE  ObjectOrError'
    BY <2>2, ClaimInterfaceReports, DetachDriverReports DEF ObjectOrError
  <2>3. ASSUME UNCHANGED returned PROVE ObjectOrError'
    BY <2>3 DEF ObjectOrError
  <2>4. \/ \E k \in Live : LetGoOf(k) \/ MoveConstruct(k)
        \/ \E j, k \in Live : MoveAssign(j, k)
        \/ DestroyLast \/ Catch \/ Unplug \/ Replug \/ UNCHANGED vars
        => UNCHANGED returned
    BY DEF LetGoOf, MoveConstruct, MoveAssign, DestroyLast, Throws, Catch, Unplug, Replug,
           reportVars, vars
  <2>. QED
    BY <2>1, <2>2, <2>3, <2>4 DEF Next, Terminated
<1>3. ObjectOrErrorInv => ObjectOrError
  BY DEF ObjectOrErrorInv
<1>. QED
  BY <1>1, <1>2, <1>3, PTL DEF Spec

\* What an object that holds something fails to let go of, it fails for a reason.
LEMMA FailsForAReason ==
    ASSUME IInv, NEW k \in Live, LetGoCode(local[k]) # "success"
    PROVE  \/ ~plugged
           \/ local[k].kind = "guard" /\ InUse(local[k].num)
           \/ Doubled(local[k])
<1>1. local[k] \in Object /\ Holds(local, k) /\ local[k].kind # "handle"
  BY LocalsTyped DEF IInv, LetGoCode, Holds
<1>2. Has(local[k], opened, Shared, driver)
  BY <1>1, Restated DEF IInv
<1>3. CASE local[k].kind = "interface"
  BY <1>1, <1>2, <1>3 DEF LetGoCode, ReleaseCode, Has, Holds, Shared, Doubled
<1>4. CASE local[k].kind = "guard"
  BY <1>1, <1>2, <1>4 DEF LetGoCode, AttachCode, Has, Holds
<1>. QED
  BY <1>1, <1>3, <1>4 DEF Object

(***************************************************************************)
(* A destructor that throws out of a noexcept one, or while an exception   *)
(* unwinds, does so because the device is gone, the interface of the       *)
(* driver it reattaches is claimed, or the claim was made twice.           *)
(***************************************************************************)
THEOREM TerminatesTheorem == Spec => TerminatesOnFailureOnly
<1>. DEFINE Step == mode' = "terminated" /\ mode # "terminated" =>
                        \/ ~plugged
                        \/ local[top].kind = "guard" /\ InUse(local[top].num)
                        \/ Doubled(local[top])
<1>1. IInv /\ [Next]_vars => Step
  <2>. SUFFICES ASSUME IInv, [Next]_vars, mode' = "terminated", mode # "terminated"
                PROVE  \/ ~plugged
                       \/ local[top].kind = "guard" /\ InUse(local[top].num)
                       \/ Doubled(local[top])
    OBVIOUS
  <2>1. ASSUME NEW p \in Protocols, NEW h \in Handles, OpenDevice(p, h) PROVE FALSE
    BY <2>1, OpenDeviceReports
  <2>2. ASSUME NEW p \in Protocols, NEW k \in Live, NEW i \in Ifaces,
               ClaimInterface(p, k, i) \/ DetachDriver(p, k, i)
        PROVE  FALSE
    BY <2>2, ClaimInterfaceReports, DetachDriverReports
  <2>3. ASSUME NEW j \in Live, NEW k \in Live, MoveAssign(j, k) PROVE FALSE
    BY <2>3, Throwing, TypeParts DEF MoveAssign
  <2>4. \/ \E k \in Live : LetGoOf(k) \/ MoveConstruct(k)
        \/ Catch \/ Unplug \/ Replug \/ UNCHANGED vars
        => FALSE
    BY DEF LetGoOf, MoveConstruct, Catch, Unplug, Replug, reportVars, vars
  <2>5. CASE DestroyLast
    <3>1. top \in Live
      BY <2>5, LocalsTyped DEF DestroyLast, IInv, Live
    <3>2. LetGoCode(local[top]) # "success"
      BY <2>5, Throwing, TypeParts DEF DestroyLast
    <3>. QED
      BY <3>1, <3>2, FailsForAReason
  <2>. QED
    BY <2>1, <2>2, <2>3, <2>4, <2>5 DEF Next, Terminated
<1>2. Spec => [][Step]_vars
  <2>. HIDE DEF Step
  <2>. QED
    BY <1>1, WrappersInv, PTL DEF Spec
<1>. QED
  BY <1>2 DEF TerminatesOnFailureOnly
=============================================================================
