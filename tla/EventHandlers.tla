--------------------------- MODULE EventHandlers ---------------------------
(***************************************************************************)
(* Type-erased event handlers: any_event_handler (ev/any_event_handler.hpp)*)
(* owns one in memory it takes from a memory resource, event_handler_ref   *)
(* (ev/event_handler_ref.hpp) points to an owner and counts its reference  *)
(* on the handler that the owner holds.                                    *)
(*                                                                         *)
(* HandlerService has one owner and counts its users; here are the objects *)
(* themselves, copied, moved, assigned and destroyed one after the other.  *)
(* Nothing keeps a program from replacing, moving or destroying a handler  *)
(* that is referenced: the references go on pointing to where it was.      *)
(***************************************************************************)
EXTENDS Integers, FiniteSets

CONSTANTS
    Owners,             \* any_event_handler objects
    Refs,               \* event_handler_ref objects
    Blocks,             \* what a memory resource may allocate
    Resources,          \* the memory resources
    HandlerTypes,       \* the types of handlers: each has a size of its own
    None,               \* null
    MaxAdrift           \* bound: how far a count is off

Owned == [storage : Blocks \cup {None}, memres : Resources,
          vtable : HandlerTypes \cup {None}]
Allocation == [memres : Resources, type : HandlerTypes]

ASSUME NoneAssumption ==
    /\ None \notin Owners \cup Blocks \cup HandlerTypes
    /\ None \notin [memres : Resources, type : HandlerTypes \cup {None}]
ASSUME RefsAssumption == IsFiniteSet(Refs)
ASSUME MaxAdriftAssumption == MaxAdrift \in Nat

VARIABLES
    owner,              \* m_storage, m_memres and m_vtable of each owner
    allocated,          \* what each block was allocated from, and for
    count,              \* the reference count of the handler in each block
    ref,                \* m_original of each reference
    adrift              \* ghost: what each count has too much, or too little

ownerVars == <<owner, allocated>>
refVars == <<ref, count, adrift>>
handlerVars == <<ownerVars, refVars>>

HandlersTypeOK ==
    /\ owner \in [Owners -> Owned]
    /\ allocated \in [Blocks -> Allocation \cup {None}]
    /\ count \in [Blocks -> Int]
    /\ ref \in [Refs -> Owners \cup {None}]
    /\ adrift \in [Blocks -> Int]

HandlersInit ==
    /\ \E m \in Resources :
        owner = [a \in Owners |-> [storage |-> None, memres |-> m, vtable |-> None]]
    /\ allocated = [b \in Blocks |-> None]
    /\ count = [b \in Blocks |-> 0]
    /\ ref = [r \in Refs |-> None]
    /\ adrift = [b \in Blocks |-> 0]

Storage(a) == owner[a].storage
Users(a) == {r \in Refs : ref[r] = a}

\* The bound, of a step that sets a count off.
WithinBound == \A b \in Blocks : adrift'[b] \in -MaxAdrift..MaxAdrift

-----------------------------------------------------------------------------
(* any_event_handler                                                       *)

\* destroy(): the handler's destructor, and its memory returned.
Destroyed(a) == IF Storage(a) = None THEN allocated
                ELSE [allocated EXCEPT ![Storage(a)] = None]

Emptied(a) == [owner EXCEPT ![a].storage = None]

\* The handler in a's block is gone, with what was counted on it.
Cleared(counts, a) == IF Storage(a) = None THEN counts
                      ELSE [counts EXCEPT ![Storage(a)] = 0]

\* construct_storage(): the memory is returned if the constructor throws.
Construct(a, m, t, b, throws) ==
    IF throws
    THEN /\ allocated' = Destroyed(a)
         /\ owner' = [Emptied(a) EXCEPT ![a].memres = m]
    ELSE /\ allocated' = [Destroyed(a) EXCEPT ![b] = [memres |-> m, type |-> t]]
         /\ owner' = [owner EXCEPT ![a] = [storage |-> b, memres |-> m, vtable |-> t]]

\* emplace(), and the constructors: the old handler is destroyed first.  The
\* new one has not counted the references that the owner has already.
Emplace(a, m, t) ==
    /\ \E b \in Blocks, throws \in BOOLEAN :
        /\ Destroyed(a)[b] = None
        /\ Construct(a, m, t, b, throws)
        /\ adrift' = IF throws THEN Cleared(adrift, a)
                     ELSE [Cleared(adrift, a) EXCEPT ![b] = -Cardinality(Users(a))]
    /\ count' = Cleared(count, a)
    /\ WithinBound
    /\ UNCHANGED ref

\* The handler that goes from one owner to another takes its count along; the
\* references stay with the owners.
CountMoves(from, to) ==
    /\ count' = Cleared(count, to)
    /\ adrift' = IF Storage(from) = None THEN Cleared(adrift, to)
                 ELSE [Cleared(adrift, to) EXCEPT ![Storage(from)] =
                           @ + Cardinality(Users(from)) - Cardinality(Users(to))]
    /\ WithinBound
    /\ UNCHANGED ref

\* Mutant of MoveOwner: the resource stays with the source.
MoveOwnerWithoutResource(from, to) ==
    /\ from # to
    /\ allocated' = Destroyed(to)
    /\ owner' = [owner EXCEPT ![to] = [owner[from] EXCEPT !.memres = owner[to].memres],
                              ![from].storage = None]
    /\ CountMoves(from, to)

\* Move construction and move assignment: the target's own handler goes first.
MoveOwner(from, to) ==
    /\ from # to
    /\ allocated' = Destroyed(to)
    /\ owner' = [owner EXCEPT ![to] = owner[from], ![from].storage = None]
    /\ CountMoves(from, to)

\* The destructor leaves an owner without a handler behind, and what refers
\* to it finds none there.
DestroyOwner(a) ==
    /\ allocated' = Destroyed(a)
    /\ owner' = Emptied(a)
    /\ count' = Cleared(count, a)
    /\ adrift' = Cleared(adrift, a)
    /\ UNCHANGED ref

-----------------------------------------------------------------------------
(* event_handler_ref                                                       *)

\* ref() and unref() of what a reference points to, null or an empty owner
\* included: by as many as d.
Counted(counts, a, d) ==
    IF a = None \/ (a # None /\ Storage(a) = None) THEN counts
    ELSE [counts EXCEPT ![Storage(a)] = @ + d]

\* A reference is constructed around an owner.
Bind(r, a) ==
    /\ ref[r] = None
    /\ ref' = [ref EXCEPT ![r] = a]
    /\ count' = Counted(count, a, 1)
    /\ UNCHANGED <<ownerVars, adrift>>

(***************************************************************************)
(* An owner is assigned to a reference: what the reference pointed to is   *)
(* not unreferenced.                                                       *)
(***************************************************************************)
BindAssign(r, a) ==
    /\ ref[r] # a
    /\ ref' = [ref EXCEPT ![r] = a]
    /\ count' = Counted(count, a, 1)
    /\ adrift' = Counted(adrift, ref[r], 1)
    /\ WithinBound
    /\ UNCHANGED ownerVars

\* Copy construction.
CopyRef(from, to) ==
    /\ from # to /\ ref[to] = None
    /\ ref' = [ref EXCEPT ![to] = ref[from]]
    /\ count' = Counted(count, ref[from], 1)
    /\ UNCHANGED <<ownerVars, adrift>>

\* Mutant of AssignRef: the reference it had is not given back.
AssignRefKeeping(from, to) ==
    /\ from # to
    /\ ref' = [ref EXCEPT ![to] = ref[from]]
    /\ count' = Counted(count, ref[from], 1)
    /\ UNCHANGED <<ownerVars, adrift>>

\* Copy assignment.
AssignRef(from, to) ==
    /\ from # to
    /\ ref' = [ref EXCEPT ![to] = ref[from]]
    /\ count' = Counted(Counted(count, ref[to], -1), ref[from], 1)
    /\ UNCHANGED <<ownerVars, adrift>>

\* Move construction and move assignment.
MoveRef(from, to) ==
    /\ from # to
    /\ ref' = [ref EXCEPT ![to] = ref[from], ![from] = None]
    /\ count' = Counted(count, ref[to], -1)
    /\ UNCHANGED <<ownerVars, adrift>>

\* The destructor.
DropRef(r) ==
    /\ ref' = [ref EXCEPT ![r] = None]
    /\ count' = Counted(count, ref[r], -1)
    /\ UNCHANGED <<ownerVars, adrift>>

OwnerNext ==
    \/ \E a \in Owners, m \in Resources, t \in HandlerTypes : Emplace(a, m, t)
    \/ \E a, b \in Owners : MoveOwner(a, b)
    \/ \E a \in Owners : DestroyOwner(a)

\* What a program may do with references of its own.
RefNext(own) ==
    \E r \in own :
        \/ \E a \in Owners : Bind(r, a) \/ BindAssign(r, a)
        \/ \E q \in own : CopyRef(q, r) \/ AssignRef(q, r) \/ MoveRef(q, r)
        \/ DropRef(r)

-----------------------------------------------------------------------------
(* Properties                                                              *)

(***************************************************************************)
(* A handler's count is the number of references to its owner, but for     *)
(* what three operations set it off by: an owner that is assigned to a     *)
(* reference (what that referred to is not given back), a handler put into *)
(* an owner that has references (it counted none of them), and one moved   *)
(* out of an owner that has (nobody gives those back any more).  However   *)
(* references are bound, copied, assigned, moved and dropped otherwise, of *)
(* owners that have a handler and owners that have not, in any order,      *)
(* every count is given back once.                                         *)
(***************************************************************************)
CountExact ==
    \A a \in Owners : Storage(a) # None =>
        count[Storage(a)] = Cardinality(Users(a)) + adrift[Storage(a)]

(***************************************************************************)
(* Every block is owned once, and destroy() returns it to the resource and *)
(* with the size that it was allocated with, also after a constructor that *)
(* threw; a block without an owner was returned.                           *)
(***************************************************************************)
StorageOwned ==
    /\ \A a \in Owners : Storage(a) # None =>
        /\ allocated[Storage(a)] = [memres |-> owner[a].memres, type |-> owner[a].vtable]
        /\ \A c \in Owners \ {a} : Storage(c) # Storage(a)
    /\ \A b \in Blocks : allocated[b] # None => \E a \in Owners : Storage(a) = b
=============================================================================
