------------------------------ MODULE Mailbox ------------------------------
(***************************************************************************)
(* What a hotplug acceptor promises to whoever accepts devices, whatever   *)
(* the order in which devices and takers come: a thing goes to one taker   *)
(* or to the store, and to the store only while nobody waits; a taker      *)
(* waits only while nothing is stored; and it leaves with one thing, or    *)
(* with none if it was excused by a stop or a shutdown.  An excuse that    *)
(* comes after the thing costs the taker the thing, which is not put back. *)
(* The promise ends for good when the exchange has lost count of who waits.*)
(***************************************************************************)
EXTENDS Naturals

CONSTANTS Takers, Things, Nothing

VARIABLES
    sound,              \* the promise holds
    stored,             \* how many of each thing are stored
    inside,             \* takers that have asked and not left
    waiting,            \* those that wait
    got,                \* what each taker was given
    excused             \* takers that may leave with empty hands

mailvars == <<sound, stored, inside, waiting, got, excused>>

Empty == [x \in Things |-> 0]

Init ==
    /\ sound = TRUE
    /\ stored = Empty
    /\ inside = {} /\ waiting = {} /\ excused = {}
    /\ got = [t \in Takers |-> Nothing]

Put(x) ==
    /\ waiting = {}
    /\ stored' = [stored EXCEPT ![x] = @ + 1]
    /\ UNCHANGED <<inside, waiting, got, excused>>

Hand(x, t) ==
    /\ t \in waiting
    /\ got[t] = Nothing
    /\ got' = [got EXCEPT ![t] = x]
    /\ waiting' = waiting \ {t}
    /\ UNCHANGED <<stored, inside, excused>>

Withdraw(x) ==
    /\ stored[x] > 0
    /\ stored' = [stored EXCEPT ![x] = @ - 1]
    /\ UNCHANGED <<inside, waiting, got, excused>>

\* The store is closed.
Clear ==
    /\ stored' = Empty
    /\ UNCHANGED <<inside, waiting, got, excused>>

Ask(t) ==
    /\ t \notin inside
    /\ inside' = inside \cup {t}
    /\ UNCHANGED <<stored, waiting, got, excused>>

Take(x, t) ==
    /\ t \in inside \ waiting
    /\ got[t] = Nothing
    /\ stored[x] > 0
    /\ stored' = [stored EXCEPT ![x] = @ - 1]
    /\ got' = [got EXCEPT ![t] = x]
    /\ UNCHANGED <<inside, waiting, excused>>

Wait(t) ==
    /\ t \in inside \ waiting
    /\ got[t] = Nothing
    /\ stored = Empty
    /\ waiting' = waiting \cup {t}
    /\ UNCHANGED <<stored, inside, got, excused>>

\* Some are excused, and of those who are some wait no longer.
GiveUp(E, W) ==
    /\ excused' = excused \cup E
    /\ W \subseteq excused'
    /\ waiting' = waiting \ W
    /\ UNCHANGED <<stored, inside, got>>

Leave(t) ==
    /\ t \in inside \ waiting
    /\ got[t] # Nothing \/ t \in excused
    /\ inside' = inside \ {t}
    /\ got' = [got EXCEPT ![t] = Nothing]
    /\ excused' = excused \ {t}
    /\ UNCHANGED <<stored, waiting>>

Exchanges ==
    \/ \E x \in Things : Put(x) \/ Withdraw(x)
    \/ \E x \in Things, t \in Takers : Hand(x, t) \/ Take(x, t)
    \/ \E t \in Takers : Ask(t) \/ Wait(t) \/ Leave(t)
    \/ \E E \in SUBSET Takers, W \in SUBSET waiting : GiveUp(E, W)
    \/ Clear

\* Nothing is said of the steps after the one that ends the promise.
Next == (sound /\ sound' /\ Exchanges) \/ ~sound'

Spec == Init /\ [][Next]_mailvars
=============================================================================
