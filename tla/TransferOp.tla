----------------------------- MODULE TransferOp -----------------------------
(***************************************************************************)
(* What an asynchronous operation on a transfer sequence promises its      *)
(* caller, whatever the order in which the device answers: the caller's    *)
(* transfers and buffers are lent to the operation between its start and   *)
(* its result, no transfer is lent when the result is delivered, and a     *)
(* result without an error means that every buffer was done.               *)
(***************************************************************************)
EXTENDS Naturals, FiniteSets

CONSTANTS Tfers, MaxLeft

VARIABLES
    phase,              \* idle, pending, or done: the result can be collected
    lent,               \* transfers given to libusb or to the callback
    left,               \* buffers not done yet
    failed              \* whether the operation met an error

opvars == <<phase, lent, left, failed>>

Init == phase = "idle" /\ lent = {} /\ left = 0 /\ failed = FALSE

Start(m) ==
    /\ phase = "idle"
    /\ phase' = "pending"
    /\ left' = m
    /\ failed' = FALSE
    /\ UNCHANGED lent

\* A transfer is lent for a buffer that no other transfer is lent for.
Lend(t) ==
    /\ phase = "pending"
    /\ t \notin lent
    /\ Cardinality(lent) < left
    /\ lent' = lent \cup {t}
    /\ UNCHANGED <<phase, left, failed>>

\* A lent transfer is done with its buffer and takes another.
Advance ==
    /\ phase = "pending"
    /\ Cardinality(lent) < left
    /\ lent # {}
    /\ left' = left - 1
    /\ UNCHANGED <<phase, lent, failed>>

\* A lent transfer comes back: its buffer is done, or the operation failed.
GiveBack(t) ==
    /\ phase = "pending"
    /\ t \in lent
    /\ lent' = lent \ {t}
    /\ failed' \in {failed, TRUE}
    /\ left' \in {left, left - 1}
    /\ left' = left => failed'
    /\ UNCHANGED phase

Fail ==
    /\ phase = "pending"
    /\ failed' = TRUE
    /\ UNCHANGED <<phase, lent, left>>

\* The result is delivered; a stop may make it an error.
Finish ==
    /\ phase = "pending"
    /\ lent = {}
    /\ phase' = "done"
    /\ failed' \in {failed, TRUE}
    /\ failed' \/ left = 0
    /\ UNCHANGED <<lent, left>>

Collect ==
    /\ phase = "done"
    /\ phase' = "idle"
    /\ UNCHANGED <<lent, left, failed>>

Next == \/ \E m \in 0..MaxLeft : Start(m)
        \/ \E t \in Tfers : Lend(t) \/ GiveBack(t)
        \/ Advance \/ Fail \/ Finish \/ Collect

Spec == Init /\ [][Next]_opvars
=============================================================================
