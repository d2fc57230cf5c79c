----------------------------- MODULE PartialIO -----------------------------
(***************************************************************************)
(* Partial I/O (transfer/partial_io.hpp and                                *)
(* transfer/detail/sequence_awaitable.hpp): N libusb transfers stream      *)
(* through a sequence of buffers on behalf of one coroutine.               *)
(*                                                                         *)
(* Three threads meet here.  The coroutine's thread starts the operation,  *)
(* submits the first transfers and goes away; the event handler's thread   *)
(* runs transfer_callback for one finished transfer at a time, and the     *)
(* callback that brings in_flight to zero posts the coroutine; any thread  *)
(* may request a stop, which cancels the transfers one by one.             *)
(*                                                                         *)
(* Operations follow one another on the same transfers; the stop request,  *)
(* once made, stays.                                                       *)
(***************************************************************************)
EXTENDS LibusbTransfers, FiniteSets

CONSTANTS
    MaxBuffers,         \* bound: buffers in one sequence
    TransferType,       \* "bulk" (bulk, interrupt, control) or "iso"
    Completions,        \* what the device may answer, see Completion
    SubmitMayFail       \* whether libusb_submit_transfer may return an error

Statuses == {"completed", "cancelled", "error"}

(***************************************************************************)
(* A finished libusb_transfer: its status, the bytes it moved and, for an  *)
(* isochronous one, the status and the length of its first packet.         *)
(***************************************************************************)
Completion == [status : Statuses, actual : Nat,
               packet : Statuses, packetLength : Nat]

ASSUME MaxBuffersAssumption == MaxBuffers \in Nat
ASSUME TransferTypeAssumption == TransferType \in {"bulk", "iso"}
ASSUME CompletionsAssumption == Completions \subseteq Completion
ASSUME SubmitMayFailAssumption == SubmitMayFail \in BOOLEAN

VARIABLES
    co,                 \* the coroutine: idle, called, suspended or resumed
    loop,               \* await_suspend's submission loop: off, run or failed
    next,               \* the transfer that loop submits next
    used,               \* transfers_used = submission_size
    bufs,               \* number of buffers: buf_end - 1
    buf_current,        \* the buffer the next free transfer takes
    held,               \* transfer |-> the buffer it points into
    cb,                 \* transfer_callback on the event handler's thread
    ec, total, in_flight, \* await_state_t
    posts,              \* posts of the continuation not yet run
    stop,               \* stop_requested()
    canc,               \* next transfer the stop callback cancels, 0: not running
    done,               \* ghost: buffers that completed and were counted
    moved               \* ghost: bytes the device moved in this operation

opVars == <<used, bufs>>
loopVars == <<loop, next>>
stopVars == <<stop, canc>>
awaitVars == <<ec, total, in_flight>>
ghostVars == <<done, moved>>
vars == <<usbVars, co, loopVars, opVars, buf_current, held, cb, awaitVars,
          posts, stopVars, ghostVars>>

NoCallback == [pc |-> "none"]

CallbackState ==
    {NoCallback} \cup
    [pc : {"entered", "live"}, tfer : Transfers, result : Completions]

TypeOK ==
    /\ UsbTypeOK
    /\ co \in {"idle", "called", "suspended", "resumed"}
    /\ loop \in {"off", "run", "failed"}
    /\ next \in 1..N + 1
    /\ used \in 0..N
    /\ bufs \in 0..MaxBuffers
    /\ buf_current \in 1..MaxBuffers + 1
    /\ held \in [Transfers -> 0..MaxBuffers]
    /\ cb \in CallbackState
    /\ ec \in {"none", "cancelled", "error", "submit"}
    /\ total \in Nat
    /\ in_flight \in 0..N
    /\ posts \in Nat
    /\ stop \in BOOLEAN
    /\ canc \in 0..N
    /\ done \subseteq 0..MaxBuffers
    /\ moved \in Nat

Init ==
    /\ UsbInit
    /\ co = "idle"
    /\ loop = "off" /\ next = 1
    /\ used = 0 /\ bufs = 0 /\ buf_current = 1
    /\ held = [t \in Transfers |-> 0]
    /\ cb = NoCallback
    /\ ec = "none" /\ total = 0 /\ in_flight = 0
    /\ posts = 0
    /\ stop = FALSE /\ canc = 0
    /\ done = {} /\ moved = 0

-----------------------------------------------------------------------------
(* The coroutine's thread                                                  *)

Min2(a, b) == IF a < b THEN a ELSE b

(***************************************************************************)
(* submit() up to its co_await: the stop callback is registered, and runs  *)
(* at once when the stop was requested before.                             *)
(***************************************************************************)
Submit(m) ==
    /\ co = "idle"
    /\ co' = "called"
    /\ used' = Min2(m, N)
    /\ bufs' = m
    /\ buf_current' = 1
    /\ ec' = "none" /\ total' = 0 /\ in_flight' = 0
    /\ done' = {} /\ moved' = 0
    /\ UsbCancel(IF stop THEN 1..used' ELSE {})
    /\ UNCHANGED <<loopVars, held, cb, posts, stopVars>>

\* await_ready(): no buffer to fill, await_resume() follows at once.
AwaitReady ==
    /\ co = "called"
    /\ buf_current > bufs
    /\ co' = "resumed"
    /\ UNCHANGED <<usbVars, loopVars, opVars, buf_current, held, cb, awaitVars,
                   posts, stopVars, ghostVars>>

\* await_suspend() finds the stop requested and resumes its caller.
AwaitStopped ==
    /\ co = "called"
    /\ buf_current <= bufs
    /\ stop
    /\ co' = "resumed"
    /\ ec' = "cancelled"
    /\ UNCHANGED <<usbVars, loopVars, opVars, buf_current, held, cb, total,
                   in_flight, posts, stopVars, ghostVars>>

\* await_suspend() points each transfer at a buffer and counts them all in.
AwaitSuspend ==
    /\ co = "called"
    /\ buf_current <= bufs
    /\ ~stop
    /\ co' = "suspended"
    /\ held' = [t \in Transfers |-> IF t <= used THEN t ELSE held[t]]
    /\ buf_current' = used + 1
    /\ in_flight' = used
    /\ loop' = IF used = 0 THEN "off" ELSE "run"
    /\ next' = 1
    /\ UNCHANGED <<usbVars, opVars, cb, ec, total, posts, stopVars, ghostVars>>

\* One turn of the submission loop: libusb accepts the transfer.
LoopSubmit ==
    /\ loop = "run"
    /\ UsbSubmit(next)
    /\ next' = next + 1
    /\ loop' = IF next = used THEN "off" ELSE "run"
    /\ UNCHANGED <<co, opVars, buf_current, held, cb, awaitVars, posts,
                   stopVars, ghostVars>>

\* One turn of the submission loop: libusb refuses the transfer.
LoopSubmitFails ==
    /\ SubmitMayFail
    /\ loop = "run"
    /\ loop' = "failed"
    /\ UNCHANGED <<usbVars, co, next, opVars, buf_current, held, cb, awaitVars,
                   posts, stopVars, ghostVars>>

\* The loop records the error and ends; in_flight keeps counting the rest.
LoopRecordError ==
    /\ loop = "failed"
    /\ ec' = "submit"
    /\ loop' = "off"
    /\ UNCHANGED <<usbVars, co, next, opVars, buf_current, held, cb, total,
                   in_flight, posts, stopVars, ghostVars>>

\* The executor runs the posted continuation.
Resume ==
    /\ co = "suspended"
    /\ posts > 0
    /\ co' = "resumed"
    /\ posts' = posts - 1
    /\ UNCHANGED <<usbVars, loopVars, opVars, buf_current, held, cb, awaitVars,
                   stopVars, ghostVars>>

\* await_resume() and co_return; the stop callback's destructor waits for it.
Return ==
    /\ co = "resumed"
    /\ canc = 0
    /\ co' = "idle"
    /\ UNCHANGED <<usbVars, loopVars, opVars, buf_current, held, cb, awaitVars,
                   posts, stopVars, ghostVars>>

-----------------------------------------------------------------------------
(* The event handler's thread                                              *)

\* transfer_callback is entered for a finished transfer.
Reap(t, c) ==
    /\ cb = NoCallback
    /\ UsbReap(t, c.status)
    /\ cb' = [pc |-> "entered", tfer |-> t, result |-> c]
    /\ in_flight' = in_flight - 1
    /\ moved' = moved + c.actual
    /\ UNCHANGED <<co, loopVars, opVars, buf_current, held, ec, total, posts,
                   stopVars, done>>

\* Mutant of ResumeOnZero: every callback that ends posts the coroutine.
ResumeAlways ==
    /\ cb' = NoCallback
    /\ posts' = posts + 1
    /\ UNCHANGED in_flight

\* Mutant of ResumeOnZero: the count is compared as if not yet decremented.
ResumeOnOne ==
    /\ cb' = NoCallback
    /\ posts' = IF in_flight = 1 THEN posts + 1 ELSE posts
    /\ UNCHANGED in_flight

\* resume_on_zero(), the last thing a callback does that does not resubmit.
ResumeOnZero ==
    /\ cb' = NoCallback
    /\ posts' = IF in_flight = 0 THEN posts + 1 ELSE posts
    /\ UNCHANGED in_flight

\* The callback reads ec under the mutex: an earlier error ends it.
CallbackErrored ==
    /\ cb.pc = "entered"
    /\ ec # "none"
    /\ ResumeOnZero
    /\ UNCHANGED <<usbVars, co, loopVars, opVars, buf_current, held, ec, total,
                   stopVars, ghostVars>>

CallbackLive ==
    /\ cb.pc = "entered"
    /\ ec = "none"
    /\ cb' = [cb EXCEPT !.pc = "live"]
    /\ UNCHANGED <<usbVars, co, loopVars, opVars, buf_current, held, awaitVars,
                   posts, stopVars, ghostVars>>

\* make_transfer_status(): LIBUSB_TRANSFER_COMPLETED is "no error".
TransferStatus(s) == IF s = "completed" THEN "none" ELSE s

\* Mutant of FailureCode: the packet status, whatever the type.
FailureCodeOfPacket(c) == TransferStatus(c.packet)

(***************************************************************************)
(* What a transfer that did not complete leaves in ec and adds to total:   *)
(* an isochronous one reports its first packet in place of itself.         *)
(***************************************************************************)
FailureCode(c) == TransferStatus(IF TransferType = "iso" THEN c.packet ELSE c.status)
FailureBytes(c) == IF TransferType = "iso" THEN c.packetLength ELSE c.actual

CallbackFailed ==
    /\ cb.pc = "live"
    /\ cb.result.status # "completed"
    /\ total' = total + FailureBytes(cb.result)
    /\ ec' = FailureCode(cb.result)
    /\ ResumeOnZero
    /\ UNCHANGED <<usbVars, co, loopVars, opVars, buf_current, held, stopVars,
                   ghostVars>>

\* The buffer of the callback's transfer is full and counted.
CountCompleted ==
    /\ cb.pc = "live"
    /\ cb.result.status = "completed"
    /\ total' = total + cb.result.actual
    /\ done' = done \cup {held[cb.tfer]}

CallbackDrained ==
    /\ CountCompleted
    /\ buf_current > bufs
    /\ ResumeOnZero
    /\ UNCHANGED <<usbVars, co, loopVars, opVars, buf_current, held, ec,
                   stopVars, moved>>

\* Mutant of TakeNextBuffer: buf_current is not advanced.
TakeSameBuffer ==
    /\ CountCompleted
    /\ buf_current <= bufs
    /\ held' = [held EXCEPT ![cb.tfer] = buf_current]
    /\ UNCHANGED buf_current

\* The callback points its transfer at the next buffer.
TakeNextBuffer ==
    /\ CountCompleted
    /\ buf_current <= bufs
    /\ held' = [held EXCEPT ![cb.tfer] = buf_current]
    /\ buf_current' = buf_current + 1

\* Mutant of CallbackResubmit: in_flight is not counted up again.
ResubmitUncounted ==
    /\ TakeNextBuffer
    /\ UsbSubmit(cb.tfer)
    /\ cb' = NoCallback
    /\ UNCHANGED <<co, loopVars, opVars, ec, in_flight, posts, stopVars, moved>>

CallbackResubmit ==
    /\ TakeNextBuffer
    /\ UsbSubmit(cb.tfer)
    /\ in_flight' = in_flight + 1
    /\ cb' = NoCallback
    /\ UNCHANGED <<co, loopVars, opVars, ec, posts, stopVars, moved>>

CallbackResubmitFails ==
    /\ SubmitMayFail
    /\ TakeNextBuffer
    /\ ec' = "submit"
    /\ ResumeOnZero
    /\ UNCHANGED <<usbVars, co, loopVars, opVars, stopVars, moved>>

-----------------------------------------------------------------------------
(* Threads that stop or cancel                                             *)

\* request_stop(): runs the stop callback when one is registered.
RequestStop ==
    /\ ~stop
    /\ stop' = TRUE
    /\ canc' = IF co # "idle" /\ used > 0 THEN 1 ELSE 0
    /\ UNCHANGED <<usbVars, co, loopVars, opVars, buf_current, held, cb,
                   awaitVars, posts, ghostVars>>

\* Mutant of CancelNext: the loop ends before the last transfer.
CancelAllButLast ==
    /\ canc > 0
    /\ UsbCancel({canc})
    /\ canc' = IF canc + 1 >= used THEN 0 ELSE canc + 1
    /\ UNCHANGED <<co, loopVars, opVars, buf_current, held, cb, awaitVars,
                   posts, stop, ghostVars>>

\* One turn of the stop callback's loop over the transfers in use.
CancelNext ==
    /\ canc > 0
    /\ UsbCancel({canc})
    /\ canc' = IF canc = used THEN 0 ELSE canc + 1
    /\ UNCHANGED <<co, loopVars, opVars, buf_current, held, cb, awaitVars,
                   posts, stop, ghostVars>>

\* cancel_transfer() on one transfer of a pending operation.
CancelTransfer(t) ==
    /\ t \in flight \ doomed
    /\ UsbCancel({t})
    /\ UNCHANGED <<co, loopVars, opVars, buf_current, held, cb, awaitVars,
                   posts, stopVars, ghostVars>>

-----------------------------------------------------------------------------

Coroutine ==
    \/ \E m \in 0..MaxBuffers : Submit(m)
    \/ AwaitReady \/ AwaitStopped \/ AwaitSuspend
    \/ Resume \/ Return

SubmissionLoop == LoopSubmit \/ LoopSubmitFails \/ LoopRecordError

Callback == \/ CallbackErrored \/ CallbackLive \/ CallbackFailed
            \/ CallbackDrained \/ CallbackResubmit \/ CallbackResubmitFails

Next ==
    \/ Coroutine
    \/ SubmissionLoop
    \/ \E t \in Transfers, c \in Completions : Reap(t, c)
    \/ Callback
    \/ RequestStop
    \/ CancelNext
    \/ \E t \in Transfers : CancelTransfer(t)

SafeSpec == Init /\ [][Next]_vars

(***************************************************************************)
(* What the program itself guarantees: a started operation, a callback, a  *)
(* submission loop and a stop callback keep running.  Nobody has to start  *)
(* an operation or to request a stop.                                      *)
(***************************************************************************)
ProgramFairness ==
    /\ WF_vars(AwaitReady \/ AwaitStopped \/ AwaitSuspend)
    /\ WF_vars(SubmissionLoop)
    /\ WF_vars(Callback)
    /\ WF_vars(Resume)
    /\ WF_vars(Return)
    /\ WF_vars(CancelNext)

\* The device may stay silent; libusb hands back what was asked to cancel.
CancelsAreReaped ==
    \A t \in Transfers :
        WF_vars(t \in doomed /\ \E c \in Completions : Reap(t, c))

Spec == SafeSpec /\ ProgramFairness /\ CancelsAreReaped

\* A device that answers every transfer.
Responsive == \A t \in Transfers : WF_vars(\E c \in Completions : Reap(t, c))

-----------------------------------------------------------------------------
(* Properties                                                              *)

\* Transfers of the pending operation whose turn in the first loop has not
\* come, or never comes because the loop ended with an error.
Unsubmitted == IF co = "suspended" THEN next..used ELSE {}

\* The transfers in_flight is meant to count.
Owed == flight \cup Unsubmitted

\* The transfer transfer_callback is working on.
InCallback == IF cb = NoCallback THEN {} ELSE {cb.tfer}

(***************************************************************************)
(* The count that decides when the coroutine is posted is, at every moment *)
(* and for every interleaving of the submission loop, the callbacks and    *)
(* the cancellations, the number of transfers still owed to it.            *)
(***************************************************************************)
FlightAccounting ==
    co = "suspended" => in_flight = Cardinality(Owed)

(***************************************************************************)
(* From the post of the continuation on, and whenever the awaitable and    *)
(* its await_state_t may be gone, no transfer that points at them is in    *)
(* flight, no callback is running and the submission loop has ended.       *)
(***************************************************************************)
QuiescentAtResume ==
    (posts > 0 \/ co # "suspended") =>
        flight = {} /\ cb = NoCallback /\ loop = "off"

(***************************************************************************)
(* The continuation is posted at most once, and only to a suspended        *)
(* coroutine; and one suspended on a nonempty sequence is not forgotten:   *)
(* when nothing is owed to it any more the post has been made.             *)
(***************************************************************************)
PostedExactlyOnce ==
    /\ posts = 0 \/ (posts = 1 /\ co = "suspended")
    /\ co = "suspended" /\ used > 0 /\ Owed = {} /\ cb = NoCallback => posts = 1

(***************************************************************************)
(* Two transfers the device or a callback works on never point into the    *)
(* same buffer, and each points into one of the operation's buffers.       *)
(***************************************************************************)
NoSharedBuffer ==
    \A t \in flight \cup InCallback :
        /\ held[t] \in 1..bufs
        /\ \A u \in (flight \cup InCallback) \ {t} : held[u] # held[t]

\* A result without an error means that every buffer was completed.
SuccessMeansAll == co = "resumed" /\ ec = "none" => done = 1..bufs

(***************************************************************************)
(* The returned length never exceeds what the device moved, and is exactly *)
(* that when the result is a success.                                      *)
(***************************************************************************)
TotalSound ==
    /\ total <= moved
    /\ co = "resumed" /\ ec = "none" => total = moved

(***************************************************************************)
(* What an operation reports: a success is all of its buffers and all of   *)
(* the bytes, a failure at most the bytes that were moved.                 *)
(***************************************************************************)
ResultSound == SuccessMeansAll /\ TotalSound

\* What a suspended operation has yet to do: a transfer to submit is more than
\* one in flight, which with its buffer is more than one that is called back.
CallbackWork == CASE cb.pc = "entered" -> 2 [] cb.pc = "live" -> 1 [] cb.pc = "none" -> 0
LoopWork == CASE loop = "run" -> 2 [] loop = "failed" -> 1 [] loop = "off" -> 0
Work == 4 * (used + 1 - next) + 3 * Cardinality(flight) + 3 * (bufs + 1 - buf_current)
        + CallbackWork + LoopWork

\* Only the stop and the cancellations go on.
Aside == UNCHANGED <<flight, loopVars, opVars, buf_current, held, cb, awaitVars, posts,
                     ghostVars>>

WorksOn ==
    co = "suspended" /\ co' = "suspended" => (Work > Work' /\ Work' >= 0) \/ Aside

(***************************************************************************)
(* The operation never runs in circles.  Whatever the order of answers,    *)
(* errors and resubmissions, each step of its loop and of its callbacks    *)
(* leaves less to do, so a bounded number of answers brings it to its end; *)
(* all others leave its transfers, loop and buffers alone.                 *)
(***************************************************************************)
Dwindles == [][WorksOn]_vars

\* When the device answers, every operation returns to its caller.
OperationReturns == Responsive => (co # "idle" ~> co = "idle")

(***************************************************************************)
(* A stop request ends the operation even when the device never answers    *)
(* (the "@note Handles cancellation" of partial_io_base).                  *)
(***************************************************************************)
StopEndsOperation == stop /\ co # "idle" ~> co = "idle"

(***************************************************************************)
(* The same, for a stop whose callback starts after the submission loop,   *)
(* and an operation with no more buffers than transfers: nothing is        *)
(* resubmitted, and the stop is never lost.                                *)
(***************************************************************************)
StopEndsSingleRound ==
    canc = 1 /\ co = "suspended" /\ loop = "off" /\ bufs <= N ~> co = "idle"

\* The operation keeps the promise of TransferOp.
Op == INSTANCE TransferOp WITH
        Tfers <- Transfers,
        MaxLeft <- MaxBuffers,
        phase <- CASE co = "idle" -> "idle"
                   [] co \in {"called", "suspended"} -> "pending"
                   [] co = "resumed" -> "done",
        lent <- flight \cup InCallback,
        left <- bufs - Cardinality(done),
        failed <- ec # "none"

(***************************************************************************)
(* Seen from its caller, the streaming of N transfers over the buffers is  *)
(* the abstract operation: each step lends, gives back or finishes.        *)
(***************************************************************************)
ImplementsTransferOp == Op!Spec
=============================================================================
