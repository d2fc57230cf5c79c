----------------------------- MODULE CompleteIO -----------------------------
(***************************************************************************)
(* Complete I/O (transfer/complete_io.hpp and                              *)
(* transfer/detail/complete_sequence_awaitable.hpp): a transfer is sent    *)
(* again for the rest of its buffer until transfer_progress_t says that    *)
(* the buffer is full.                                                     *)
(*                                                                         *)
(* The coroutine, the submission loop, the stop callback and the count of  *)
(* transfers in flight are those of PartialIO, line by line; this module   *)
(* adds the lengths, and replaces what the callback does with a transfer   *)
(* that finished.                                                          *)
(***************************************************************************)
EXTENDS PartialIO

CONSTANTS
    Sizes,              \* the sizes a buffer may have
    Limit               \* single_transfer_limit

ASSUME SizesAssumption == Sizes \subseteq Nat
ASSUME LimitAssumption == Limit \in Nat \ {0}

VARIABLES
    size,               \* the buffers' sizes
    prg,                \* states: transfer_progress_t of each transfer
    length,             \* tfer->length
    fill                \* ghost: bytes of each buffer the device moved

sizeVars == <<size, prg, length, fill>>
completeVars == <<vars, sizeVars>>

Buffers == 1..MaxBuffers

\* ptr is the offset into the buffer held.
NoProgress == [ptr |-> 0, expected |-> 0, total |-> 0]

CompleteTypeOK ==
    /\ TypeOK
    /\ size \in [Buffers -> Sizes \cup {0}]
    /\ prg \in [Transfers -> [ptr : Nat, expected : Nat, total : Nat]]
    /\ length \in [Transfers -> 0..Limit]
    /\ fill \in [Buffers -> Nat]

CompleteInit ==
    /\ Init
    /\ size = [b \in Buffers |-> 0]
    /\ prg = [t \in Transfers |-> NoProgress]
    /\ length = [t \in Transfers |-> 0]
    /\ fill = [b \in Buffers |-> 0]

-----------------------------------------------------------------------------

(***************************************************************************)
(* complete_submit().  The constructor asserts that there is a transfer to *)
(* submit; built without assertions, an empty buffer sequence goes on to   *)
(* await_ready() as in PartialIO.                                          *)
(***************************************************************************)
CompleteSubmit(m) ==
    /\ Submit(m)
    /\ \E s \in [1..m -> Sizes] :
         size' = [b \in Buffers |-> IF b <= m THEN s[b] ELSE 0]
    /\ prg' = [t \in Transfers |-> NoProgress]
    /\ fill' = [b \in Buffers |-> 0]
    /\ UNCHANGED length

\* await_suspend() prepares the progress and the length of each transfer.
CompleteSuspend ==
    /\ AwaitSuspend
    /\ prg' = [t \in Transfers |->
                 IF t <= used THEN [NoProgress EXCEPT !.expected = size[t]] ELSE prg[t]]
    /\ length' = [t \in Transfers |->
                    IF t <= used THEN Min2(size[t], Limit) ELSE length[t]]
    /\ UNCHANGED <<size, fill>>

\* What PartialIO says of the awaitable as it stands.
AsPartial ==
    /\ \/ AwaitReady \/ AwaitStopped \/ Resume \/ Return
       \/ SubmissionLoop
       \/ CallbackErrored \/ CallbackLive
       \/ RequestStop \/ CancelNext
       \/ \E t \in Transfers : CancelTransfer(t)
    /\ UNCHANGED sizeVars

\* The device moves no more than it was asked for.
CompleteReap(t, c) ==
    /\ c.actual <= length[t]
    /\ Reap(t, c)
    /\ fill' = [fill EXCEPT ![held[t]] = @ + c.actual]
    /\ UNCHANGED <<size, prg, length>>

-----------------------------------------------------------------------------
(* The callback, from the point where it looks at its transfer             *)

\* The transfer's progress with this completion's bytes counted.
Subtotal == cb.result.actual
Counted == [prg[cb.tfer] EXCEPT !.total = @ + Subtotal]

\* Mutant of BufferFull: any progress will do.
BufferTouched == Counted.total > 0

BufferFull == Counted.total >= Counted.expected

CompleteFailed ==
    /\ cb.pc = "live"
    /\ cb.result.status # "completed"
    /\ prg' = [prg EXCEPT ![cb.tfer] = Counted]
    /\ ec' = FailureCode(cb.result)
    /\ ResumeOnZero
    /\ UNCHANGED <<usbVars, co, loopVars, opVars, buf_current, held, total,
                   stopVars, ghostVars, size, length, fill>>

CompleteDrained ==
    /\ cb.pc = "live"
    /\ cb.result.status = "completed"
    /\ BufferFull
    /\ buf_current > bufs
    /\ prg' = [prg EXCEPT ![cb.tfer] = Counted]
    /\ done' = done \cup {held[cb.tfer]}
    /\ ResumeOnZero
    /\ UNCHANGED <<usbVars, co, loopVars, opVars, buf_current, held, ec, total,
                   stopVars, moved, size, length, fill>>

\* Mutant of TakeBuffer: buf_current is not advanced.
TakeBufferAgain ==
    /\ BufferFull
    /\ buf_current <= bufs
    /\ held' = [held EXCEPT ![cb.tfer] = buf_current]
    /\ prg' = [prg EXCEPT ![cb.tfer] =
                 [Counted EXCEPT !.ptr = 0, !.expected = size[buf_current]]]
    /\ length' = [length EXCEPT ![cb.tfer] = Min2(size[buf_current], Limit)]
    /\ done' = done \cup {held[cb.tfer]}
    /\ UNCHANGED buf_current

\* The buffer is full: take the next.  The count of bytes goes on.
TakeBuffer ==
    /\ BufferFull
    /\ buf_current <= bufs
    /\ held' = [held EXCEPT ![cb.tfer] = buf_current]
    /\ buf_current' = buf_current + 1
    /\ prg' = [prg EXCEPT ![cb.tfer] =
                 [Counted EXCEPT !.ptr = 0, !.expected = size[buf_current]]]
    /\ length' = [length EXCEPT ![cb.tfer] = Min2(size[buf_current], Limit)]
    /\ done' = done \cup {held[cb.tfer]}

\* Mutant of ContinueBuffer: the whole buffer is asked for again.
ContinueWhole ==
    /\ ~BufferFull
    /\ prg' = [prg EXCEPT ![cb.tfer] = [Counted EXCEPT !.ptr = @ + Subtotal]]
    /\ length' = [length EXCEPT ![cb.tfer] = Min2(Counted.expected, Limit)]
    /\ UNCHANGED <<held, buf_current, done>>

\* The buffer is not full: ask for the rest of it.
ContinueBuffer ==
    /\ ~BufferFull
    /\ prg' = [prg EXCEPT ![cb.tfer] = [Counted EXCEPT !.ptr = @ + Subtotal]]
    /\ length' = [length EXCEPT ![cb.tfer] =
                    Min2(Counted.expected - Counted.total, Limit)]
    /\ UNCHANGED <<held, buf_current, done>>

SubmitAgain ==
    /\ UsbSubmit(cb.tfer)
    /\ in_flight' = in_flight + 1
    /\ cb' = NoCallback
    /\ UNCHANGED <<ec, posts>>

\* Mutant of SubmitAgainFails: the refusal is not recorded.
SubmitRefusedSilently ==
    /\ SubmitMayFail
    /\ ResumeOnZero
    /\ UNCHANGED <<usbVars, ec>>

SubmitAgainFails ==
    /\ SubmitMayFail
    /\ ec' = "submit"
    /\ ResumeOnZero
    /\ UNCHANGED usbVars

CompleteResubmit ==
    /\ cb.pc = "live"
    /\ cb.result.status = "completed"
    /\ TakeBuffer \/ ContinueBuffer
    /\ SubmitAgain \/ SubmitAgainFails
    /\ UNCHANGED <<co, loopVars, opVars, total, stopVars, moved, size, fill>>

-----------------------------------------------------------------------------

CompleteNext ==
    \/ \E m \in 0..MaxBuffers : CompleteSubmit(m)
    \/ CompleteSuspend
    \/ AsPartial
    \/ \E t \in Transfers, c \in Completions : CompleteReap(t, c)
    \/ CompleteFailed \/ CompleteDrained \/ CompleteResubmit

CompleteSafeSpec == CompleteInit /\ [][CompleteNext]_completeVars

CompleteCallback == CompleteFailed \/ CompleteDrained \/ CompleteResubmit

(***************************************************************************)
(* The fairness of PartialIO's program, and a device that answers: it may  *)
(* complete a transfer without moving a byte, but not for ever.            *)
(***************************************************************************)
CompleteSpec ==
    /\ CompleteSafeSpec
    /\ WF_completeVars(CompleteSuspend)
    /\ WF_completeVars(AsPartial /\ (AwaitReady \/ AwaitStopped))
    /\ WF_completeVars(AsPartial /\ SubmissionLoop)
    /\ WF_completeVars(AsPartial /\ (CallbackErrored \/ CallbackLive))
    /\ WF_completeVars(CompleteCallback)
    /\ WF_completeVars(AsPartial /\ Resume)
    /\ WF_completeVars(AsPartial /\ Return)
    /\ WF_completeVars(AsPartial /\ CancelNext)
    /\ \A t \in Transfers :
         /\ WF_completeVars(\E c \in Completions : CompleteReap(t, c))
         /\ SF_completeVars(\E c \in Completions :
                              (c.actual > 0 \/ c.status # "completed") /\ CompleteReap(t, c))

-----------------------------------------------------------------------------
(* Properties                                                              *)

\* await_resume() adds up the transfers' totals.
Subtotals[t \in 0..N] == IF t = 0 THEN 0 ELSE Subtotals[t - 1] + prg[t].total
ReturnedTotal == Subtotals[N]

(***************************************************************************)
(* A transfer in flight writes behind the bytes of its buffer that are     *)
(* already there: no gap, none written twice.  It does not reach past the  *)
(* buffer's end, nor past the single transfer limit.                       *)
(***************************************************************************)
InBounds ==
    \A t \in flight :
        /\ prg[t].ptr = fill[held[t]]
        /\ prg[t].ptr + length[t] <= size[held[t]]
        /\ length[t] <= Limit

\* A success reports every byte the device moved.
ReportsAllBytes == co = "resumed" /\ ec = "none" => ReturnedTotal = moved

\* With a buffer per transfer a success means that every buffer is full.
SingleRoundFills ==
    co = "resumed" /\ ec = "none" /\ bufs <= N =>
        \A b \in 1..bufs : fill[b] = size[b]

(***************************************************************************)
(* What an operation reports: the bytes that the device moved, and with a  *)
(* buffer per transfer full buffers.                                       *)
(***************************************************************************)
ReportSound == ReportsAllBytes /\ SingleRoundFills

\* What is left to do; a callback that brought bytes may send its transfer again.
CompleteWork == Work + IF cb # NoCallback /\ cb.result.actual > 0 THEN 3 ELSE 0

\* Bytes arrive in one buffer that had room for them.
FillsUp == \E b \in Buffers : /\ fill'[b] > fill[b] /\ fill'[b] <= size[b]
                             /\ \A x \in Buffers \ {b} : fill'[x] = fill[x]

\* A transfer that moved nothing is sent again.
SentInVain == cb.pc = "live" /\ cb.result.actual = 0 /\ ContinueBuffer

CompleteWorksOn ==
    co = "suspended" /\ co' = "suspended" =>
        \/ FillsUp
        \/ fill' = fill /\ CompleteWork > CompleteWork' /\ CompleteWork' >= 0
        \/ fill' = fill /\ SentInVain
        \/ Aside /\ UNCHANGED sizeVars

(***************************************************************************)
(* As long as its transfers are not completed without a byte, a complete   *)
(* operation does not run in circles either: each step of it fills a       *)
(* buffer up or leaves less to do.  The condition is the one of the        *)
(* fairness above.                                                         *)
(***************************************************************************)
CompleteDwindles == [][CompleteWorksOn]_completeVars

(***************************************************************************)
(* Any success means that every buffer is full ("Reading less is always    *)
(* coupled with an error").                                                *)
(***************************************************************************)
SuccessFills ==
    co = "resumed" /\ ec = "none" => \A b \in 1..bufs : fill[b] = size[b]

\* An operation whose first submissions libusb accepts returns to its caller.
CompleteReturns == [](loop # "failed") => (co # "idle" ~> co = "idle")
=============================================================================
