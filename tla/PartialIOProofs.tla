-------------------------- MODULE PartialIOProofs --------------------------
(***************************************************************************)
(* Safety of the partial I/O operation for every number of transfers and   *)
(* buffers, every transfer type and every answer of the device: how the    *)
(* coroutine is resumed, what it does with the buffers, and that on bulk   *)
(* transfers it implements TransferOp.                                     *)
(***************************************************************************)
EXTENDS PartialIO, FiniteSetTheorems, TLAPS

\* What holds of the coroutine's phase, the callback and the post.
PhaseInv ==
    /\ co # "suspended" =>
         flight = {} /\ cb = NoCallback /\ loop = "off" /\ posts = 0
    /\ posts > 0 => posts = 1 /\ in_flight = 0 /\ cb = NoCallback

\* Where the submission loop and the stop callback's loop stand.
LoopInv ==
    /\ used <= bufs
    /\ co = "suspended" => next <= used + 1
    /\ loop # "off" => next <= used
    /\ \A t \in flight : t < next /\ t <= used
    /\ cb # NoCallback => cb.tfer < next /\ cb.tfer <= used /\ cb.tfer \notin flight
    /\ canc # 0 => canc <= used /\ co # "idle"

\* A count of zero has been noticed.
CountInv ==
    co = "suspended" /\ used > 0 /\ in_flight = 0 /\ cb = NoCallback => posts > 0

IInv == TypeOK /\ PhaseInv /\ LoopInv /\ CountInv /\ FlightAccounting

-----------------------------------------------------------------------------
(* Counting what is owed                                                   *)

\* Owed transfers are among 1..N, so there is a number of them.
LEMMA OwedFinite ==
    ASSUME TypeOK
    PROVE  IsFiniteSet(Owed)
<1>1. IsFiniteSet(1..N)
  BY NAssumption, FS_Interval
<1>2. Owed \subseteq 1..N
  BY NAssumption DEF Owed, Unsubmitted, TypeOK, UsbTypeOK, Transfers
<1>. QED
  BY <1>1, <1>2, FS_Subset

\* No owed transfer is counted as zero, and one is not.
LEMMA OwedCount ==
    ASSUME TypeOK, FlightAccounting, co = "suspended"
    PROVE  in_flight = 0 <=> Owed = {}
BY OwedFinite, FS_EmptySet DEF FlightAccounting

-----------------------------------------------------------------------------
(* The inductive invariant                                                 *)

\* With the count at zero the submission loop is over, too.
LEMMA PostedMeansQuiet == IInv => QuiescentAtResume
<1>. SUFFICES ASSUME IInv PROVE QuiescentAtResume
  OBVIOUS
<1>1. ASSUME posts > 0, co = "suspended"
      PROVE  flight = {} /\ cb = NoCallback /\ loop = "off"
  <2>1. in_flight = 0 /\ cb = NoCallback
    BY <1>1 DEF IInv, PhaseInv
  <2>2. Owed = {}
    BY <1>1, <2>1, OwedCount DEF IInv
  <2>3. loop # "off" => next \in Unsubmitted
    BY <1>1 DEF IInv, TypeOK, LoopInv, Unsubmitted
  <2>. QED
    BY <2>1, <2>2, <2>3 DEF Owed
<1>. QED
  BY <1>1 DEF IInv, PhaseInv, QuiescentAtResume

\* What TypeOK says of a callback that is running.
LEMMA CallbackTyped ==
    ASSUME TypeOK, cb # NoCallback
    PROVE  /\ cb \in [pc : {"entered", "live"}, tfer : Transfers, result : Completions]
           /\ cb.tfer \in Transfers
           /\ cb.result \in Completion
           /\ cb.result.status \in Statuses
           /\ cb.result.packet \in Statuses
           /\ cb.result.actual \in Nat
           /\ cb.result.packetLength \in Nat
<1>1. cb \in [pc : {"entered", "live"}, tfer : Transfers, result : Completions]
  BY DEF TypeOK, CallbackState
<1>2. cb.result \in Completion
  BY <1>1, CompletionsAssumption
<1>. QED
  BY <1>1, <1>2 DEF Completion

\* No callback is a callback state.
LEMMA NoCallbackTyped == NoCallback \in CallbackState /\ NoCallback.pc = "none"
BY DEF NoCallback, CallbackState

\* The invariant holds before the first operation.
LEMMA InitIInv == Init => IInv
<1>. SUFFICES ASSUME Init PROVE IInv
  OBVIOUS
<1>. USE NAssumption, MaxBuffersAssumption DEF Init, UsbInit
<1>1. TypeOK
  <2>1. cb \in CallbackState
    BY NoCallbackTyped
  <2>2. held \in [Transfers -> 0..MaxBuffers]
    BY DEF Transfers
  <2>3. stop \in BOOLEAN
    OBVIOUS
  <2>. QED
    BY <2>1, <2>2, <2>3 DEF TypeOK, UsbTypeOK
<1>2. PhaseInv /\ LoopInv /\ CountInv /\ FlightAccounting
  BY DEF PhaseInv, LoopInv, CountInv, FlightAccounting, NoCallback
<1>. QED
  BY <1>1, <1>2 DEF IInv

-----------------------------------------------------------------------------
(* One lemma per action                                                    *)

\* await_ready() with nothing to fill keeps it: nothing is in flight yet.
LEMMA AwaitReadyStep ==
    ASSUME IInv, AwaitReady
    PROVE  IInv'
<1>. USE NAssumption, MaxBuffersAssumption
     DEF IInv, AwaitReady,
         usbVars, opVars, loopVars, stopVars, awaitVars, ghostVars
<1>1. TypeOK'
  BY DEF TypeOK, UsbTypeOK, Transfers, LoopInv
<1>2. PhaseInv'
  BY DEF TypeOK, PhaseInv
<1>3. LoopInv'
  BY DEF TypeOK, UsbTypeOK, Transfers, PhaseInv, LoopInv
<1>4. CountInv'
  BY DEF TypeOK, PhaseInv, CountInv
<1>5. FlightAccounting'
  <2>1. co' = "suspended" => co = "suspended" /\ Owed' = Owed /\ in_flight' = in_flight
    BY DEF TypeOK, LoopInv, Owed, Unsubmitted
  <2>. QED
    BY <2>1 DEF FlightAccounting
<1>. QED
  BY <1>1, <1>2, <1>3, <1>4, <1>5

\* await_suspend() that finds the stop keeps it: nothing was submitted.
LEMMA AwaitStoppedStep ==
    ASSUME IInv, AwaitStopped
    PROVE  IInv'
<1>. USE NAssumption, MaxBuffersAssumption
     DEF IInv, AwaitStopped,
         usbVars, opVars, loopVars, stopVars, awaitVars, ghostVars
<1>1. TypeOK'
  BY DEF TypeOK, UsbTypeOK, Transfers, LoopInv
<1>2. PhaseInv'
  BY DEF TypeOK, PhaseInv
<1>3. LoopInv'
  BY DEF TypeOK, UsbTypeOK, Transfers, PhaseInv, LoopInv
<1>4. CountInv'
  BY DEF TypeOK, PhaseInv, CountInv
<1>5. FlightAccounting'
  <2>1. co' = "suspended" => co = "suspended" /\ Owed' = Owed /\ in_flight' = in_flight
    BY DEF TypeOK, LoopInv, Owed, Unsubmitted
  <2>. QED
    BY <2>1 DEF FlightAccounting
<1>. QED
  BY <1>1, <1>2, <1>3, <1>4, <1>5

\* Running the posted continuation keeps it: all was quiet at the post.
LEMMA ResumeStep ==
    ASSUME IInv, Resume
    PROVE  IInv'
<1>. USE NAssumption, MaxBuffersAssumption
     DEF IInv, Resume,
         usbVars, opVars, loopVars, stopVars, awaitVars, ghostVars
<1>1. TypeOK'
  <2>1. posts' \in Nat
    BY DEF TypeOK
  <2>. QED
    BY <2>1 DEF TypeOK, UsbTypeOK, Transfers
<1>2. PhaseInv'
  <2>1. posts = 1 /\ cb = NoCallback
    BY DEF PhaseInv, TypeOK
  <2>2. flight = {} /\ loop = "off"
    BY PostedMeansQuiet DEF QuiescentAtResume
  <2>. QED
    BY <2>1, <2>2 DEF PhaseInv
<1>3. LoopInv'
  BY DEF TypeOK, UsbTypeOK, Transfers, PhaseInv, LoopInv
<1>4. CountInv'
  BY DEF TypeOK, PhaseInv, CountInv
<1>5. FlightAccounting'
  <2>1. co' = "suspended" => co = "suspended" /\ Owed' = Owed /\ in_flight' = in_flight
    BY DEF TypeOK, LoopInv, Owed, Unsubmitted
  <2>. QED
    BY <2>1 DEF FlightAccounting
<1>. QED
  BY <1>1, <1>2, <1>3, <1>4, <1>5

\* co_return keeps it: the stop callback has ended.
LEMMA ReturnStep ==
    ASSUME IInv, Return
    PROVE  IInv'
<1>. USE NAssumption, MaxBuffersAssumption
     DEF IInv, Return,
         usbVars, opVars, loopVars, stopVars, awaitVars, ghostVars
<1>1. TypeOK'
  BY DEF TypeOK, UsbTypeOK, Transfers, LoopInv
<1>2. PhaseInv'
  BY DEF TypeOK, PhaseInv
<1>3. LoopInv'
  BY DEF TypeOK, UsbTypeOK, Transfers, PhaseInv, LoopInv
<1>4. CountInv'
  BY DEF TypeOK, PhaseInv, CountInv
<1>5. FlightAccounting'
  <2>1. co' = "suspended" => co = "suspended" /\ Owed' = Owed /\ in_flight' = in_flight
    BY DEF TypeOK, LoopInv, Owed, Unsubmitted
  <2>. QED
    BY <2>1 DEF FlightAccounting
<1>. QED
  BY <1>1, <1>2, <1>3, <1>4, <1>5

\* A refused submission keeps it: its transfer stays owed.
LEMMA LoopSubmitFailsStep ==
    ASSUME IInv, LoopSubmitFails
    PROVE  IInv'
<1>. USE NAssumption, MaxBuffersAssumption
     DEF IInv, LoopSubmitFails,
         usbVars, opVars, loopVars, stopVars, awaitVars, ghostVars
<1>1. TypeOK'
  BY DEF TypeOK, UsbTypeOK, Transfers, LoopInv
<1>2. PhaseInv'
  BY DEF TypeOK, PhaseInv
<1>3. LoopInv'
  BY DEF TypeOK, UsbTypeOK, Transfers, PhaseInv, LoopInv
<1>4. CountInv'
  BY DEF TypeOK, PhaseInv, CountInv
<1>5. FlightAccounting'
  <2>1. co' = "suspended" => co = "suspended" /\ Owed' = Owed /\ in_flight' = in_flight
    BY DEF TypeOK, LoopInv, Owed, Unsubmitted
  <2>. QED
    BY <2>1 DEF FlightAccounting
<1>. QED
  BY <1>1, <1>2, <1>3, <1>4, <1>5

\* Recording that error keeps it: ec decides no count.
LEMMA LoopRecordErrorStep ==
    ASSUME IInv, LoopRecordError
    PROVE  IInv'
<1>. USE NAssumption, MaxBuffersAssumption
     DEF IInv, LoopRecordError,
         usbVars, opVars, loopVars, stopVars, awaitVars, ghostVars
<1>1. TypeOK'
  BY DEF TypeOK, UsbTypeOK, Transfers, LoopInv
<1>2. PhaseInv'
  BY DEF TypeOK, PhaseInv
<1>3. LoopInv'
  BY DEF TypeOK, UsbTypeOK, Transfers, PhaseInv, LoopInv
<1>4. CountInv'
  BY DEF TypeOK, PhaseInv, CountInv
<1>5. FlightAccounting'
  <2>1. co' = "suspended" => co = "suspended" /\ Owed' = Owed /\ in_flight' = in_flight
    BY DEF TypeOK, LoopInv, Owed, Unsubmitted
  <2>. QED
    BY <2>1 DEF FlightAccounting
<1>. QED
  BY <1>1, <1>2, <1>3, <1>4, <1>5

\* request_stop() keeps it: the loop starts over transfers in use.
LEMMA RequestStopStep ==
    ASSUME IInv, RequestStop
    PROVE  IInv'
<1>. USE NAssumption, MaxBuffersAssumption
     DEF IInv, RequestStop,
         usbVars, opVars, loopVars, stopVars, awaitVars, ghostVars
<1>1. TypeOK'
  BY DEF TypeOK, UsbTypeOK, Transfers, LoopInv
<1>2. PhaseInv'
  BY DEF TypeOK, PhaseInv
<1>3. LoopInv'
  BY DEF TypeOK, UsbTypeOK, Transfers, PhaseInv, LoopInv
<1>4. CountInv'
  BY DEF TypeOK, PhaseInv, CountInv
<1>5. FlightAccounting'
  <2>1. co' = "suspended" => co = "suspended" /\ Owed' = Owed /\ in_flight' = in_flight
    BY DEF TypeOK, LoopInv, Owed, Unsubmitted
  <2>. QED
    BY <2>1 DEF FlightAccounting
<1>. QED
  BY <1>1, <1>2, <1>3, <1>4, <1>5

\* A turn of the stop callback keeps it: a cancelled transfer stays in flight.
LEMMA CancelNextStep ==
    ASSUME IInv, CancelNext
    PROVE  IInv'
<1>. USE NAssumption, MaxBuffersAssumption
     DEF IInv, CancelNext, UsbCancel,
         usbVars, opVars, loopVars, stopVars, awaitVars, ghostVars
<1>1. TypeOK'
  BY DEF TypeOK, UsbTypeOK, Transfers, LoopInv
<1>2. PhaseInv'
  BY DEF TypeOK, PhaseInv
<1>3. LoopInv'
  BY DEF TypeOK, UsbTypeOK, Transfers, PhaseInv, LoopInv
<1>4. CountInv'
  BY DEF TypeOK, PhaseInv, CountInv
<1>5. FlightAccounting'
  <2>1. co' = "suspended" => co = "suspended" /\ Owed' = Owed /\ in_flight' = in_flight
    BY DEF TypeOK, LoopInv, Owed, Unsubmitted
  <2>. QED
    BY <2>1 DEF FlightAccounting
<1>. QED
  BY <1>1, <1>2, <1>3, <1>4, <1>5

\* cancel_transfer() keeps it, for the same reason.
LEMMA CancelTransferStep ==
    ASSUME IInv, NEW t \in Transfers, CancelTransfer(t)
    PROVE  IInv'
<1>. USE NAssumption, MaxBuffersAssumption
     DEF IInv, CancelTransfer, UsbCancel,
         usbVars, opVars, loopVars, stopVars, awaitVars, ghostVars
<1>1. TypeOK'
  BY DEF TypeOK, UsbTypeOK, Transfers, LoopInv
<1>2. PhaseInv'
  BY DEF TypeOK, PhaseInv
<1>3. LoopInv'
  BY DEF TypeOK, UsbTypeOK, Transfers, PhaseInv, LoopInv
<1>4. CountInv'
  BY DEF TypeOK, PhaseInv, CountInv
<1>5. FlightAccounting'
  <2>1. co' = "suspended" => co = "suspended" /\ Owed' = Owed /\ in_flight' = in_flight
    BY DEF TypeOK, LoopInv, Owed, Unsubmitted
  <2>. QED
    BY <2>1 DEF FlightAccounting
<1>. QED
  BY <1>1, <1>2, <1>3, <1>4, <1>5

\* The types of what callbacks write besides the counts.
DataTyped ==
    /\ buf_current \in 1..MaxBuffers + 1
    /\ held \in [Transfers -> 0..MaxBuffers]
    /\ ec \in {"none", "cancelled", "error", "submit"}
    /\ total \in Nat
    /\ done \subseteq 0..MaxBuffers
    /\ moved \in Nat

\* A callback that ends posts exactly at count zero.
LEMMA CallbackEnds ==
    ASSUME IInv, cb # NoCallback, ResumeOnZero, DataTyped',
           UNCHANGED <<usbVars, co, loopVars, opVars, stopVars>>
    PROVE  IInv'
<1>. USE DEF IInv, ResumeOnZero, usbVars, opVars, loopVars, stopVars
<1>1. TypeOK'
  <2>1. cb' \in CallbackState /\ posts' \in Nat
    BY NoCallbackTyped DEF TypeOK
  <2>. QED
    BY <2>1 DEF TypeOK, UsbTypeOK, DataTyped
<1>2. PhaseInv' /\ CountInv'
  BY NoCallbackTyped, CallbackTyped DEF TypeOK, PhaseInv, CountInv
<1>3. LoopInv'
  BY NoCallbackTyped, CallbackTyped, NAssumption
  DEF TypeOK, UsbTypeOK, Transfers, PhaseInv, LoopInv
<1>4. FlightAccounting'
  <2>1. Owed' = Owed
    BY DEF Owed, Unsubmitted
  <2>. QED
    BY <2>1 DEF FlightAccounting
<1>. QED
  BY <1>1, <1>2, <1>3, <1>4

\* An earlier error ends the callback.
LEMMA CallbackErroredStep ==
    ASSUME IInv, CallbackErrored
    PROVE  IInv'
BY CallbackEnds DEF CallbackErrored, NoCallback, DataTyped, IInv, TypeOK, ghostVars

\* Reading ec changes no count.
LEMMA CallbackLiveStep ==
    ASSUME IInv, CallbackLive
    PROVE  IInv'
<1>. USE NAssumption, MaxBuffersAssumption
     DEF IInv, CallbackLive,
         usbVars, opVars, loopVars, stopVars, awaitVars, ghostVars
<1>. cb # NoCallback
  BY DEF NoCallback
<1>1. TypeOK'
  <2>1. cb' \in CallbackState
    BY NoCallbackTyped, CallbackTyped DEF CallbackState
  <2>2. total' \in Nat /\ posts' \in Nat
    BY CallbackTyped DEF TypeOK
  <2>3. ec' \in {"none", "cancelled", "error", "submit"}
    BY CallbackTyped DEF TypeOK, Statuses
  <2>4. done' \subseteq 0..MaxBuffers /\ held' \in [Transfers -> 0..MaxBuffers]
    BY CallbackTyped DEF TypeOK
  <2>5. buf_current' \in 1..MaxBuffers + 1
    BY DEF TypeOK
  <2>. QED
    BY <2>1, <2>2, <2>3, <2>4, <2>5 DEF TypeOK, UsbTypeOK
<1>2. PhaseInv'
  BY NoCallbackTyped, CallbackTyped DEF TypeOK, PhaseInv
<1>3. LoopInv'
  BY NoCallbackTyped, CallbackTyped DEF TypeOK, UsbTypeOK, Transfers, PhaseInv, LoopInv
<1>4. CountInv'
  BY NoCallbackTyped, CallbackTyped DEF TypeOK, PhaseInv, CountInv
<1>5. FlightAccounting'
  <2>1. co' = "suspended" => co = "suspended" /\ Owed' = Owed /\ in_flight' = in_flight
    BY DEF TypeOK, LoopInv, Owed, Unsubmitted
  <2>. QED
    BY <2>1 DEF FlightAccounting
<1>. QED
  BY <1>1, <1>2, <1>3, <1>4, <1>5

\* A failed transfer ends its callback.
LEMMA CallbackFailedStep ==
    ASSUME IInv, CallbackFailed
    PROVE  IInv'
<1>1. cb # NoCallback
  BY DEF CallbackFailed, NoCallback
<1>2. DataTyped'
  BY <1>1, CallbackTyped, MaxBuffersAssumption
  DEF CallbackFailed, FailureCode, FailureBytes, TransferStatus,
      ghostVars, DataTyped, Statuses, IInv, TypeOK
<1>. QED
  BY <1>1, <1>2, CallbackEnds DEF CallbackFailed

\* A callback without a next buffer ends.
LEMMA CallbackDrainedStep ==
    ASSUME IInv, CallbackDrained
    PROVE  IInv'
<1>1. cb # NoCallback
  BY DEF CallbackDrained, CountCompleted, NoCallback
<1>2. DataTyped'
  BY <1>1, CallbackTyped, MaxBuffersAssumption
  DEF CallbackDrained, CountCompleted, DataTyped, Statuses, IInv, TypeOK
<1>. QED
  BY <1>1, <1>2, CallbackEnds DEF CallbackDrained

\* A callback whose resubmission is refused ends.
LEMMA CallbackResubmitFailsStep ==
    ASSUME IInv, CallbackResubmitFails
    PROVE  IInv'
<1>1. cb # NoCallback
  BY DEF CallbackResubmitFails, TakeNextBuffer, CountCompleted, NoCallback
<1>2. DataTyped'
  BY <1>1, CallbackTyped, MaxBuffersAssumption
  DEF CallbackResubmitFails, TakeNextBuffer, CountCompleted, 
      DataTyped, Statuses, IInv, TypeOK
<1>. QED
  BY <1>1, <1>2, CallbackEnds DEF CallbackResubmitFails, TakeNextBuffer, CountCompleted

\* submit() starts from a quiet awaitable.
LEMMA SubmitStep ==
    ASSUME IInv, NEW m \in 0..MaxBuffers, Submit(m)
    PROVE  IInv'
<1>. USE NAssumption, MaxBuffersAssumption
     DEF IInv, Submit, UsbCancel, Min2,
         usbVars, opVars, loopVars, stopVars, awaitVars, ghostVars
<1>1. TypeOK'
  <2>1. used' \in 0..N /\ bufs' \in 0..MaxBuffers
    BY DEF Min2
  <2>2. doomed' \subseteq flight
    BY DEF TypeOK, UsbTypeOK
  <2>. QED
    BY <2>1, <2>2 DEF TypeOK, UsbTypeOK
<1>2. PhaseInv'
  BY DEF TypeOK, PhaseInv
<1>3. LoopInv'
  BY DEF TypeOK, UsbTypeOK, Transfers, PhaseInv, LoopInv
<1>4. CountInv'
  BY DEF TypeOK, PhaseInv, CountInv
<1>5. FlightAccounting'
  BY DEF FlightAccounting
<1>. QED
  BY <1>1, <1>2, <1>3, <1>4, <1>5

\* await_suspend() counts in all transfers before it submits one.
LEMMA AwaitSuspendStep ==
    ASSUME IInv, AwaitSuspend
    PROVE  IInv'
<1>. USE NAssumption, MaxBuffersAssumption
     DEF IInv, AwaitSuspend,
         usbVars, opVars, loopVars, stopVars, awaitVars, ghostVars
<1>1. TypeOK'
  <2>1. held' \in [Transfers -> 0..MaxBuffers]
    BY DEF TypeOK, Transfers, LoopInv
  <2>. QED
    BY <2>1 DEF TypeOK, UsbTypeOK, LoopInv
<1>2. PhaseInv'
  BY DEF TypeOK, PhaseInv
<1>3. LoopInv'
  BY DEF TypeOK, UsbTypeOK, Transfers, PhaseInv, LoopInv
<1>4. CountInv'
  BY DEF TypeOK, PhaseInv, CountInv
<1>5. FlightAccounting'
  <2>1. Owed' = 1..used
    <3>1. Unsubmitted' = 1..used
      BY DEF Unsubmitted
    <3>2. flight' = {}
      BY DEF PhaseInv
    <3>. QED
      BY <3>1, <3>2 DEF Owed
  <2>2. Cardinality(1..used) = used
    <3>1. used \in Int /\ used >= 0
      BY DEF TypeOK
    <3>2. 1 \in Int
      OBVIOUS
    <3>3. Cardinality(1..used) = IF 1 > used THEN 0 ELSE used - 1 + 1
      BY <3>1, <3>2, FS_Interval
    <3>. QED
      BY <3>1, <3>3
  <2>. QED
    BY <2>1, <2>2 DEF FlightAccounting
<1>. QED
  BY <1>1, <1>2, <1>3, <1>4, <1>5

\* A submission moves its transfer from not submitted to in flight: still owed.
LEMMA LoopSubmitStep ==
    ASSUME IInv, LoopSubmit
    PROVE  IInv'
<1>. USE NAssumption, MaxBuffersAssumption
     DEF IInv, LoopSubmit, UsbSubmit,
         usbVars, opVars, loopVars, stopVars, awaitVars, ghostVars
<1>1. TypeOK'
  BY DEF TypeOK, UsbTypeOK, Transfers, LoopInv
<1>2. PhaseInv'
  BY DEF TypeOK, PhaseInv
<1>3. LoopInv'
  <2>1. cb # NoCallback => cb.tfer \in 1..N
    BY CallbackTyped DEF Transfers
  <2>. QED
    BY <2>1 DEF TypeOK, UsbTypeOK, Transfers, PhaseInv, LoopInv
<1>4. CountInv'
  BY DEF TypeOK, PhaseInv, CountInv
<1>5. FlightAccounting'
  <2>1. Owed' = Owed
    BY DEF TypeOK, PhaseInv, LoopInv, Owed, Unsubmitted
  <2>. QED
    BY <2>1 DEF FlightAccounting
<1>. QED
  BY <1>1, <1>2, <1>3, <1>4, <1>5

\* transfer_callback counts its transfer out as it leaves libusb.
LEMMA ReapStep ==
    ASSUME IInv, NEW t \in Transfers, NEW c \in Completions, Reap(t, c)
    PROVE  IInv'
<1>. USE NAssumption, MaxBuffersAssumption
     DEF IInv, Reap, UsbReap,
         usbVars, opVars, loopVars, stopVars, awaitVars, ghostVars
<1>1. co = "suspended" /\ posts = 0 /\ t < next /\ t <= used
  <2>1. co = "suspended" /\ t < next /\ t <= used
    BY DEF PhaseInv, LoopInv
  <2>2. t \in Owed
    BY DEF Owed
  <2>3. in_flight # 0
    BY <2>1, <2>2, OwedCount
  <2>. QED
    BY <2>1, <2>3 DEF PhaseInv, TypeOK
<1>2. in_flight \in 1..N /\ Owed' = Owed \ {t} /\ Cardinality(Owed') = in_flight - 1
  <2>1. t \in Owed
    BY DEF Owed
  <2>2. in_flight # 0
    BY <1>1, <2>1, OwedCount
  <2>3. Owed' = Owed \ {t}
    BY <1>1 DEF Owed, Unsubmitted, TypeOK, Transfers
  <2>4. Cardinality(Owed \ {t}) = Cardinality(Owed) - 1
    BY <2>1, OwedFinite, FS_RemoveElement
  <2>. QED
    BY <1>1, <2>2, <2>3, <2>4 DEF FlightAccounting, TypeOK
<1>3. c \in Completion /\ c.actual \in Nat
  BY CompletionsAssumption DEF Completion
<1>4. cb' \in CallbackState /\ cb' # NoCallback /\ cb'.tfer = t
  BY DEF CallbackState, NoCallback
<1>5. TypeOK'
  <2>1. in_flight' \in 0..N /\ moved' \in Nat
    BY <1>2, <1>3 DEF TypeOK
  <2>2. UsbTypeOK'
    BY DEF TypeOK, UsbTypeOK
  <2>. QED
    BY <1>4, <2>1, <2>2 DEF TypeOK
<1>6. PhaseInv' /\ CountInv'
  BY <1>1, <1>4 DEF PhaseInv, CountInv
<1>7. LoopInv'
  BY <1>1, <1>4 DEF LoopInv
<1>8. FlightAccounting'
  BY <1>2 DEF FlightAccounting
<1>. QED
  BY <1>5, <1>6, <1>7, <1>8

\* A resubmission counts its transfer in as it goes back to libusb.
LEMMA CallbackGoesOn ==
    ASSUME IInv, cb # NoCallback, cb' = NoCallback, UsbSubmit(cb.tfer), DataTyped',
           in_flight' = in_flight + 1,
           UNCHANGED <<co, loopVars, opVars, posts, stopVars>>
    PROVE  IInv'
<1>. USE NAssumption, MaxBuffersAssumption
     DEF IInv, UsbSubmit, usbVars, opVars, loopVars, stopVars
<1>. DEFINE t == cb.tfer
<1>1. t \in Transfers
  BY CallbackTyped
<1>2. co = "suspended" /\ posts = 0 /\ t < next /\ t <= used
  BY DEF PhaseInv, LoopInv, TypeOK
<1>3. Owed' = Owed \cup {t} /\ Cardinality(Owed') = in_flight + 1
  <2>1. t \notin Owed
    BY <1>1, <1>2 DEF LoopInv, TypeOK, Owed, Unsubmitted, Transfers
  <2>2. Owed' = Owed \cup {t}
    BY DEF Owed, Unsubmitted
  <2>3. Cardinality(Owed \cup {t}) = Cardinality(Owed) + 1
    BY <2>1, OwedFinite, FS_AddElement
  <2>. QED
    BY <1>2, <2>2, <2>3 DEF FlightAccounting
<1>4. in_flight' \in 0..N
  <2>. HIDE DEF t
  <2>0. Owed \subseteq 1..N
    BY DEF TypeOK, UsbTypeOK, Transfers, Owed, Unsubmitted
  <2>1. Owed' \subseteq 1..N
    BY <1>1, <1>3, <2>0 DEF Transfers
  <2>2. IsFiniteSet(1..N) /\ Cardinality(1..N) = N
    BY FS_Interval
  <2>3. Cardinality(Owed') <= N
    BY <2>1, <2>2, FS_Subset
  <2>. QED
    BY <1>3, <2>3 DEF TypeOK
<1>5. TypeOK'
  <2>1. UsbTypeOK' /\ cb' \in CallbackState
    BY <1>1, NoCallbackTyped DEF TypeOK, UsbTypeOK
  <2>. QED
    BY <1>4, <2>1 DEF TypeOK, DataTyped
<1>6. PhaseInv' /\ CountInv'
  BY <1>2 DEF PhaseInv, CountInv, TypeOK
<1>7. LoopInv'
  BY <1>1, <1>2 DEF LoopInv
<1>8. FlightAccounting'
  BY <1>3 DEF FlightAccounting
<1>. QED
  BY <1>5, <1>6, <1>7, <1>8

\* A callback takes the next buffer and goes on.
LEMMA CallbackResubmitStep ==
    ASSUME IInv, CallbackResubmit
    PROVE  IInv'
<1>1. cb # NoCallback
  BY DEF CallbackResubmit, TakeNextBuffer, CountCompleted, NoCallback
<1>2. DataTyped'
  BY <1>1, CallbackTyped, MaxBuffersAssumption
  DEF CallbackResubmit, TakeNextBuffer, CountCompleted, DataTyped, IInv, TypeOK
<1>. QED
  BY <1>1, <1>2, CallbackGoesOn DEF CallbackResubmit

-----------------------------------------------------------------------------
(* The theorems                                                            *)

\* Steps of others keep it.
LEMMA StutterStep ==
    ASSUME IInv, UNCHANGED vars
    PROVE  IInv'
<1>. USE DEF vars, usbVars, opVars, loopVars, stopVars, awaitVars, ghostVars
<1>1. TypeOK'
  BY DEF IInv, TypeOK, UsbTypeOK
<1>2. PhaseInv' /\ LoopInv' /\ CountInv'
  BY DEF IInv, PhaseInv, LoopInv, CountInv
<1>3. FlightAccounting'
  BY DEF IInv, FlightAccounting, Owed, Unsubmitted
<1>. QED
  BY <1>1, <1>2, <1>3 DEF IInv

\* Every step of the operation keeps the invariant.
LEMMA NextIInv == IInv /\ [Next]_vars => IInv'
<1>. SUFFICES ASSUME IInv, [Next]_vars PROVE IInv'
  OBVIOUS
<1>1. CASE Coroutine
  BY <1>1, SubmitStep, AwaitReadyStep, AwaitStoppedStep, AwaitSuspendStep,
     ResumeStep, ReturnStep DEF Coroutine
<1>2. CASE SubmissionLoop
  BY <1>2, LoopSubmitStep, LoopSubmitFailsStep, LoopRecordErrorStep
  DEF SubmissionLoop
<1>3. CASE \E t \in Transfers, c \in Completions : Reap(t, c)
  BY <1>3, ReapStep
<1>4. CASE Callback
  BY <1>4, CallbackErroredStep, CallbackLiveStep, CallbackFailedStep,
     CallbackDrainedStep, CallbackResubmitStep, CallbackResubmitFailsStep
  DEF Callback
<1>5. CASE RequestStop \/ CancelNext \/ \E t \in Transfers : CancelTransfer(t)
  BY <1>5, RequestStopStep, CancelNextStep, CancelTransferStep
<1>6. CASE UNCHANGED vars
  BY <1>6, StutterStep
<1>. QED
  BY <1>1, <1>2, <1>3, <1>4, <1>5, <1>6 DEF Next

\* The inductive invariant holds of every behaviour.
THEOREM Invariance == SafeSpec => []IInv
BY InitIInv, NextIInv, PTL DEF SafeSpec

\* Type correctness of the operation.
THEOREM TypeCorrect == SafeSpec => []TypeOK
BY Invariance, PTL DEF IInv

(***************************************************************************)
(* in_flight is the number of transfers still owed to the coroutine, under *)
(* every interleaving of await_suspend, transfer_callback and the stop     *)
(* callback, with and without submission errors.                           *)
(***************************************************************************)
THEOREM CountingCorrect == SafeSpec => []FlightAccounting
BY Invariance, PTL DEF IInv

(***************************************************************************)
(* No transfer, callback or submission loop is left to touch the awaitable *)
(* and its await_state_t once the continuation is posted.                  *)
(***************************************************************************)
THEOREM ResumedInQuiet == SafeSpec => []QuiescentAtResume
BY Invariance, PostedMeansQuiet, PTL

\* resume_on_zero posts the continuation once, to a suspended coroutine, and
\* has posted it when nothing is owed any more.
THEOREM ResumedOnce == SafeSpec => []PostedExactlyOnce
<1>1. ASSUME IInv PROVE PostedExactlyOnce
  <2>1. posts = 0 \/ (posts = 1 /\ co = "suspended")
    BY <1>1 DEF IInv, TypeOK, PhaseInv
  <2>2. co = "suspended" /\ used > 0 /\ Owed = {} /\ cb = NoCallback => posts > 0
    BY <1>1, OwedCount DEF IInv, CountInv
  <2>. QED
    BY <2>1, <2>2 DEF PostedExactlyOnce
<1>. QED
  BY <1>1, Invariance, PTL

-----------------------------------------------------------------------------
(* The buffers: none is used twice, and a success of a bulk operation      *)
(* means all of them.                                                      *)

\* The transfers that have, or will have, their buffer filled.
Working == Owed \cup InCallback

\* Buffers are given out in order, and each to one transfer.
BufferInv ==
    /\ co = "called" => buf_current = 1 /\ done = {} /\ ec = "none"
    /\ posts > 0 => used > 0
    /\ co = "suspended" =>
        /\ buf_current <= bufs + 1
        /\ done \subseteq 1..bufs
        /\ \A t \in Working :
            /\ held[t] \in 1..buf_current - 1
            /\ \A u \in Working \ {t} : held[u] # held[t]

\* Until an error, a buffer that was given out is done or worked on.
SuccessInv ==
    /\ co = "suspended" /\ ec = "none" /\ loop # "failed" =>
        /\ \A b \in 1..buf_current - 1 : b \in done \/ \E t \in Working : held[t] = b
        /\ used > 0 /\ Working = {} => buf_current > bufs
    /\ SuccessMeansAll

\* Bytes that the device moved and nobody has looked at.
Unseen == IF cb = NoCallback THEN 0 ELSE cb.result.actual

TotalInv == /\ total + Unseen <= moved
            /\ ec = "none" => total + Unseen = moved

OrderInv == BufferInv /\ (TransferType = "bulk" => SuccessInv)

DataInv == OrderInv /\ (TransferType = "bulk" => TotalInv)

\* The transfers are worked on while the coroutine is suspended only.
LEMMA WorkingTyped ==
    ASSUME IInv
    PROVE  /\ Working \subseteq Transfers
           /\ co # "suspended" => Working = {}
           /\ \A t \in Working : t <= used
<1>1. InCallback \subseteq Transfers /\ \A t \in InCallback : t <= used
  BY CallbackTyped DEF IInv, InCallback, LoopInv
<1>2. Owed \subseteq Transfers /\ \A t \in Owed : t <= used
  BY NAssumption DEF IInv, TypeOK, UsbTypeOK, LoopInv, Owed, Unsubmitted, Transfers
<1>3. co # "suspended" => Working = {}
  BY DEF IInv, PhaseInv, Working, Owed, Unsubmitted, InCallback
<1>. QED
  BY <1>1, <1>2, <1>3 DEF Working

\* No buffer is given out before the first operation.
LEMMA InitDataInv == Init => DataInv
<1>. SUFFICES ASSUME Init PROVE DataInv
  OBVIOUS
<1>1. BufferInv
  BY DEF Init, BufferInv
<1>2. SuccessInv /\ TotalInv
  BY DEF Init, SuccessInv, SuccessMeansAll, TotalInv, Unseen
<1>. QED
  BY <1>1, <1>2 DEF DataInv, OrderInv

-----------------------------------------------------------------------------
(* The coroutine                                                           *)

\* submit() and await_ready() start with no buffer given out.
LEMMA StartStep ==
    ASSUME IInv, OrderInv, (\E m \in 0..MaxBuffers : Submit(m)) \/ AwaitReady \/ AwaitStopped
    PROVE  OrderInv'
<1>1. cb = NoCallback /\ cb' = NoCallback /\ posts = 0 /\ posts' = 0
  BY DEF IInv, PhaseInv, Submit, AwaitReady, AwaitStopped
<1>2. CASE \E m \in 0..MaxBuffers : Submit(m)
  BY <1>1, <1>2 DEF Submit, OrderInv, BufferInv, SuccessInv, SuccessMeansAll
<1>3. CASE AwaitReady
  <2>1. bufs = 0
    BY <1>3 DEF AwaitReady, OrderInv, BufferInv, IInv, TypeOK
  <2>. QED
    BY <1>1, <1>3, <2>1 DEF AwaitReady, OrderInv, BufferInv, SuccessInv, SuccessMeansAll,
       opVars, awaitVars, ghostVars
<1>4. CASE AwaitStopped
  BY <1>1, <1>4 DEF AwaitStopped, OrderInv, BufferInv, SuccessInv, SuccessMeansAll,
     opVars, ghostVars
<1>. QED
  BY <1>2, <1>3, <1>4

\* await_suspend() gives each transfer the buffer of its own number.
LEMMA SuspendStep ==
    ASSUME IInv, OrderInv, AwaitSuspend
    PROVE  OrderInv'
<1>1. /\ flight' = {} /\ cb' = NoCallback /\ posts' = 0
      /\ cb = NoCallback
      /\ co' = "suspended" /\ next' = 1 /\ buf_current' = used + 1
      /\ held' = [t \in Transfers |-> IF t <= used THEN t ELSE held[t]]
      /\ UNCHANGED <<used, bufs, done, ec, total, moved>>
  BY DEF AwaitSuspend, IInv, PhaseInv, usbVars, opVars, ghostVars
<1>2. /\ used \in 0..N /\ used <= bufs /\ bufs \in Nat /\ N \in Nat
      /\ done = {}
  BY NAssumption, MaxBuffersAssumption
  DEF AwaitSuspend, IInv, TypeOK, LoopInv, OrderInv, BufferInv
<1>3. Working' = 1..used
  BY <1>1 DEF Working, Owed, Unsubmitted, InCallback
<1>4. \A t \in 1..used : held'[t] = t
  BY <1>1, <1>2 DEF Transfers
<1>5. BufferInv'
  BY <1>1, <1>2, <1>3, <1>4 DEF BufferInv
<1>6. SuccessInv'
  BY <1>1, <1>2, <1>3, <1>4 DEF SuccessInv, SuccessMeansAll
<1>. QED
  BY <1>5, <1>6 DEF OrderInv

\* A coroutine that is resumed without an error is resumed with every buffer done.
LEMMA ResumeDataStep ==
    ASSUME IInv, OrderInv, Resume
    PROVE  OrderInv'
<1>1. /\ cb = NoCallback /\ cb' = cb /\ co = "suspended" /\ co' = "resumed"
      /\ posts = 1 /\ posts' = 0 /\ used > 0 /\ loop = "off"
      /\ UNCHANGED <<used, bufs, buf_current, done, ec, total, moved>>
  BY PostedMeansQuiet DEF Resume, IInv, PhaseInv, TypeOK, OrderInv, BufferInv,
     QuiescentAtResume, opVars, awaitVars, ghostVars
<1>2. Working = {}
  <2>1. in_flight = 0
    BY <1>1 DEF IInv, PhaseInv
  <2>. QED
    BY <1>1, <2>1, OwedCount DEF IInv, Working, InCallback
<1>3. BufferInv'
  BY <1>1 DEF BufferInv
<1>4. TransferType = "bulk" => SuccessInv'
  <2>. SUFFICES ASSUME TransferType = "bulk" PROVE SuccessInv'
    OBVIOUS
  <2>1. ec = "none" => done = 1..bufs
    <3>1. ec = "none" => buf_current > bufs /\ \A b \in 1..buf_current - 1 : b \in done
      BY <1>1, <1>2 DEF OrderInv, SuccessInv
    <3>2. done \subseteq 1..bufs /\ bufs \in Nat /\ buf_current \in Nat
      BY <1>1, MaxBuffersAssumption DEF OrderInv, BufferInv, IInv, TypeOK
    <3>3. ec = "none" => \A b \in 1..bufs : b \in 1..buf_current - 1
      BY <3>1, <3>2
    <3>. QED
      BY <3>1, <3>2, <3>3
  <2>. QED
    BY <1>1, <2>1 DEF OrderInv, SuccessInv, SuccessMeansAll
<1>. QED
  BY <1>3, <1>4 DEF OrderInv

\* co_return leaves the buffers as they are.
LEMMA ReturnDataStep ==
    ASSUME IInv, OrderInv, Return
    PROVE  OrderInv'
<1>1. /\ co' = "idle"
      /\ UNCHANGED <<used, bufs, cb, posts, ec, total, moved>>
  BY DEF Return, opVars, awaitVars, ghostVars
<1>. QED
  BY <1>1 DEF OrderInv, BufferInv, SuccessInv, SuccessMeansAll

-----------------------------------------------------------------------------
(* Steps that give out no buffer                                           *)

\* The same transfers are worked on as before.
LEMMA Quiet ==
    ASSUME IInv, OrderInv, Working' = Working,
           UNCHANGED <<co, used, bufs, buf_current, held, done, ec, posts>>,
           loop = "failed" => loop' = "failed"
    PROVE  OrderInv'
<1>1. BufferInv'
  BY DEF OrderInv, BufferInv
<1>2. TransferType = "bulk" => SuccessInv'
  BY DEF OrderInv, SuccessInv, SuccessMeansAll
<1>. QED
  BY <1>1, <1>2 DEF OrderInv

\* The submission loop, a callback that goes on, and whoever cancels.
LEMMA QuietStep ==
    ASSUME IInv, OrderInv,
           \/ LoopSubmit \/ LoopSubmitFails \/ CallbackLive
           \/ RequestStop \/ CancelNext \/ \E t \in Transfers : CancelTransfer(t)
           \/ UNCHANGED vars
    PROVE  OrderInv'
<1>1. CASE LoopSubmit
  <2>1. Owed' = Owed
    BY <1>1, NAssumption DEF LoopSubmit, UsbSubmit, opVars, IInv, TypeOK, PhaseInv,
       LoopInv, Owed, Unsubmitted
  <2>. QED
    BY <1>1, <2>1, Quiet DEF LoopSubmit, Working, InCallback, opVars, awaitVars,
       ghostVars
<1>2. CASE LoopSubmitFails
  BY <1>2, Quiet DEF LoopSubmitFails, Working, Owed, Unsubmitted, InCallback,
     usbVars, opVars, awaitVars, ghostVars
<1>3. CASE CallbackLive
  <2>1. cb # NoCallback /\ cb' # NoCallback /\ cb'.tfer = cb.tfer /\ cb'.result = cb.result
    BY <1>3, CallbackTyped DEF CallbackLive, NoCallback, IInv
  <2>. QED
    BY <1>3, <2>1, Quiet DEF CallbackLive, Working, Owed, Unsubmitted, InCallback,
       usbVars, opVars, loopVars, awaitVars, ghostVars
<1>4. CASE RequestStop \/ CancelNext \/ \E t \in Transfers : CancelTransfer(t)
  BY <1>4, Quiet DEF RequestStop, CancelNext, CancelTransfer, UsbCancel, Working, Owed,
     Unsubmitted, InCallback, usbVars, opVars, loopVars, awaitVars, ghostVars
<1>5. CASE UNCHANGED vars
  BY <1>5, Quiet DEF Working, Owed, Unsubmitted, InCallback, vars, usbVars, opVars,
     loopVars, awaitVars, ghostVars
<1>. QED
  BY <1>1, <1>2, <1>3, <1>4, <1>5

\* The loop's error is there before the operation can end.
LEMMA RecordDataStep ==
    ASSUME IInv, OrderInv, LoopRecordError
    PROVE  OrderInv'
<1>1. /\ ec' = "submit" /\ co = "suspended" /\ co' = co /\ Working' = Working
      /\ UNCHANGED <<used, bufs, buf_current, held, done, posts, cb, total, moved>>
  BY DEF LoopRecordError, IInv, PhaseInv, Working, Owed, Unsubmitted, InCallback,
     usbVars, opVars, ghostVars
<1>. QED
  BY <1>1 DEF OrderInv, BufferInv, SuccessInv, SuccessMeansAll

\* A transfer goes from libusb to its callback.
LEMMA ReapDataStep ==
    ASSUME IInv, OrderInv, NEW t \in Transfers, NEW c \in Completions, Reap(t, c)
    PROVE  OrderInv'
<1>1. /\ cb = NoCallback /\ cb' # NoCallback /\ cb'.tfer = t /\ cb'.result = c
      /\ t \in flight /\ flight' = flight \ {t} /\ moved' = moved + c.actual
      /\ UNCHANGED <<co, loop, next, used, bufs, buf_current, held, done, ec, total, posts>>
  BY DEF Reap, UsbReap, NoCallback, loopVars, opVars
<1>2. Working' = Working
  <2>1. Unsubmitted' = Unsubmitted
    BY <1>1 DEF Unsubmitted
  <2>. QED
    BY <1>1, <2>1 DEF Working, Owed, InCallback
<1>3. c.actual \in Nat /\ moved \in Nat /\ total \in Nat
  BY CompletionsAssumption DEF Completion, IInv, TypeOK
<1>4. BufferInv'
  BY <1>1, <1>2 DEF OrderInv, BufferInv
<1>5. TransferType = "bulk" => SuccessInv'
  BY <1>1, <1>2, <1>3 DEF OrderInv, SuccessInv, SuccessMeansAll
<1>. QED
  BY <1>4, <1>5 DEF OrderInv

-----------------------------------------------------------------------------
(* Callbacks that count, give up or go on                                  *)

\* A callback that ends without resubmitting lets go of its transfer.
LEMMA Retired ==
    ASSUME IInv, cb # NoCallback, cb' = NoCallback, UNCHANGED <<co, flight, next, used>>
    PROVE  /\ Working' = Working \ {cb.tfer}
           /\ cb.tfer \in Working /\ cb.tfer \in Transfers
           /\ co = "suspended" /\ used > 0 /\ posts = 0
<1>1. cb.tfer \in Transfers /\ cb.tfer \in Nat \ {0}
  BY CallbackTyped, NAssumption DEF IInv, Transfers
<1>2. co = "suspended" /\ posts = 0 /\ used \in Nat /\ posts \in Nat /\ next \in Nat
  BY NAssumption DEF IInv, PhaseInv, TypeOK
<1>3. cb.tfer < next /\ cb.tfer <= used /\ cb.tfer \notin flight
  BY DEF IInv, LoopInv
<1>4. cb.tfer \notin Owed /\ Owed' = Owed
  BY <1>1, <1>2, <1>3 DEF Owed, Unsubmitted
<1>. QED
  BY <1>1, <1>2, <1>3, <1>4 DEF Working, InCallback

\* The buffer invariant survives the loss of a worked-on transfer.
LEMMA RetiredBuffers ==
    ASSUME IInv, BufferInv, cb # NoCallback, cb' = NoCallback,
           UNCHANGED <<co, flight, next, used, bufs, buf_current, held>>,
           done' \subseteq done \cup {held[cb.tfer]}
    PROVE  BufferInv'
<1>1. /\ Working' = Working \ {cb.tfer} /\ cb.tfer \in Working
      /\ co = "suspended" /\ used > 0
  BY Retired
<1>2. /\ held[cb.tfer] \in 1..buf_current - 1 /\ buf_current <= bufs + 1
      /\ done \subseteq 1..bufs
  BY <1>1 DEF BufferInv
<1>3. bufs \in Nat /\ buf_current \in Nat
  BY MaxBuffersAssumption DEF IInv, TypeOK
<1>4. held[cb.tfer] \in 1..bufs
  BY <1>2, <1>3
<1>5. done' \subseteq 1..bufs
  BY <1>2, <1>4
<1>. QED
  BY <1>1, <1>2, <1>5 DEF BufferInv

\* A callback that ends, and one that gives its transfer back to libusb.
Retires == /\ cb # NoCallback /\ cb' = NoCallback
           /\ UNCHANGED <<co, flight, next, used, bufs>>
Recurs == /\ cb # NoCallback /\ cb' = NoCallback
          /\ flight' = flight \cup {cb.tfer}
          /\ UNCHANGED <<co, loop, next, used, bufs, ec, posts>>

\* Its buffer is done; it takes the next one.
Counts == done' = done \cup {held[cb.tfer]}
Takes == /\ buf_current <= bufs
         /\ buf_current' = buf_current + 1
         /\ held' = [held EXCEPT ![cb.tfer] = buf_current]

Keeps == UNCHANGED <<buf_current, held>>

\* A callback that finds or leaves an error promises nothing of the buffers.
LEMMA FailedBuffers ==
    ASSUME IInv, OrderInv, Retires, Keeps, done' = done,
           TransferType = "bulk" => ec' # "none"
    PROVE  OrderInv'
<1>1. /\ cb # NoCallback /\ cb' = NoCallback
      /\ UNCHANGED <<co, flight, next, used, bufs, buf_current, held, done>>
  BY DEF Retires, Keeps
<1>2. BufferInv'
  BY <1>1, RetiredBuffers DEF OrderInv
<1>3. co' = "suspended"
  BY <1>1, Retired
<1>4. TransferType = "bulk" => SuccessInv'
  BY <1>3 DEF SuccessInv, SuccessMeansAll
<1>. QED
  BY <1>2, <1>4 DEF OrderInv

\* The last buffers end one by one.
LEMMA LastBuffers ==
    ASSUME IInv, OrderInv, Retires, Counts, buf_current > bufs,
           Keeps, UNCHANGED <<loop, ec>>
    PROVE  OrderInv'
<1>1. /\ cb # NoCallback /\ cb' = NoCallback
      /\ UNCHANGED <<co, flight, next, used, bufs>> /\ done' = done \cup {held[cb.tfer]}
      /\ UNCHANGED <<loop, buf_current, held, ec>>
  BY DEF Retires, Counts, Keeps
<1>2. BufferInv'
  BY <1>1, RetiredBuffers DEF OrderInv
<1>3. co' = "suspended" /\ Working' = Working \ {cb.tfer} /\ cb.tfer \in Working
  BY <1>1, Retired
<1>4. TransferType = "bulk" => SuccessInv'
  BY <1>1, <1>3 DEF OrderInv, SuccessInv, SuccessMeansAll
<1>. QED
  BY <1>2, <1>4 DEF OrderInv

\* A refused resubmission: a buffer was given out that nobody will fill.
LEMMA RefusedBuffers ==
    ASSUME IInv, OrderInv, Retires, Counts, Takes, ec' = "submit"
    PROVE  OrderInv'
<1>1. /\ cb # NoCallback /\ cb' = NoCallback /\ buf_current <= bufs
      /\ UNCHANGED <<co, flight, next, used, bufs>>
      /\ buf_current' = buf_current + 1
      /\ held' = [held EXCEPT ![cb.tfer] = buf_current]
      /\ done' = done \cup {held[cb.tfer]}
  BY DEF Retires, Counts, Takes
<1>2. /\ co' = "suspended" /\ co = "suspended" /\ used > 0 /\ cb.tfer \in Working
      /\ Working' = Working \ {cb.tfer}
  BY <1>1, Retired
<1>3. /\ bufs \in Nat /\ buf_current \in Nat /\ held \in [Transfers -> 0..MaxBuffers]
      /\ Working \subseteq Transfers
  BY MaxBuffersAssumption, WorkingTyped DEF IInv, TypeOK
<1>4. BufferInv'
  <2>1. done' \subseteq 1..bufs
    BY <1>1, <1>2, <1>3 DEF OrderInv, BufferInv
  <2>2. \A t \in Working' : held'[t] = held[t] /\ t \in Working
    BY <1>1, <1>2, <1>3
  <2>3. \A t \in Working' : held[t] \in 1..buf_current' - 1
    BY <1>1, <1>2, <1>3, <2>2 DEF OrderInv, BufferInv
  <2>4. \A t \in Working' : \A u \in Working' \ {t} : held'[u] # held'[t]
    BY <1>2, <2>2 DEF OrderInv, BufferInv
  <2>5. buf_current' <= bufs' + 1
    BY <1>1, <1>3
  <2>. QED
    BY <1>1, <1>2, <2>1, <2>2, <2>3, <2>4, <2>5 DEF BufferInv
<1>5. SuccessInv'
  BY <1>1, <1>2 DEF SuccessInv, SuccessMeansAll
<1>. QED
  BY <1>4, <1>5 DEF OrderInv

\* A resubmission trades the buffer just done for the next one.
LEMMA NextBuffers ==
    ASSUME IInv, OrderInv, Recurs, Counts, Takes
    PROVE  OrderInv'
<1>. DEFINE t == cb.tfer
<1>1. /\ cb # NoCallback /\ cb' = NoCallback /\ buf_current <= bufs
      /\ UNCHANGED <<co, loop, next, used, bufs, ec, posts>>
      /\ flight' = flight \cup {t} /\ buf_current' = buf_current + 1
      /\ held' = [held EXCEPT ![t] = buf_current]
      /\ done' = done \cup {held[t]}
  BY DEF Recurs, Counts, Takes
<1>2. co = "suspended"
  BY <1>1 DEF IInv, PhaseInv
<1>3. Working' = Working /\ t \in Working
  BY <1>1 DEF Working, Owed, Unsubmitted, InCallback
<1>4. /\ bufs \in Nat /\ buf_current \in Nat \ {0} /\ held \in [Transfers -> 0..MaxBuffers]
      /\ Working \subseteq Transfers
  BY MaxBuffersAssumption, WorkingTyped DEF IInv, TypeOK
<1>. HIDE DEF t
<1>5. held'[t] = buf_current /\ \A u \in Working \ {t} : held'[u] = held[u]
  BY <1>1, <1>3, <1>4
<1>6. \A u \in Working : held[u] \in 1..buf_current - 1
  BY <1>2 DEF OrderInv, BufferInv
<1>7. BufferInv'
  <2>1. done' \subseteq 1..bufs
    BY <1>1, <1>2, <1>3, <1>4, <1>6 DEF OrderInv, BufferInv
  <2>2. \A u \in Working' : held'[u] \in 1..buf_current' - 1
    BY <1>1, <1>3, <1>4, <1>5, <1>6
  <2>3. \A u \in Working \ {t} : held'[u] # held'[t]
    BY <1>4, <1>5, <1>6
  <2>4. \A u \in Working \ {t} : \A v \in Working \ {t} : u # v => held'[u] # held'[v]
    BY <1>2, <1>5 DEF OrderInv, BufferInv
  <2>5. \A u \in Working' : \A v \in Working' \ {u} : held'[v] # held'[u]
    BY <1>3, <2>3, <2>4
  <2>6. buf_current' <= bufs' + 1 /\ (posts' > 0 => used' > 0)
    BY <1>1, <1>4 DEF OrderInv, BufferInv
  <2>. QED
    BY <1>1, <1>2, <2>1, <2>2, <2>5, <2>6 DEF BufferInv
<1>8. TransferType = "bulk" => SuccessInv'
  <2>. SUFFICES ASSUME TransferType = "bulk", ec = "none", loop # "failed"
                PROVE  \A b \in 1..buf_current' - 1 :
                          b \in done' \/ \E u \in Working' : held'[u] = b
    BY <1>1, <1>2, <1>3 DEF SuccessInv, SuccessMeansAll
  <2>. SUFFICES ASSUME NEW b \in 1..buf_current
                PROVE  b \in done' \/ \E u \in Working : held'[u] = b
    BY <1>1, <1>3, <1>4
  <2>1. CASE b = buf_current
    BY <1>3, <1>5, <2>1
  <2>2. CASE b # buf_current
    <3>1. b \in 1..buf_current - 1
      BY <1>4, <2>2
    <3>2. b \in done \/ \E u \in Working : held[u] = b
      BY <1>2, <3>1 DEF OrderInv, SuccessInv
    <3>. QED
      BY <1>1, <1>5, <3>2
  <2>. QED
    BY <2>1, <2>2
<1>. QED
  BY <1>7, <1>8 DEF OrderInv

\* The callbacks of PartialIO that leave an error.
LEMMA FailingCallbacks ==
    ASSUME IInv, CallbackErrored \/ CallbackFailed
    PROVE  Retires /\ Keeps /\ done' = done /\ (TransferType = "bulk" => ec' # "none")
<1>1. cb # NoCallback
  BY DEF CallbackErrored, CallbackFailed, NoCallback
<1>2. Retires /\ Keeps /\ done' = done
  BY <1>1 DEF CallbackErrored, CallbackFailed, ResumeOnZero, Retires, Keeps, usbVars, opVars,
     loopVars, ghostVars
<1>3. TransferType = "bulk" => ec' # "none"
  BY <1>1, CallbackTyped
  DEF CallbackErrored, CallbackFailed, FailureCode, TransferStatus, Statuses, IInv
<1>. QED
  BY <1>2, <1>3

\* The callbacks of PartialIO that count a buffer.
LEMMA CountingCallbacks ==
    /\ CallbackDrained =>
         Retires /\ Counts /\ Keeps /\ buf_current > bufs /\ UNCHANGED <<loop, ec>>
    /\ CallbackResubmitFails => Retires /\ Counts /\ Takes /\ ec' = "submit"
    /\ CallbackResubmit => Recurs /\ Counts /\ Takes
BY DEF CallbackDrained, CallbackResubmitFails, CallbackResubmit, CountCompleted,
   TakeNextBuffer, ResumeOnZero, UsbSubmit, NoCallback, Retires, Recurs, Counts, Takes, Keeps,
   usbVars, opVars, loopVars

-----------------------------------------------------------------------------
(* The bytes that are counted                                              *)

\* The bytes a callback has looked at are no longer unseen.
LEMMA CallbackBytes ==
    ASSUME IInv, cb # NoCallback
    PROVE  /\ Unseen = cb.result.actual /\ cb.result.actual \in Nat
           /\ total \in Nat /\ moved \in Nat
BY CallbackTyped DEF IInv, TypeOK, Unseen

\* What the device moved has been added to total, or a callback is about to.
LEMMA TotalStep ==
    ASSUME IInv, TotalInv, [Next]_vars, TransferType = "bulk"
    PROVE  TotalInv'
<1>1. CASE Callback
  <2>1. CASE CallbackLive
    <3>1. cb # NoCallback /\ cb' # NoCallback /\ cb'.result = cb.result
      BY <2>1, CallbackTyped DEF CallbackLive, NoCallback, IInv
    <3>. QED
      BY <2>1, <3>1 DEF CallbackLive, TotalInv, Unseen, awaitVars, ghostVars
  <2>2. CASE CallbackErrored \/ CallbackFailed
    <3>1. /\ cb # NoCallback /\ cb' = NoCallback /\ ec' # "none" /\ moved' = moved
          /\ total' = total \/ total' = total + cb.result.actual
      BY <2>2, CallbackTyped
      DEF CallbackErrored, CallbackFailed, FailureBytes, FailureCode, TransferStatus,
          Statuses, ResumeOnZero, NoCallback, ghostVars, IInv
    <3>. QED
      BY <3>1, CallbackBytes DEF TotalInv, Unseen
  <2>3. CASE CallbackDrained \/ CallbackResubmit \/ CallbackResubmitFails
    <3>1. /\ cb # NoCallback /\ cb' = NoCallback /\ moved' = moved
          /\ total' = total + cb.result.actual /\ (ec' = "none" => ec = "none")
      BY <2>3 DEF CallbackDrained, CallbackResubmit, CallbackResubmitFails, TakeNextBuffer,
         CountCompleted, ResumeOnZero, NoCallback
    <3>. QED
      BY <3>1, CallbackBytes DEF TotalInv, Unseen
  <2>. QED
    BY <1>1, <2>1, <2>2, <2>3 DEF Callback
<1>2. ASSUME NEW t \in Transfers, NEW c \in Completions, Reap(t, c)
      PROVE  TotalInv'
  <2>1. /\ cb = NoCallback /\ cb' # NoCallback /\ cb'.result = c
        /\ moved' = moved + c.actual /\ UNCHANGED <<ec, total>>
    BY <1>2 DEF Reap, NoCallback
  <2>2. c.actual \in Nat /\ moved \in Nat /\ total \in Nat
    BY CompletionsAssumption DEF Completion, IInv, TypeOK
  <2>. QED
    BY <2>1, <2>2 DEF TotalInv, Unseen
<1>3. CASE \E m \in 0..MaxBuffers : Submit(m)
  BY <1>3 DEF Submit, IInv, PhaseInv, TotalInv, Unseen
<1>4. CASE AwaitStopped \/ LoopRecordError
  BY <1>4 DEF AwaitStopped, LoopRecordError, TotalInv, Unseen, ghostVars
<1>5. CASE \/ AwaitReady \/ AwaitSuspend \/ Resume \/ Return \/ LoopSubmit \/ LoopSubmitFails
           \/ RequestStop \/ CancelNext \/ (\E t \in Transfers : CancelTransfer(t))
           \/ UNCHANGED vars
  BY <1>5 DEF AwaitReady, AwaitSuspend, Resume, Return, LoopSubmit, LoopSubmitFails,
     RequestStop, CancelNext, CancelTransfer, TotalInv, Unseen, awaitVars, ghostVars, vars
<1>. QED
  BY <1>1, <1>2, <1>3, <1>4, <1>5 DEF Next, Coroutine, SubmissionLoop

-----------------------------------------------------------------------------
(* The theorems about buffers                                              *)

\* Every step keeps the buffers in order.
LEMMA NextOrderInv == IInv /\ OrderInv /\ [Next]_vars => OrderInv'
<1>. SUFFICES ASSUME IInv, OrderInv, [Next]_vars PROVE OrderInv'
  OBVIOUS
<1>1. CASE Coroutine
  BY <1>1, StartStep, SuspendStep, ResumeDataStep, ReturnDataStep DEF Coroutine
<1>2. CASE SubmissionLoop
  BY <1>2, QuietStep, RecordDataStep DEF SubmissionLoop
<1>3. CASE \E t \in Transfers, c \in Completions : Reap(t, c)
  BY <1>3, ReapDataStep
<1>4. CASE Callback
  BY <1>4, QuietStep, FailingCallbacks, FailedBuffers, CountingCallbacks, LastBuffers,
     NextBuffers, RefusedBuffers
  DEF Callback
<1>5. CASE RequestStop \/ CancelNext \/ \E t \in Transfers : CancelTransfer(t)
  BY <1>5, QuietStep
<1>6. CASE UNCHANGED vars
  BY <1>6, QuietStep
<1>. QED
  BY <1>1, <1>2, <1>3, <1>4, <1>5, <1>6 DEF Next

\* The buffers are in order in every behaviour.
THEOREM DataInvariance == SafeSpec => [](IInv /\ DataInv)
<1>1. IInv /\ DataInv /\ [Next]_vars => DataInv'
  BY NextOrderInv, TotalStep DEF DataInv
<1>. QED
  BY <1>1, InitIInv, NextIInv, InitDataInv, PTL DEF SafeSpec

(***************************************************************************)
(* Two transfers in flight or in transfer_callback never point into the    *)
(* same buffer, nor outside the buffers of the operation.                  *)
(***************************************************************************)
THEOREM BuffersApart == SafeSpec => []NoSharedBuffer
<1>1. IInv /\ DataInv => NoSharedBuffer
  <2>. SUFFICES ASSUME IInv, DataInv, NEW t \in flight \cup InCallback
                PROVE  /\ held[t] \in 1..bufs
                       /\ \A u \in (flight \cup InCallback) \ {t} : held[u] # held[t]
    BY DEF NoSharedBuffer
  <2>1. t \in Working /\ (flight \cup InCallback) \subseteq Working
    BY DEF Working, Owed
  <2>2. co = "suspended"
    BY <2>1, WorkingTyped
  <2>3. bufs \in Nat /\ buf_current \in Nat
    BY MaxBuffersAssumption DEF IInv, TypeOK
  <2>. QED
    BY <2>1, <2>2, <2>3 DEF DataInv, OrderInv, BufferInv
<1>. QED
  BY <1>1, DataInvariance, PTL

(***************************************************************************)
(* A bulk, interrupt or control operation that co_returns no error has     *)
(* completed every buffer it was given.  The length it returns is never    *)
(* more than the device moved, and all of it when there was no error.      *)
(***************************************************************************)
THEOREM BulkResult == SafeSpec => [](TransferType = "bulk" => ResultSound)
<1>1. IInv /\ DataInv => (TransferType = "bulk" => SuccessMeansAll)
  BY DEF DataInv, OrderInv, SuccessInv
<1>2. IInv /\ DataInv => (TransferType = "bulk" => TotalSound)
  <2>. SUFFICES ASSUME IInv, TotalInv PROVE TotalSound
    BY DEF DataInv
  <2>1. total \in Nat /\ moved \in Nat /\ Unseen \in Nat
    BY CallbackTyped DEF IInv, TypeOK, Unseen
  <2>2. co = "resumed" => Unseen = 0
    BY DEF IInv, PhaseInv, Unseen
  <2>. QED
    BY <2>1, <2>2 DEF TotalInv, TotalSound
<1>3. IInv /\ DataInv => (TransferType = "bulk" => ResultSound)
  BY <1>1, <1>2 DEF ResultSound
<1>. QED
  BY <1>3, DataInvariance, PTL

-----------------------------------------------------------------------------
(* What is left to do                                                      *)

\* Transfers in flight can be counted.
LEMMA FlightFinite ==
    ASSUME TypeOK
    PROVE  IsFiniteSet(flight) /\ Cardinality(flight) \in Nat
<1>1. IsFiniteSet(1..N)
  BY NAssumption, FS_Interval
<1>2. flight \subseteq 1..N
  BY DEF TypeOK, UsbTypeOK, Transfers
<1>. QED
  BY <1>1, <1>2, FS_Subset, FS_CardinalityType

\* The parts of Work, none of which is negative.
LEMMA WorkParts ==
    ASSUME IInv, BufferInv, co = "suspended"
    PROVE  /\ used + 1 - next \in Nat /\ bufs + 1 - buf_current \in Nat
           /\ Cardinality(flight) \in Nat
           /\ CallbackWork \in 0..2 /\ LoopWork \in 0..2
<1>1. used + 1 - next \in Nat /\ bufs + 1 - buf_current \in Nat
  BY NAssumption, MaxBuffersAssumption DEF IInv, TypeOK, LoopInv, BufferInv
<1>2. cb.pc \in {"entered", "live", "none"}
  BY CallbackTyped, NoCallbackTyped DEF IInv
<1>3. CallbackWork \in 0..2
  BY <1>2 DEF CallbackWork
<1>4. LoopWork \in 0..2
  BY DEF IInv, TypeOK, LoopWork
<1>. QED
  BY <1>1, <1>3, <1>4, FlightFinite DEF IInv

\* While the coroutine is suspended Work is a number, and never below zero.
LEMMA WorkIsNat == IInv /\ BufferInv /\ co = "suspended" => Work \in Nat
<1>. SUFFICES ASSUME IInv, BufferInv, co = "suspended" PROVE Work \in Nat
  OBVIOUS
<1>1. ASSUME NEW a \in Nat, NEW f \in Nat, NEW b \in Nat, NEW c \in 0..2, NEW l \in 0..2
      PROVE  4 * a + 3 * f + 3 * b + c + l \in Nat
  OBVIOUS
<1>. QED
  BY <1>1, WorkParts DEF Work

\* An accepted submission: one transfer fewer to submit, one more in flight.
LEMMA LoopSubmitLess ==
    ASSUME IInv, BufferInv, co = "suspended", LoopSubmit
    PROVE  Work > Work'
<1>1. /\ next' = next + 1 /\ UNCHANGED <<used, bufs, buf_current, cb>>
      /\ loop = "run" /\ loop' \in {"run", "off"}
      /\ next \notin flight /\ flight' = flight \cup {next}
  BY DEF LoopSubmit, UsbSubmit, opVars
<1>2. Cardinality(flight') = Cardinality(flight) + 1
  BY <1>1, FlightFinite, FS_AddElement DEF IInv
<1>3. LoopWork = 2 /\ LoopWork' \in 0..2 /\ CallbackWork' = CallbackWork
  BY <1>1 DEF LoopWork, CallbackWork
<1>4. used \in Int /\ next \in Int /\ bufs \in Int /\ buf_current \in Int
  BY NAssumption, MaxBuffersAssumption DEF IInv, TypeOK
<1>5. Cardinality(flight) \in Int /\ CallbackWork \in Int
  BY WorkParts
<1>. QED
  BY <1>1, <1>2, <1>3, <1>4, <1>5 DEF Work

\* A refused one, and its error: the loop is one step nearer to its end.
LEMMA LoopEndsLess ==
    ASSUME IInv, BufferInv, co = "suspended", LoopSubmitFails \/ LoopRecordError
    PROVE  Work > Work'
<1>1. /\ UNCHANGED <<used, next, bufs, buf_current, flight, cb>>
      /\ \/ loop = "run" /\ loop' = "failed"
         \/ loop = "failed" /\ loop' = "off"
  BY DEF LoopSubmitFails, LoopRecordError, usbVars, opVars
<1>2. LoopWork' = LoopWork - 1 /\ LoopWork \in Int /\ CallbackWork' = CallbackWork
  BY <1>1 DEF LoopWork, CallbackWork
<1>3. used \in Int /\ next \in Int /\ bufs \in Int /\ buf_current \in Int
  BY NAssumption, MaxBuffersAssumption DEF IInv, TypeOK
<1>4. Cardinality(flight) \in Int /\ CallbackWork \in Int
  BY WorkParts
<1>. QED
  BY <1>1, <1>2, <1>3, <1>4 DEF Work

\* A finished transfer: one fewer in flight, for a callback.
LEMMA ReapLess ==
    ASSUME IInv, BufferInv, co = "suspended",
           NEW t \in Transfers, NEW c \in Completions, Reap(t, c)
    PROVE  Work > Work'
<1>1. /\ UNCHANGED <<used, next, bufs, buf_current, loop>>
      /\ cb = NoCallback /\ cb'.pc = "entered"
      /\ t \in flight /\ flight' = flight \ {t}
  BY DEF Reap, UsbReap, loopVars, opVars
<1>2. Cardinality(flight') = Cardinality(flight) - 1
  BY <1>1, FlightFinite, FS_RemoveElement DEF IInv
<1>3. LoopWork' = LoopWork /\ CallbackWork = 0 /\ CallbackWork' = 2
  BY <1>1, NoCallbackTyped DEF LoopWork, CallbackWork
<1>4. used \in Int /\ next \in Int /\ bufs \in Int /\ buf_current \in Int
  BY NAssumption, MaxBuffersAssumption DEF IInv, TypeOK
<1>5. Cardinality(flight) \in Int /\ LoopWork \in Int
  BY WorkParts
<1>. QED
  BY <1>1, <1>2, <1>3, <1>4, <1>5 DEF Work

\* A callback goes on or ends, perhaps with a buffer that it took in vain.
LEMMA CallbackLess ==
    ASSUME IInv, BufferInv, co = "suspended",
           \/ CallbackErrored \/ CallbackLive \/ CallbackFailed
           \/ CallbackDrained \/ CallbackResubmitFails
    PROVE  Work > Work'
<1>1. /\ UNCHANGED <<used, next, bufs, flight, loop>>
      /\ buf_current' \in {buf_current, buf_current + 1}
      /\ \/ cb.pc \in {"entered", "live"} /\ cb' = NoCallback
         \/ cb.pc = "entered" /\ cb' = [cb EXCEPT !.pc = "live"]
  BY DEF CallbackErrored, CallbackLive, CallbackFailed, CallbackDrained, CallbackResubmitFails,
     TakeNextBuffer, CountCompleted, ResumeOnZero, usbVars, loopVars, opVars
<1>2. LoopWork' = LoopWork /\ CallbackWork' < CallbackWork /\ CallbackWork' \in Int
  <2>1. CASE cb.pc \in {"entered", "live"} /\ cb' = NoCallback
    BY <1>1, <2>1, NoCallbackTyped DEF LoopWork, CallbackWork
  <2>2. CASE cb.pc = "entered" /\ cb' = [cb EXCEPT !.pc = "live"]
    <3>1. cb # NoCallback
      BY <2>2, NoCallbackTyped
    <3>2. cb'.pc = "live"
      BY <2>2, <3>1, CallbackTyped DEF IInv
    <3>. QED
      BY <1>1, <2>2, <3>2 DEF LoopWork, CallbackWork
  <2>. QED
    BY <1>1, <2>1, <2>2
<1>3. used \in Int /\ next \in Int /\ bufs \in Int /\ buf_current \in Int
  BY NAssumption, MaxBuffersAssumption DEF IInv, TypeOK
<1>4. Cardinality(flight) \in Int /\ CallbackWork \in Int /\ LoopWork \in Int
  BY WorkParts
<1>. QED
  BY <1>1, <1>2, <1>3, <1>4 DEF Work

\* A resubmission: one more in flight, for a buffer and a callback.
LEMMA ResubmitLess ==
    ASSUME IInv, BufferInv, co = "suspended", CallbackResubmit
    PROVE  Work > Work'
<1>1. /\ UNCHANGED <<used, next, bufs, loop>>
      /\ buf_current' = buf_current + 1
      /\ cb.pc = "live" /\ cb' = NoCallback
      /\ cb.tfer \notin flight /\ flight' = flight \cup {cb.tfer}
  BY DEF CallbackResubmit, UsbSubmit, TakeNextBuffer, CountCompleted, loopVars, opVars
<1>2. Cardinality(flight') = Cardinality(flight) + 1
  BY <1>1, FlightFinite, FS_AddElement DEF IInv
<1>3. LoopWork' = LoopWork /\ CallbackWork = 1 /\ CallbackWork' = 0
  BY <1>1, NoCallbackTyped DEF LoopWork, CallbackWork
<1>4. used \in Int /\ next \in Int /\ bufs \in Int /\ buf_current \in Int
  BY NAssumption, MaxBuffersAssumption DEF IInv, TypeOK
<1>5. Cardinality(flight) \in Int /\ LoopWork \in Int
  BY WorkParts
<1>. QED
  BY <1>1, <1>2, <1>3, <1>4, <1>5 DEF Work

\* Every step of a suspended operation leaves less to do, or is an aside.
LEMMA StepDwindles ==
    ASSUME IInv, BufferInv, co = "suspended", co' = "suspended", [Next]_vars
    PROVE  Work > Work' \/ Aside
<1>1. CASE SubmissionLoop
  BY <1>1, LoopSubmitLess, LoopEndsLess DEF SubmissionLoop
<1>2. ASSUME NEW t \in Transfers, NEW c \in Completions, Reap(t, c)
      PROVE  Work > Work'
  BY <1>2, ReapLess
<1>3. CASE Callback
  BY <1>3, CallbackLess, ResubmitLess DEF Callback
<1>4. CASE RequestStop \/ CancelNext \/ \E t \in Transfers : CancelTransfer(t)
  BY <1>4 DEF RequestStop, CancelNext, CancelTransfer, UsbCancel, usbVars, Aside
<1>5. CASE UNCHANGED vars
  BY <1>5 DEF vars, usbVars, Aside
<1>6. ~Coroutine
  BY DEF Coroutine, Submit, AwaitReady, AwaitStopped, AwaitSuspend, Resume, Return
<1>. QED
  BY <1>1, <1>2, <1>3, <1>4, <1>5, <1>6 DEF Next

(***************************************************************************)
(* For any number of transfers and buffers, either type and any answers, a *)
(* suspended operation has a number of steps left that only goes down:     *)
(* however resubmissions overtake the submission loop, it cannot run for   *)
(* ever.  This is the part of OperationReturns that needs no fairness.     *)
(***************************************************************************)
THEOREM OperationDwindles == SafeSpec => Dwindles
<1>1. IInv /\ BufferInv /\ [Next]_vars /\ (IInv /\ BufferInv)' => [WorksOn]_vars
  <2>. SUFFICES ASSUME IInv, BufferInv, [Next]_vars, IInv', BufferInv',
                       co = "suspended", co' = "suspended"
                PROVE  (Work > Work' /\ Work' >= 0) \/ Aside
    BY DEF WorksOn
  <2>1. (IInv /\ BufferInv /\ co = "suspended" => Work \in Nat)'
    BY WorkIsNat, PTL
  <2>2. Work' >= 0
    BY <2>1
  <2>. QED
    BY <2>2, StepDwindles
<1>2. IInv /\ DataInv => IInv /\ BufferInv
  BY DEF DataInv, OrderInv
<1>. QED
  BY <1>1, <1>2, DataInvariance, PTL DEF SafeSpec, Dwindles

-----------------------------------------------------------------------------
(* TransferOp                                                              *)

\* A buffer that is done was given out, and nobody works on it any more.
DoneInv ==
    co = "suspended" =>
        /\ done \subseteq 1..buf_current - 1
        /\ \A t \in Working : held[t] \notin done

RInv == IInv /\ OrderInv /\ DoneInv

\* What a callback does to the transfer it works on and to its buffer.
LEMMA CallbackBuffer ==
    ASSUME RInv, cb # NoCallback
    PROVE  /\ co = "suspended" /\ cb.tfer \in Working /\ cb.tfer \in Transfers
           /\ held[cb.tfer] \in 1..buf_current - 1 /\ held[cb.tfer] \notin done
           /\ \A u \in Working \ {cb.tfer} : held[u] # held[cb.tfer]
<1>1. co = "suspended" /\ cb.tfer \in Transfers
  BY CallbackTyped DEF RInv, IInv, PhaseInv
<1>2. cb.tfer \in Working
  BY DEF Working, InCallback
<1>. QED
  BY <1>1, <1>2 DEF RInv, OrderInv, BufferInv, DoneInv

\* Nothing is given out, and nothing done.
LEMMA DoneKept ==
    ASSUME DoneInv, Working' \subseteq Working, co' = "suspended" => co = "suspended",
           UNCHANGED <<buf_current, held, done>>
    PROVE  DoneInv'
BY DEF DoneInv

\* A step of the coroutine.
LEMMA CoroutineDone ==
    ASSUME RInv, Coroutine
    PROVE  DoneInv'
<1>1. CASE AwaitSuspend
  BY <1>1 DEF AwaitSuspend, RInv, OrderInv, BufferInv, DoneInv, ghostVars
<1>2. CASE ~AwaitSuspend
  BY <1>2 DEF Coroutine, Submit, AwaitReady, AwaitStopped, Resume, Return, DoneInv
<1>. QED
  BY <1>1, <1>2

\* A step that leaves the buffers alone.
LEMMA OtherDone ==
    ASSUME RInv,
           \/ SubmissionLoop \/ CallbackErrored \/ CallbackLive \/ CallbackFailed
           \/ \E t \in Transfers, c \in Completions : Reap(t, c)
           \/ RequestStop \/ CancelNext \/ \E t \in Transfers : CancelTransfer(t)
           \/ UNCHANGED vars
    PROVE  DoneInv'
<1>1. CASE LoopSubmit
  <2>1. Owed' = Owed
    BY <1>1, NAssumption DEF LoopSubmit, UsbSubmit, opVars, RInv, IInv, TypeOK, PhaseInv,
       LoopInv, Owed, Unsubmitted
  <2>. QED
    BY <1>1, <2>1, DoneKept DEF LoopSubmit, Working, InCallback, RInv, ghostVars
<1>2. CASE LoopSubmitFails \/ LoopRecordError
  BY <1>2, DoneKept DEF LoopSubmitFails, LoopRecordError, Working, Owed, Unsubmitted,
     InCallback, RInv, usbVars, opVars, ghostVars
<1>3. CASE CallbackErrored \/ CallbackFailed
  <2>1. /\ cb # NoCallback /\ cb' = NoCallback
        /\ UNCHANGED <<co, flight, next, used, buf_current, held, done>>
    BY <1>3 DEF CallbackErrored, CallbackFailed, ResumeOnZero, NoCallback, usbVars,
       opVars, loopVars, ghostVars
  <2>2. Working' \subseteq Working
    BY <2>1, Retired DEF RInv
  <2>. QED
    BY <2>1, <2>2, DoneKept DEF RInv
<1>4. CASE CallbackLive
  <2>1. cb # NoCallback /\ cb' # NoCallback /\ cb'.tfer = cb.tfer
    BY <1>4, CallbackTyped DEF CallbackLive, NoCallback, RInv, IInv
  <2>. QED
    BY <1>4, <2>1, DoneKept DEF CallbackLive, Working, Owed, Unsubmitted, InCallback, RInv,
       usbVars, opVars, loopVars, ghostVars
<1>5. ASSUME NEW t \in Transfers, NEW c \in Completions, Reap(t, c)
      PROVE  DoneInv'
  <2>1. /\ cb = NoCallback /\ cb'.tfer = t /\ t \in flight /\ flight' = flight \ {t}
        /\ UNCHANGED <<co, next, used, buf_current, held, done>>
    BY <1>5 DEF Reap, UsbReap, NoCallback, loopVars, opVars
  <2>2. Working' \subseteq Working
    BY <2>1 DEF Working, Owed, Unsubmitted, InCallback
  <2>. QED
    BY <2>1, <2>2, DoneKept DEF RInv
<1>6. CASE RequestStop \/ CancelNext \/ \E t \in Transfers : CancelTransfer(t)
  BY <1>6, DoneKept DEF RequestStop, CancelNext, CancelTransfer, UsbCancel, Working, Owed,
     Unsubmitted, InCallback, RInv, usbVars, opVars, loopVars, ghostVars
<1>7. CASE UNCHANGED vars
  BY <1>7, DoneKept DEF Working, Owed, Unsubmitted, InCallback, RInv, vars, usbVars,
     opVars, loopVars, ghostVars
<1>. QED
  BY <1>1, <1>2, <1>3, <1>4, <1>5, <1>6, <1>7 DEF SubmissionLoop

\* A callback that counts its buffer.
LEMMA CountedDone ==
    ASSUME RInv, Counts,
           (Retires /\ (Takes \/ Keeps)) \/ (Recurs /\ Takes)
    PROVE  DoneInv'
<1>. DEFINE t == cb.tfer
<1>1. cb # NoCallback /\ cb' = NoCallback
  BY DEF Retires, Recurs
<1>2. /\ co = "suspended" /\ t \in Working /\ t \in Transfers
      /\ held[t] \in 1..buf_current - 1 /\ held[t] \notin done
      /\ \A u \in Working \ {t} : held[u] # held[t]
  BY <1>1, CallbackBuffer
<1>3. done' = done \cup {held[t]}
  BY DEF Counts
<1>4. buf_current \in Nat \ {0} /\ held \in [Transfers -> 0..MaxBuffers]
      /\ Working \subseteq Transfers
  BY WorkingTyped DEF RInv, IInv, TypeOK
<1>5. done \subseteq 1..buf_current - 1 /\ \A u \in Working : held[u] \notin done
  BY <1>2 DEF RInv, DoneInv
<1>6. CASE Retires /\ (Takes \/ Keeps)
  <2>1. UNCHANGED <<co, flight, next, used>>
    BY <1>6 DEF Retires
  <2>2. Working' = Working \ {t}
    BY <1>1, <2>1, Retired DEF RInv
  <2>3. /\ buf_current' \in {buf_current, buf_current + 1}
        /\ held' \in {held, [held EXCEPT ![t] = buf_current]}
    BY <1>6 DEF Takes, Keeps
  <2>4. \A u \in Working' : held'[u] = held[u]
    BY <1>4, <2>2, <2>3
  <2>. HIDE DEF t
  <2>5. done' \subseteq 1..buf_current' - 1
    <3>1. done' \subseteq 1..buf_current - 1
      BY <1>2, <1>3, <1>5
    <3>2. buf_current \in Nat /\ (buf_current' = buf_current \/ buf_current' = buf_current + 1)
      BY <1>4, <2>3
    <3>3. 1..buf_current - 1 \subseteq 1..buf_current' - 1
      BY <3>2
    <3>. QED
      BY <3>1, <3>3
  <2>6. \A u \in Working' : held'[u] \notin done'
    BY <1>2, <1>3, <1>5, <2>2, <2>4
  <2>. QED
    BY <2>5, <2>6 DEF DoneInv
<1>7. CASE Recurs /\ Takes
  <2>1. /\ flight' = flight \cup {t} /\ UNCHANGED <<co, next, used>>
        /\ buf_current' = buf_current + 1 /\ held' = [held EXCEPT ![t] = buf_current]
    BY <1>7 DEF Recurs, Takes
  <2>2. Working' = Working
    BY <1>1, <2>1 DEF Working, Owed, Unsubmitted, InCallback
  <2>. HIDE DEF t
  <2>3. done' \subseteq 1..buf_current - 1
    BY <1>2, <1>3, <1>5
  <2>4. held'[t] = buf_current /\ \A u \in Working \ {t} : held'[u] = held[u]
    BY <1>2, <1>4, <2>1
  <2>5. held'[t] \notin done'
    BY <1>4, <2>3, <2>4
  <2>6. \A u \in Working \ {t} : held'[u] \notin done'
    BY <1>2, <1>3, <1>5, <2>4
  <2>7. \A u \in Working' : held'[u] \notin done'
    BY <2>2, <2>5, <2>6
  <2>8. done' \subseteq 1..buf_current' - 1
    BY <1>4, <2>1, <2>3
  <2>. QED
    BY <2>7, <2>8 DEF DoneInv
<1>. QED
  BY <1>6, <1>7

\* Every step keeps it.
LEMMA NextRInv == RInv /\ [Next]_vars => RInv'
<1>. SUFFICES ASSUME RInv, [Next]_vars PROVE RInv'
  OBVIOUS
<1>1. IInv' /\ OrderInv'
  BY NextIInv, NextOrderInv DEF RInv
<1>2. DoneInv'
  <2>1. ASSUME CallbackDrained \/ CallbackResubmit \/ CallbackResubmitFails
        PROVE  DoneInv'
    <3>1. Counts /\ ((Retires /\ (Takes \/ Keeps)) \/ (Recurs /\ Takes))
      BY <2>1, CountingCallbacks
    <3>. QED
      BY <3>1, CountedDone
  <2>. QED
    BY <2>1, CoroutineDone, OtherDone DEF Next, Callback
<1>. QED
  BY <1>1, <1>2 DEF RInv

\* And it holds before the first operation.
LEMMA InitRInv == Init => RInv
<1>1. Init => DoneInv
  BY DEF Init, DoneInv
<1>. QED
  BY <1>1, InitIInv, InitDataInv DEF RInv, DataInv

-----------------------------------------------------------------------------
(* The state that the caller sees                                          *)

Phase == CASE co = "idle" -> "idle"
           [] co \in {"called", "suspended"} -> "pending"
           [] co = "resumed" -> "done"

Lent == flight \cup InCallback

Left == bufs - Cardinality(done)

Failed == ec # "none"

\* The buffers that are neither done nor given to anyone else leave room.
LEMMA Room ==
    ASSUME NEW S, IsFiniteSet(S), NEW B, IsFiniteSet(B),
           NEW g, \A s \in S : g[s] \in B,
           \A s \in S : \A u \in S \ {s} : g[u] # g[s]
    PROVE  Cardinality(S) <= Cardinality(B)
<1>. DEFINE f == [s \in S |-> g[s]]
<1>1. f \in [S -> B]
  OBVIOUS
<1>2. ~ \E x, y \in S : x # y /\ f[x] = f[y]
  OBVIOUS
<1>3. ~ (Cardinality(B) < Cardinality(S))
  <2>. HIDE DEF f
  <2>. QED
    BY <1>1, <1>2, FS_PigeonHole
<1>4. Cardinality(B) \in Nat /\ Cardinality(S) \in Nat
  BY FS_CardinalityType
<1>. QED
  BY <1>3, <1>4

\* The buffers left are those of 1..bufs that are not done.
LEMMA LeftCount ==
    ASSUME IInv, done \subseteq 1..bufs
    PROVE  /\ IsFiniteSet(done) /\ IsFiniteSet((1..bufs) \ done)
           /\ Left = Cardinality((1..bufs) \ done) /\ Left \in Nat
           /\ Left = 0 <=> done = 1..bufs
<1>1. bufs \in Nat /\ bufs \in Int /\ 1 \in Int
  BY MaxBuffersAssumption DEF IInv, TypeOK
<1>2. IsFiniteSet(1..bufs) /\ Cardinality(1..bufs) = bufs
  <2>1. IsFiniteSet(1..bufs) /\ Cardinality(1..bufs) = IF 1 > bufs THEN 0 ELSE bufs - 1 + 1
    BY <1>1, FS_Interval
  <2>. QED
    BY <1>1, <2>1
<1>3. IsFiniteSet(done)
  BY <1>2, FS_Subset
<1>4. /\ IsFiniteSet((1..bufs) \ done)
      /\ Cardinality((1..bufs) \ done) = bufs - Cardinality((1..bufs) \cap done)
  BY <1>2, FS_Difference
<1>5. (1..bufs) \cap done = done
  OBVIOUS
<1>6. /\ Cardinality((1..bufs) \ done) \in Nat
      /\ Cardinality((1..bufs) \ done) = 0 <=> (1..bufs) \ done = {}
  BY <1>4, FS_CardinalityType, FS_EmptySet
<1>. QED
  BY <1>3, <1>4, <1>5, <1>6 DEF Left

\* Transfers that work on buffers that are not done, and one buffer more.
LEMMA LentFits ==
    ASSUME RInv, co = "suspended", NEW S \in SUBSET Working
    PROVE  /\ IsFiniteSet(S) /\ Cardinality(S) \in Nat /\ Cardinality(S) <= Left
           /\ buf_current <= bufs => Cardinality(S) + 1 <= Left
<1>1. /\ bufs \in Nat /\ buf_current \in Nat \ {0} /\ buf_current <= bufs + 1
      /\ done \subseteq 1..bufs /\ done \subseteq 1..buf_current - 1
  BY MaxBuffersAssumption DEF RInv, IInv, TypeOK, OrderInv, BufferInv, DoneInv
<1>2. IsFiniteSet(S)
  <2>1. S \subseteq 1..N
    BY WorkingTyped DEF RInv, Transfers
  <2>2. IsFiniteSet(1..N)
    BY NAssumption, FS_Interval
  <2>. QED
    BY <2>1, <2>2, FS_Subset
<1>3. /\ \A s \in S : held[s] \in 1..buf_current - 1 /\ held[s] \notin done
      /\ \A s \in S : \A u \in S \ {s} : held[u] # held[s]
  BY DEF RInv, OrderInv, BufferInv, DoneInv
<1>. DEFINE B == (1..bufs) \ done
<1>4. IsFiniteSet(B) /\ Left = Cardinality(B) /\ Left \in Nat
  BY <1>1, LeftCount DEF RInv
<1>5. Cardinality(S) <= Cardinality(B)
  <2>1. \A s \in S : held[s] \in B
    BY <1>1, <1>3
  <2>. HIDE DEF B
  <2>. QED
    BY <1>2, <1>3, <1>4, <2>1, Room
<1>6. ASSUME buf_current <= bufs
      PROVE  Cardinality(S) + 1 <= Cardinality(B)
  <2>1. \A s \in S : held[s] \in B \ {buf_current}
    BY <1>1, <1>3
  <2>2. buf_current \in B
    BY <1>1, <1>6
  <2>. HIDE DEF B
  <2>3. IsFiniteSet(B \ {buf_current}) /\ Cardinality(B \ {buf_current}) = Cardinality(B) - 1
    BY <1>4, <2>2, FS_RemoveElement
  <2>4. Cardinality(S) <= Cardinality(B \ {buf_current})
    BY <1>2, <1>3, <2>1, <2>3, Room
  <2>. QED
    BY <1>2, <1>4, <2>3, <2>4, FS_CardinalityType
<1>. QED
  BY <1>2, <1>4, <1>5, <1>6, FS_CardinalityType

\* Counting one more buffer leaves one less.
LEMMA OneLess ==
    ASSUME RInv, co = "suspended", NEW b, b \notin done, done' = done \cup {b}, bufs' = bufs
    PROVE  Left' = Left - 1
<1>1. IsFiniteSet(done) /\ bufs \in Nat
  BY LeftCount, MaxBuffersAssumption DEF RInv, IInv, TypeOK, OrderInv, BufferInv
<1>2. Cardinality(done') = Cardinality(done) + 1 /\ Cardinality(done) \in Nat
  BY <1>1, FS_AddElement, FS_CardinalityType
<1>. QED
  BY <1>1, <1>2 DEF Left

\* The two modules count with the same operator.
LEMMA SameCardinality == \A S : Op!Cardinality(S) = Cardinality(S)
BY DEF Op!Cardinality, Cardinality, Op!IsFiniteSet, IsFiniteSet

-----------------------------------------------------------------------------
(* One lemma per kind of step                                              *)

\* submit() starts the operation, co_return collects its result.
LEMMA StartsAndCollects ==
    ASSUME RInv, (\E m \in 0..MaxBuffers : Submit(m)) \/ Return
    PROVE  (\E m \in 0..MaxBuffers : Op!Start(m)) \/ Op!Collect
<1>1. ASSUME NEW m \in 0..MaxBuffers, Submit(m)
      PROVE  Op!Start(m)
  <2>1. Cardinality({}) = 0 /\ m - 0 = m
    BY MaxBuffersAssumption, FS_EmptySet
  <2>. QED
    BY <1>1, <2>1 DEF Submit, UsbCancel, Op!Start, InCallback
<1>2. CASE Return
  BY <1>2 DEF Return, Op!Collect, InCallback, usbVars, opVars, awaitVars, ghostVars
<1>. QED
  BY <1>1, <1>2

\* The result is there: at once, after a stop, or when the post is run.
LEMMA Finishes ==
    ASSUME RInv, TransferType = "bulk", AwaitReady \/ AwaitStopped \/ Resume
    PROVE  Op!Finish
<1>1. Lent = {} /\ Lent' = {}
  <2>1. flight = {} /\ cb = NoCallback
    BY PostedMeansQuiet DEF AwaitReady, AwaitStopped, Resume, RInv, IInv, PhaseInv,
       QuiescentAtResume
  <2>. QED
    BY <2>1 DEF AwaitReady, AwaitStopped, Resume, Lent, InCallback, usbVars
<1>2. Phase = "pending" /\ Phase' = "done" /\ Left' = Left
  BY DEF AwaitReady, AwaitStopped, Resume, Phase, Left, opVars, ghostVars
<1>3. Failed' \in {Failed, TRUE} /\ (Failed' \/ Left = 0)
  <2>1. CASE AwaitReady
    <3>1. bufs = 0 /\ done = {} /\ 0 - 0 = 0
      BY <2>1 DEF AwaitReady, RInv, OrderInv, BufferInv, IInv, TypeOK
    <3>. QED
      BY <2>1, <3>1, FS_EmptySet DEF AwaitReady, Failed, Left, awaitVars
  <2>2. CASE AwaitStopped
    BY <2>2 DEF AwaitStopped, Failed
  <2>3. CASE Resume
    <3>1. co = "suspended" /\ co' = "resumed" /\ UNCHANGED <<ec, done, bufs>>
      BY <2>3 DEF Resume, opVars, awaitVars, ghostVars
    <3>2. SuccessMeansAll'
      BY <2>3, ResumeDataStep DEF RInv, OrderInv, SuccessInv
    <3>3. ec = "none" => done = 1..bufs
      BY <3>1, <3>2 DEF SuccessMeansAll
    <3>4. ec = "none" => Left = 0
      BY <3>1, <3>3, LeftCount DEF RInv, OrderInv, BufferInv
    <3>. QED
      BY <3>1, <3>4 DEF Failed
  <2>. QED
    BY <2>1, <2>2, <2>3
<1>. QED
  BY <1>1, <1>2, <1>3 DEF Op!Finish, Phase, Lent, Left, Failed

\* A submission lends a transfer for a buffer that is its own.
LEMMA Lends ==
    ASSUME RInv, LoopSubmit
    PROVE  \E t \in Transfers : Op!Lend(t)
<1>1. /\ co = "suspended" /\ next \in Transfers /\ next \notin flight /\ next \in Unsubmitted
      /\ (cb # NoCallback => cb.tfer # next)
  BY CallbackTyped, NAssumption DEF LoopSubmit, UsbSubmit, RInv, IInv, TypeOK, PhaseInv,
     LoopInv, Unsubmitted, Transfers
<1>2. next \notin Lent /\ Lent \cup {next} \in SUBSET Working
  BY <1>1 DEF Lent, Working, Owed, InCallback
<1>3. Cardinality(Lent) < Left
  <2>1. Lent \in SUBSET Working
    BY <1>2
  <2>2. IsFiniteSet(Lent) /\ Cardinality(Lent) \in Nat
    BY <1>1, <2>1, LentFits
  <2>3. Cardinality(Lent \cup {next}) <= Left
    BY <1>1, <1>2, LentFits
  <2>4. Cardinality(Lent \cup {next}) = Cardinality(Lent) + 1
    BY <1>2, <2>2, FS_AddElement
  <2>5. Left \in Nat
    BY <1>1, LeftCount DEF RInv, OrderInv, BufferInv
  <2>. QED
    BY <2>2, <2>3, <2>4, <2>5
<1>4. Phase = "pending" /\ Lent' = Lent \cup {next} /\ UNCHANGED <<Phase, Left, Failed>>
  BY <1>1 DEF LoopSubmit, UsbSubmit, Phase, Lent, Left, Failed, InCallback, opVars,
     awaitVars, ghostVars
<1>5. Op!Lend(next)
  BY <1>2, <1>3, <1>4, SameCardinality DEF Op!Lend, Phase, Lent, Left, Failed
<1>. QED
  BY <1>1, <1>5

\* A callback that takes the next buffer keeps its transfer lent.
LEMMA RecursAdvances ==
    ASSUME RInv, Recurs, Takes, Counts
    PROVE  Op!Advance
<1>1. /\ cb # NoCallback /\ cb' = NoCallback /\ flight' = flight \cup {cb.tfer}
      /\ buf_current <= bufs /\ done' = done \cup {held[cb.tfer]}
      /\ UNCHANGED <<co, bufs, ec>>
  BY DEF Recurs, Takes, Counts
<1>2. co = "suspended" /\ held[cb.tfer] \notin done
  BY <1>1, CallbackBuffer
<1>3. Lent \in SUBSET Working /\ Lent # {} /\ Lent' = Lent
  BY <1>1 DEF Lent, Working, Owed, InCallback
<1>4. Cardinality(Lent) < Left
  <2>1. Left \in Nat
    BY <1>2, LeftCount DEF RInv, OrderInv, BufferInv
  <2>. QED
    BY <1>1, <1>2, <1>3, <2>1, LentFits
<1>5. Left' = Left - 1
  BY <1>1, <1>2, OneLess
<1>6. Phase = "pending" /\ Phase' = Phase /\ Failed' = Failed
  BY <1>1, <1>2 DEF Phase, Failed
<1>. QED
  BY <1>3, <1>4, <1>5, <1>6, SameCardinality DEF Op!Advance, Phase, Lent, Left, Failed

\* One that ends gives it back, with its buffer done or with an error.
LEMMA RetiresGivesBack ==
    ASSUME RInv, Retires,
           \/ Counts /\ ec' \in {ec, "submit"}
           \/ done' = done /\ ec' # "none"
    PROVE  \E t \in Transfers : Op!GiveBack(t)
<1>. DEFINE t == cb.tfer
<1>1. /\ cb # NoCallback /\ cb' = NoCallback
      /\ UNCHANGED <<co, flight, bufs>>
  BY DEF Retires
<1>2. co = "suspended" /\ t \in Transfers /\ held[t] \notin done
  BY <1>1, CallbackBuffer
<1>3. t \in Lent /\ Lent' = Lent \ {t} /\ Phase = "pending" /\ Phase' = Phase
  BY <1>1, <1>2 DEF RInv, IInv, LoopInv, Lent, InCallback, Phase
<1>4. \/ Left' = Left - 1 /\ Failed' \in {Failed, TRUE}
      \/ Left' = Left /\ Failed' = TRUE
  <2>1. CASE done' = done /\ ec' # "none"
    BY <1>1, <2>1 DEF Failed, Left
  <2>2. CASE Counts /\ ec' \in {ec, "submit"}
    <3>1. done' = done \cup {held[t]} /\ ec' \in {ec, "submit"}
      BY <2>2 DEF Counts
    <3>2. Left' = Left - 1
      BY <1>1, <1>2, <3>1, OneLess
    <3>. QED
      BY <3>1, <3>2 DEF Failed
  <2>. QED
    BY <2>1, <2>2
<1>5. Left \in Nat
  BY <1>2, LeftCount DEF RInv, OrderInv, BufferInv
<1>6. Left' \in {Left, Left - 1} /\ Failed' \in {Failed, TRUE} /\ (Left' = Left => Failed')
  <2>1. Left - 1 # Left
    BY <1>5
  <2>. QED
    BY <1>4, <2>1, Zenon
<1>. HIDE DEF t
<1>7. Op!GiveBack(t)
  BY <1>3, <1>6 DEF Op!GiveBack, Phase, Lent, Left, Failed
<1>. QED
  BY <1>2, <1>7

\* A resubmission takes the next buffer.
LEMMA Advances ==
    ASSUME RInv, CallbackResubmit
    PROVE  Op!Advance
<1>1. Recurs /\ Takes /\ Counts
  BY DEF CallbackResubmit, UsbSubmit, TakeNextBuffer, CountCompleted, NoCallback, opVars,
     loopVars, Recurs, Takes, Counts
<1>. QED
  BY <1>1, RecursAdvances

\* Every other end of a callback gives its transfer back.
LEMMA GivesBack ==
    ASSUME RInv, TransferType = "bulk",
           CallbackErrored \/ CallbackFailed \/ CallbackDrained \/ CallbackResubmitFails
    PROVE  \E t \in Transfers : Op!GiveBack(t)
<1>1. Retires
  BY DEF CallbackErrored, CallbackFailed, CallbackDrained, CallbackResubmitFails,
     CountCompleted, TakeNextBuffer, ResumeOnZero, NoCallback, usbVars, opVars, loopVars,
     Retires
<1>2. CASE CallbackErrored \/ CallbackFailed
  <2>1. ec' # "none"
    BY <1>1, <1>2, CallbackTyped
    DEF CallbackErrored, CallbackFailed, FailureCode, TransferStatus, Statuses, RInv, IInv,
        Retires
  <2>2. done' = done
    BY <1>2 DEF CallbackErrored, CallbackFailed, ghostVars
  <2>. QED
    BY <1>1, <2>1, <2>2, RetiresGivesBack
<1>3. CASE CallbackDrained \/ CallbackResubmitFails
  <2>1. Counts /\ ec' \in {ec, "submit"}
    BY <1>3 DEF CallbackDrained, CallbackResubmitFails, TakeNextBuffer, CountCompleted, Counts
  <2>. QED
    BY <1>1, <2>1, RetiresGivesBack
<1>. QED
  BY <1>2, <1>3

\* The loop's error is an error; everything else is not seen.
LEMMA FailsOrSilent ==
    ASSUME RInv,
           \/ LoopSubmitFails \/ LoopRecordError \/ AwaitSuspend \/ CallbackLive
           \/ \E t \in Transfers, c \in Completions : Reap(t, c)
           \/ RequestStop \/ CancelNext \/ \E t \in Transfers : CancelTransfer(t)
           \/ UNCHANGED vars
    PROVE  Op!Fail \/ UNCHANGED Op!opvars
<1>1. CASE LoopRecordError
  <2>1. co = "suspended"
    BY <1>1 DEF LoopRecordError, RInv, IInv, PhaseInv
  <2>. QED
    BY <1>1, <2>1 DEF LoopRecordError, Op!Fail, InCallback, usbVars, opVars, ghostVars
<1>2. CASE CallbackLive
  <2>1. cb # NoCallback /\ cb' # NoCallback /\ cb'.tfer = cb.tfer
    BY <1>2, CallbackTyped DEF CallbackLive, NoCallback, RInv, IInv
  <2>. QED
    BY <1>2, <2>1 DEF CallbackLive, Op!opvars, InCallback, usbVars, opVars, awaitVars, ghostVars
<1>3. ASSUME NEW t \in Transfers, NEW c \in Completions, Reap(t, c)
      PROVE  UNCHANGED Op!opvars
  <2>1. /\ cb = NoCallback /\ cb' # NoCallback /\ cb'.tfer = t
        /\ t \in flight /\ flight' = flight \ {t} /\ UNCHANGED <<co, bufs, done, ec>>
    BY <1>3 DEF Reap, UsbReap, NoCallback, opVars
  <2>2. Lent' = Lent
    BY <2>1 DEF Lent, InCallback
  <2>. QED
    BY <2>1, <2>2 DEF Op!opvars, Lent
<1>4. CASE AwaitSuspend
  BY <1>4 DEF AwaitSuspend, Op!opvars, InCallback, usbVars, opVars, ghostVars
<1>5. CASE LoopSubmitFails \/ RequestStop \/ CancelNext \/ \E t \in Transfers : CancelTransfer(t)
  BY <1>5 DEF LoopSubmitFails, RequestStop, CancelNext, CancelTransfer, UsbCancel,
     Op!opvars, InCallback, usbVars, opVars, awaitVars, ghostVars
<1>6. CASE UNCHANGED vars
  BY <1>6 DEF Op!opvars, InCallback, vars, usbVars, opVars, awaitVars, ghostVars
<1>. QED
  BY <1>1, <1>2, <1>3, <1>4, <1>5, <1>6

-----------------------------------------------------------------------------
(* The theorem about TransferOp                                            *)

\* Every step of a bulk operation is one of TransferOp, or is not seen.
LEMMA StepRefines ==
    ASSUME TransferType = "bulk"
    PROVE  RInv /\ [Next]_vars => [Op!Next]_Op!opvars
<1>. SUFFICES ASSUME RInv, [Next]_vars PROVE Op!Next \/ UNCHANGED Op!opvars
  OBVIOUS
<1>1. CASE Coroutine
  BY <1>1, StartsAndCollects, Finishes, FailsOrSilent DEF Coroutine, Op!Next
<1>2. CASE SubmissionLoop
  BY <1>2, Lends, FailsOrSilent DEF SubmissionLoop, Op!Next
<1>3. CASE Callback
  BY <1>3, Advances, GivesBack, FailsOrSilent DEF Callback, Op!Next
<1>4. CASE ~(Coroutine \/ SubmissionLoop \/ Callback)
  BY <1>4, FailsOrSilent DEF Next, Op!Next
<1>. QED
  BY <1>1, <1>2, <1>3, <1>4

\* No operation has been started.
LEMMA InitRefines == Init => Op!Init
<1>1. 0 - Cardinality({}) = 0
  BY FS_EmptySet
<1>. QED
  BY <1>1 DEF Init, UsbInit, Op!Init, InCallback

(***************************************************************************)
(* Seen from its caller, streaming N bulk transfers over the buffers is    *)
(* the abstract operation: transfers are lent for buffers of their own,    *)
(* none is lent when the result is there, and a result without an error    *)
(* leaves no buffer undone.                                                *)
(***************************************************************************)
THEOREM Refinement ==
    ASSUME TransferType = "bulk"
    PROVE  SafeSpec => ImplementsTransferOp
<1>1. RInv /\ [Next]_vars => [Op!Next]_Op!opvars
  BY StepRefines
<1>. QED
  BY <1>1, InitRInv, NextRInv, InitRefines, PTL DEF SafeSpec, ImplementsTransferOp, Op!Spec
=============================================================================
