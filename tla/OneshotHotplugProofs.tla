------------------------ MODULE OneshotHotplugProofs ------------------------
(***************************************************************************)
(* Safety of the one-shot hotplug wait for any number of waits and events, *)
(* whenever the stops come.                                                *)
(***************************************************************************)
EXTENDS OneshotHotplug, TLAPS

\* libusb has a pointer into a frame only while its coroutine is suspended.
FrameInv ==
    \A w \in Waits \ found :
        /\ w \in registered => co[w] = "suspended" /\ posts[w] = 0
        /\ co[w] = "joining" => posts[w] = 0 /\ cb.wait # w
        /\ w \notin stopped /\ cb.wait = w => w \in registered

\* A wait without a stop is posted by its callback, which saw the event.
RunInv ==
    \A w \in Waits \ (stopped \cup found) :
        /\ co[w] = "suspended" =>
             /\ ec[w] = "none"
             /\ IF w \in registered THEN w \notin seen
                                     ELSE posts[w] = 1 /\ w \in seen
        /\ co[w] # "suspended" => posts[w] = 0
        /\ co[w] \in {"called", "joining"} => ec[w] = "none" /\ w \notin seen
        /\ co[w] = "resumed" => (ec[w] = "none" <=> w \in seen)
        /\ w \in seen => event[w] # NoEvent

\* A handle is stored together with the registration.
HandleInv == \A w \in Waits : co[w] \in {"called", "joining"} => w \notin handle

\* A wait that was found has its event, and no error but that of a stop.
FoundInv ==
    \A w \in found :
        /\ co[w] \notin {"called", "joining"}
        /\ w \in seen /\ event[w] # NoEvent
        /\ w \notin stopped => ec[w] = "none"

IInv == TypeOK /\ HandleInv /\ FrameInv /\ RunInv /\ FoundInv

-----------------------------------------------------------------------------
(* The inductive invariant                                                 *)

\* No wait has been called, and no callback runs.
LEMMA InitIInv == Init => IInv
<1>. SUFFICES ASSUME Init PROVE IInv
  OBVIOUS
<1>1. TypeOK
  <2>1. /\ co \in [Waits -> States]
        /\ event \in [Waits -> Events \cup {NoEvent}]
        /\ ec \in [Waits -> {"none", "canceled", "usb"}]
        /\ posts \in [Waits -> Nat]
    BY DEF Init, States
  <2>2. cb \in [wait : Waits, event : Events] \cup {NoCallback}
    BY DEF Init
  <2>3. /\ registered \subseteq handle /\ handle \subseteq Waits
        /\ stopFn \subseteq stopped /\ stopped \subseteq Waits
        /\ seen \subseteq Waits /\ found \subseteq Waits
    BY DEF Init
  <2>. QED
    BY <2>1, <2>2, <2>3, Zenon DEF TypeOK
<1>2. HandleInv /\ FrameInv /\ RunInv /\ FoundInv
  BY NoneAssumption DEF Init, HandleInv, FrameInv, RunInv, FoundInv, NoCallback, NoEvent
<1>. QED
  BY <1>1, <1>2 DEF IInv

\* A new call has nothing left of the one before, unless that was stopped.
LEMMA CallStep ==
    ASSUME IInv, NEW w \in Waits, Call(w)
    PROVE  IInv'
<1>. USE DEF IInv, ghostVars, Call, Enter, Fail, resVars, stopVars
<1>1. TypeOK'
  <2>1. /\ co' \in [Waits -> States]
        /\ event' \in [Waits -> Events \cup {NoEvent}]
        /\ ec' \in [Waits -> {"none", "canceled", "usb"}]
        /\ posts' \in [Waits -> Nat]
    BY DEF TypeOK, States
  <2>2. cb' \in [wait : Waits, event : Events] \cup {NoCallback}
    BY DEF TypeOK
  <2>3. /\ registered' \subseteq handle' /\ handle' \subseteq Waits
        /\ stopFn' \subseteq stopped' /\ stopped' \subseteq Waits
        /\ seen' \subseteq Waits /\ found' \subseteq Waits
    BY DEF TypeOK, HandleInv, FrameInv
  <2>. QED
    BY <2>1, <2>2, <2>3, Zenon DEF TypeOK
<1>2. HandleInv'
  BY DEF TypeOK, HandleInv
<1>3. FrameInv'
  BY DEF TypeOK, FrameInv, RunInv
<1>4. RunInv'
  BY DEF TypeOK, FrameInv, RunInv
<1>5. FoundInv'
  BY DEF TypeOK, FoundInv
<1>. QED
  BY <1>1, <1>2, <1>3, <1>4, <1>5

\* Only a wait that was never stopped goes on to register.
LEMMA CheckStopStep ==
    ASSUME IInv, NEW w \in Waits, CheckStop(w)
    PROVE  IInv'
<1>. USE DEF IInv, ghostVars, CheckStop, Enter, Fail, resVars, stopVars
<1>1. TypeOK'
  BY DEF TypeOK, States
<1>2. HandleInv'
  BY DEF TypeOK, HandleInv
<1>3. FrameInv'
  BY DEF TypeOK, FrameInv, RunInv
<1>4. RunInv'
  BY DEF TypeOK, FrameInv, RunInv
<1>5. FoundInv'
  BY DEF TypeOK, FoundInv
<1>. QED
  BY <1>1, <1>2, <1>3, <1>4, <1>5

\* The callback is registered for a coroutine that nobody has posted.
LEMMA RegisterStep ==
    ASSUME IInv, NEW w \in Waits, NEW n \in Present, Register(w, n)
    PROVE  IInv'
<1>. USE DEF IInv, ghostVars, Register, Enter, Fail, resVars, stopVars
<1>1. TypeOK'
  BY PresentAssumption DEF TypeOK, States
<1>2. HandleInv'
  BY DEF TypeOK, HandleInv
<1>3. FrameInv'
  BY DEF TypeOK, FrameInv, RunInv
<1>4. RunInv'
  BY PresentAssumption DEF TypeOK, FrameInv, RunInv
<1>5. FoundInv'
  <2>1. Arrived # NoEvent
    BY PresentAssumption, NoneAssumption
  <2>. QED
    BY <2>1 DEF TypeOK, RunInv, FoundInv
<1>. QED
  BY <1>1, <1>2, <1>3, <1>4, <1>5

\* An error is the result of a wait that is never suspended.
LEMMA RegisterFailsStep ==
    ASSUME IInv, NEW w \in Waits, RegisterFails(w)
    PROVE  IInv'
<1>. USE DEF IInv, ghostVars, RegisterFails, Enter, Fail, resVars, stopVars
<1>1. TypeOK'
  BY DEF TypeOK, States
<1>2. HandleInv'
  BY DEF TypeOK, HandleInv
<1>3. FrameInv'
  BY DEF TypeOK, FrameInv, RunInv
<1>4. RunInv'
  BY DEF TypeOK, FrameInv, RunInv
<1>5. FoundInv'
  BY DEF TypeOK, FoundInv
<1>. QED
  BY <1>1, <1>2, <1>3, <1>4, <1>5

\* A coroutine that no stop resumes was posted by its callback.
LEMMA ResumeStep ==
    ASSUME IInv, NEW w \in Waits, Resume(w)
    PROVE  IInv'
<1>. USE DEF IInv, ghostVars, Resume, Enter, Fail, resVars, stopVars
<1>1. TypeOK'
  BY DEF TypeOK, States
<1>2. HandleInv'
  BY DEF TypeOK, HandleInv
<1>3. FrameInv'
  BY DEF TypeOK, FrameInv, RunInv
<1>4. RunInv'
  BY DEF TypeOK, FrameInv, RunInv
<1>5. FoundInv'
  BY DEF TypeOK, FoundInv
<1>. QED
  BY <1>1, <1>2, <1>3, <1>4, <1>5

\* The frame goes when libusb has no pointer into it.
LEMMA ReturnStep ==
    ASSUME IInv, NEW w \in Waits, Return(w)
    PROVE  IInv'
<1>. USE DEF IInv, ghostVars, Return, Enter, Fail, resVars, stopVars
<1>1. TypeOK'
  BY DEF TypeOK, States
<1>2. HandleInv'
  BY DEF TypeOK, HandleInv
<1>3. FrameInv'
  BY DEF TypeOK, FrameInv, RunInv
<1>4. RunInv'
  BY DEF TypeOK, FrameInv, RunInv
<1>5. FoundInv'
  BY DEF TypeOK, FoundInv
<1>. QED
  BY <1>1, <1>2, <1>3, <1>4, <1>5

\* A callback starts for a wait that is registered.
LEMMA DispatchStep ==
    ASSUME IInv, NEW w \in Waits, NEW e \in Events, Dispatch(w, e)
    PROVE  IInv'
<1>. USE DEF IInv, ghostVars, Dispatch, resVars, stopVars
<1>1. TypeOK' /\ HandleInv'
  BY DEF TypeOK, HandleInv
<1>2. FrameInv'
  BY DEF FrameInv
<1>3. RunInv'
  BY DEF RunInv
<1>4. FoundInv'
  BY DEF FoundInv
<1>. QED
  BY <1>1, <1>2, <1>3, <1>4

\* What the callback of w does: its coroutine is suspended, or was stopped.
LEMMA CallbackStep ==
    ASSUME IInv, Callback
    PROVE  IInv'
<1>. USE DEF IInv, ghostVars, Callback, Post, stopVars
<1>1. cb.wait \in Waits /\ cb.event \in Events
  BY DEF TypeOK
<1>2. TypeOK' /\ HandleInv'
  BY <1>1 DEF TypeOK, HandleInv
<1>3. cb'.wait \notin Waits
  BY NoneAssumption DEF NoCallback, NoEvent
<1>4. FrameInv'
  BY <1>1, <1>3 DEF TypeOK, FrameInv
<1>5. RunInv'
  BY <1>1, NoneAssumption DEF TypeOK, FrameInv, RunInv
<1>6. FoundInv'
  BY <1>1, NoneAssumption DEF TypeOK, FoundInv
<1>. QED
  BY <1>2, <1>4, <1>5, <1>6

\* A wait that is stopped leaves the invariant of those that are not.
LEMMA RequestStopStep ==
    ASSUME IInv, NEW w \in Waits, RequestStop(w)
    PROVE  IInv'
<1>. USE DEF IInv, ghostVars, RequestStop, resVars
<1>1. TypeOK' /\ HandleInv'
  BY DEF TypeOK, HandleInv
<1>2. FrameInv' /\ RunInv'
  BY DEF TypeOK, FrameInv, RunInv
<1>3. FoundInv'
  BY DEF TypeOK, FoundInv
<1>. QED
  BY <1>1, <1>2, <1>3

\* The stop callback finds a handle, so the wait is not about to register.
LEMMA StopFnStep ==
    ASSUME IInv, NEW w \in Waits, StopFn(w)
    PROVE  IInv'
<1>. USE DEF IInv, ghostVars, StopFn, Fail, Post
<1>1. TypeOK' /\ HandleInv'
  BY DEF TypeOK, HandleInv
<1>2. w \in stopped
  BY DEF TypeOK
<1>3. FrameInv'
  BY <1>2 DEF TypeOK, HandleInv, FrameInv
<1>4. RunInv'
  BY <1>2 DEF TypeOK, RunInv
<1>5. FoundInv'
  BY DEF TypeOK, FoundInv
<1>. QED
  BY <1>1, <1>3, <1>4, <1>5

\* Doing nothing changes nothing.
LEMMA StutterStep == IInv /\ UNCHANGED vars => IInv'
BY DEF IInv, TypeOK, HandleInv, FrameInv, RunInv, FoundInv, ghostVars, vars, resVars, stopVars

\* The invariant is inductive: one case for each action.
LEMMA NextIInv == IInv /\ [Next]_vars => IInv'
<1>. SUFFICES ASSUME IInv, [Next]_vars PROVE IInv'
  OBVIOUS
<1>1. ASSUME NEW w \in Waits, Call(w) \/ Waiting(w) \/ RequestStop(w) \/ StopFn(w)
      PROVE  IInv'
  BY <1>1, CallStep, CheckStopStep, RegisterStep, RegisterFailsStep, ResumeStep,
     ReturnStep, RequestStopStep, StopFnStep DEF Waiting
<1>2. ASSUME NEW w \in Waits, NEW e \in Events, Dispatch(w, e)
      PROVE  IInv'
  BY <1>2, DispatchStep
<1>3. CASE Callback
  BY <1>3, CallbackStep
<1>4. CASE UNCHANGED vars
  BY <1>4, StutterStep
<1>. QED
  BY <1>1, <1>2, <1>3, <1>4 DEF Next

-----------------------------------------------------------------------------
(* Theorems                                                                *)

\* The inductive invariant of the one-shot wait.
THEOREM Invariance == SafeSpec => []IInv
BY InitIInv, NextIInv, PTL DEF SafeSpec

(***************************************************************************)
(* libusb never runs a callback on a frame that is gone or about to go,    *)
(* but for a wait that was stopped while its callback ran; and without a   *)
(* stop the continuation is posted once, while it is suspended.  The waits *)
(* for which ENUMERATE found a device are left out.                        *)
(***************************************************************************)
THEOREM FrameOutlivesCallback == SafeSpec => []ResumedOnceInFrame
<1>1. IInv => ResumedOnceInFrame
  BY DEF IInv, TypeOK, FrameInv, RunInv, ResumedOnceInFrame
<1>. QED
  BY <1>1, Invariance, PTL

\* Without a stop the result is the event that the callback saw, or an error.
THEOREM ResultIsWhatWasSeen == SafeSpec => []ReturnsWhatWasSeen
<1>1. IInv => ReturnsWhatWasSeen
  BY DEF IInv, RunInv, FoundInv, ReturnsWhatWasSeen
<1>. QED
  BY <1>1, Invariance, PTL
=============================================================================
