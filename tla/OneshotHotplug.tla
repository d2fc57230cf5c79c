--------------------------- MODULE OneshotHotplug ---------------------------
(***************************************************************************)
(* oneshot_hotplug() (hotplug/oneshot_hotplug.hpp) and the awaitable under *)
(* it (hotplug/detail/hotplug_awaitable.hpp): a coroutine registers a      *)
(* libusb hotplug callback and is resumed by the first event, or by a      *)
(* stop, which deregisters the callback.                                   *)
(*                                                                         *)
(* There is no lock.  The event handler's thread runs the callbacks one at *)
(* a time, outside libusb's own lock: deregistering one does not wait for  *)
(* it to return.  With LIBUSB_HOTPLUG_ENUMERATE it also runs the callback  *)
(* inside the registration, once for every device that is there, and does  *)
(* not look at what it returns.                                            *)
(***************************************************************************)
EXTENDS Naturals

CONSTANTS
    Waits,              \* coroutines in oneshot_hotplug()
    Events,             \* what may happen on the bus
    Present,            \* how many devices a registration may enumerate
    Stops               \* when a stop may be requested: a set of states

NoEvent == "none"
Arrived == "arrived"

ASSUME NoneAssumption == NoEvent \notin Waits /\ NoEvent \notin Events
ASSUME PresentAssumption == Arrived \in Events /\ Present \subseteq Nat

VARIABLES
    co,                 \* where each wait is
    registered,         \* waits whose callback libusb may run
    handle,             \* waits whose handle is not 0
    event,              \* op_res.event, with the device of that event
    ec,                 \* op_res.ec
    posts,              \* posts of each continuation not yet run
    stopped,            \* waits whose stop was requested
    stopFn,             \* waits whose stop callback has yet to act
    cb,                 \* the wait whose callback runs, with its event
    seen,               \* ghost: waits whose callback was run in this call
    found               \* ghost: waits posted inside their registration

resVars == <<event, ec, posts>>
stopVars == <<stopped, stopFn>>
ghostVars == <<seen, found>>
vars == <<co, registered, handle, resVars, stopVars, cb, ghostVars>>

NoCallback == [wait |-> "none", event |-> NoEvent]

States == {"idle", "called", "joining", "suspended", "resumed"}

TypeOK ==
    /\ co \in [Waits -> States]
    /\ registered \subseteq handle
    /\ handle \subseteq Waits
    /\ event \in [Waits -> Events \cup {NoEvent}]
    /\ ec \in [Waits -> {"none", "canceled", "usb"}]
    /\ posts \in [Waits -> Nat]
    /\ stopFn \subseteq stopped
    /\ stopped \subseteq Waits
    /\ cb \in [wait : Waits, event : Events] \cup {NoCallback}
    /\ seen \subseteq Waits
    /\ found \subseteq Waits

Init ==
    /\ co = [w \in Waits |-> "idle"]
    /\ registered = {} /\ handle = {}
    /\ event = [w \in Waits |-> NoEvent]
    /\ ec = [w \in Waits |-> "none"]
    /\ posts = [w \in Waits |-> 0]
    /\ stopped = {} /\ stopFn = {}
    /\ cb = NoCallback
    /\ seen = {} /\ found = {}

Enter(w, s) == co' = [co EXCEPT ![w] = s]
Fail(w, e) == ec' = [ec EXCEPT ![w] = e]
Post(w) == posts' = [posts EXCEPT ![w] = @ + 1]

-----------------------------------------------------------------------------
(* The coroutine                                                           *)

\* A new op_res and handle; a stop requested before finds no handle.  A wait
\* that was found is not followed into another call.
Call(w) ==
    /\ co[w] = "idle"
    /\ w \notin found
    /\ Enter(w, "called")
    /\ handle' = handle \ {w}
    /\ event' = [event EXCEPT ![w] = NoEvent]
    /\ Fail(w, "none")
    /\ seen' = seen \ {w}
    /\ UNCHANGED <<registered, posts, stopVars, cb, found>>

\* Mutant of CheckStop: the token is not read.
CheckNothing(w) ==
    /\ co[w] = "called"
    /\ Enter(w, "joining")
    /\ UNCHANGED <<registered, handle, resVars, stopVars, cb, ghostVars>>

\* await_suspend() reads the stop token once.
CheckStop(w) ==
    /\ co[w] = "called"
    /\ IF w \in stopped THEN Fail(w, "canceled") /\ Enter(w, "resumed")
                        ELSE Enter(w, "joining") /\ UNCHANGED ec
    /\ UNCHANGED <<registered, handle, event, posts, stopVars, cb, ghostVars>>

\* libusb finds n devices to run the callback for: none without ENUMERATE.
Register(w, n) ==
    /\ co[w] = "joining"
    /\ registered' = registered \cup {w}
    /\ handle' = handle \cup {w}
    /\ Enter(w, "suspended")
    /\ posts' = [posts EXCEPT ![w] = @ + n]
    /\ IF n = 0 THEN UNCHANGED <<event, ghostVars>>
                ELSE /\ event' = [event EXCEPT ![w] = Arrived]
                     /\ seen' = seen \cup {w}
                     /\ found' = found \cup {w}
    /\ UNCHANGED <<ec, stopVars, cb>>

\* Mutant of RegisterFails: libusb's error is not reported.
RegisterFailsUnreported(w) ==
    /\ co[w] = "joining"
    /\ Enter(w, "resumed")
    /\ UNCHANGED <<registered, handle, resVars, stopVars, cb, ghostVars>>

RegisterFails(w) ==
    /\ co[w] = "joining"
    /\ Fail(w, "usb")
    /\ Enter(w, "resumed")
    /\ UNCHANGED <<registered, handle, event, posts, stopVars, cb, ghostVars>>

Resume(w) ==
    /\ co[w] = "suspended"
    /\ posts[w] > 0
    /\ posts' = [posts EXCEPT ![w] = @ - 1]
    /\ Enter(w, "resumed")
    /\ UNCHANGED <<registered, handle, event, ec, stopVars, cb, ghostVars>>

\* await_resume() and co_return; ~stop_callback waits for a running stop_cb.
Return(w) ==
    /\ co[w] = "resumed"
    /\ w \notin stopFn
    /\ Enter(w, "idle")
    /\ UNCHANGED <<registered, handle, resVars, stopVars, cb, ghostVars>>

-----------------------------------------------------------------------------
(* The event handler's thread                                              *)

\* libusb has found a callback for an event, and is about to run it.
Dispatch(w, e) ==
    /\ cb = NoCallback
    /\ w \in registered
    /\ cb' = [wait |-> w, event |-> e]
    /\ UNCHANGED <<co, registered, handle, resVars, stopVars, ghostVars>>

\* Mutant of Callback: it returns 0 and stays registered.
CallbackStays ==
    /\ cb # NoCallback
    /\ event' = [event EXCEPT ![cb.wait] = cb.event]
    /\ Post(cb.wait)
    /\ seen' = seen \cup {cb.wait}
    /\ cb' = NoCallback
    /\ UNCHANGED <<co, registered, handle, ec, stopVars, found>>

\* Mutant of Callback: the coroutine is not posted.
CallbackSilent ==
    /\ cb # NoCallback
    /\ event' = [event EXCEPT ![cb.wait] = cb.event]
    /\ seen' = seen \cup {cb.wait}
    /\ registered' = registered \ {cb.wait}
    /\ cb' = NoCallback
    /\ UNCHANGED <<co, handle, ec, posts, stopVars, found>>

\* The callback returns 1: libusb deregisters it.
Callback ==
    /\ cb # NoCallback
    /\ event' = [event EXCEPT ![cb.wait] = cb.event]
    /\ Post(cb.wait)
    /\ seen' = seen \cup {cb.wait}
    /\ registered' = registered \ {cb.wait}
    /\ cb' = NoCallback
    /\ UNCHANGED <<co, handle, ec, stopVars, found>>

-----------------------------------------------------------------------------
(* Cancellation                                                            *)

RequestStop(w) ==
    /\ w \notin stopped
    /\ co[w] \in Stops
    /\ stopped' = stopped \cup {w}
    /\ stopFn' = IF co[w] = "idle" THEN stopFn ELSE stopFn \cup {w}
    /\ UNCHANGED <<co, registered, handle, resVars, cb, ghostVars>>

\* stop_cb: without a handle there is nothing to do.
StopFn(w) ==
    /\ w \in stopFn
    /\ stopFn' = stopFn \ {w}
    /\ IF w \notin handle THEN UNCHANGED <<registered, ec, posts>>
       ELSE /\ registered' = registered \ {w}
            /\ Fail(w, "canceled")
            /\ Post(w)
    /\ UNCHANGED <<co, handle, event, stopped, cb, ghostVars>>

-----------------------------------------------------------------------------

Waiting(w) ==
    \/ CheckStop(w)
    \/ \E n \in Present : Register(w, n)
    \/ RegisterFails(w)
    \/ Resume(w)
    \/ Return(w)

Next ==
    \/ \E w \in Waits : Call(w) \/ Waiting(w) \/ RequestStop(w) \/ StopFn(w)
    \/ \E w \in Waits, e \in Events : Dispatch(w, e)
    \/ Callback

SafeSpec == Init /\ [][Next]_vars

\* The program's threads keep running; nothing need happen on the bus.
Spec == /\ SafeSpec
        /\ \A w \in Waits : WF_vars(Waiting(w)) /\ WF_vars(StopFn(w))
        /\ WF_vars(Callback)

-----------------------------------------------------------------------------
(* Properties                                                              *)

(***************************************************************************)
(* The callback writes through a pointer into the coroutine's frame.  While*)
(* libusb may run it, the coroutine is suspended and nothing but a stop has*)
(* posted it; and a wait that is not stopped is posted once at most, and   *)
(* only while it is suspended.  A wait that was found is posted for every  *)
(* device there and its callback stays: nothing of this is so.             *)
(***************************************************************************)
ResumedOnceInFrame ==
    /\ \A w \in Waits \ found :
        w \in registered \/ (cb.wait = w /\ w \notin stopped) =>
            co[w] = "suspended" /\ posts[w] = 0
    /\ \A w \in Waits \ (stopped \cup found) :
        posts[w] = 0 \/ (posts[w] = 1 /\ co[w] = "suspended")

(***************************************************************************)
(* A wait that is not stopped returns an event exactly when its callback   *)
(* saw one, and an error otherwise.                                        *)
(***************************************************************************)
ReturnsWhatWasSeen ==
    \A w \in Waits \ stopped : co[w] = "resumed" =>
        (ec[w] = "none" <=> w \in seen) /\ (w \in seen => event[w] # NoEvent)

\* A wait whose callback libusb runs returns to its caller.
SeenReturns == \A w \in Waits : cb.wait = w ~> co[w] = "idle"

\* A stop requested before the wait, or once it is suspended, ends it.
StopEndsWait == \A w \in Waits : w \in stopped /\ co[w] # "idle" ~> co[w] = "idle"
=============================================================================
