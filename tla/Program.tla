------------------------------ MODULE Program ------------------------------
(***************************************************************************)
(* A whole program over the library, examples/03-complete-io.cpp: main     *)
(* sets the event handler up, a coroutine accepts devices, a coroutine for *)
(* each device opens it, detaches the kernel driver, claims the interface  *)
(* and reads until an error or a stop, another one requests the stop, and  *)
(* main waits for all of them before the service shuts down.               *)
(*                                                                         *)
(* The components appear at the level of their operations: an I/O          *)
(* operation as in TransferOp, accept() and its stop callback as in        *)
(* DeviceAcceptor, the guards as in Wrappers, the reference count as the   *)
(* set of its holders.  The devices are the mock of qemu/9.2.4/mock.c,     *)
(* which the user plugs in and may pull out.                               *)
(***************************************************************************)
EXTENDS Naturals

CONSTANTS
    Devices,            \* devices that are plugged in, each once
    Sizes,              \* lengths of a transfer
    More,               \* transfers of a read after its first: 15
    InSize,             \* the mock's buf: 256 * 1024 bytes
    OutSize,            \* the mock's outbuf: 4096 bytes
    None                \* no device

Acceptor == "acceptor"

ASSUME NoneAssumption == None \notin Devices
ASSUME AcceptorAssumption == Acceptor \notin Devices
ASSUME SizesAssumption == Sizes \subseteq Nat /\ InSize \in Nat /\ OutSize \in Nat
ASSUME MoreAssumption == More \in Nat

VARIABLES
    bus,                \* each device: absent, present or gone
    driver,             \* its kernel driver: none, bound or detached
    stop,               \* whether the stop was requested
    calls,              \* stop callbacks that request_stop() has yet to run
    thread,             \* the event handler's thread: running or exited
    refs,               \* who holds a reference on the handler
    acc,                \* where accept_hotplug is
    listening,          \* whether its callback is registered
    stored,             \* m_arrived_devices
    got,                \* what its accept() returns
    loop,               \* where the dev_loop of each device is
    held,               \* the wrappers it has as locals
    size,               \* the length of its transfers, or 0
    more,               \* transfers that its read has yet to continue with
    okay,               \* whether its last transfer succeeded
    cancelled,          \* transfers in flight that were cancelled
    unwinding,          \* loops that an exception leaves
    main,               \* main(): joining, closing or ended
    crashed,            \* std::terminate() was called
    race                \* ghost: a stop that accept() or a transfer in flight
                        \* does not see, or that posts accept() again

busVars == <<bus, driver>>
serviceVars == <<stop, calls, thread, refs>>
accVars == <<acc, listening, stored, got>>
loopVars == <<loop, held, size, more, okay, cancelled, unwinding>>
vars == <<busVars, serviceVars, accVars, loopVars, main, crashed, race>>

Init ==
    /\ bus = [d \in Devices |-> "absent"]
    /\ driver \in [Devices -> {"none", "bound"}]
    /\ stop = FALSE /\ calls = {} /\ thread = "running" /\ refs = {}
    /\ acc = "start" /\ listening = FALSE /\ stored = {} /\ got = None
    /\ loop = [d \in Devices |-> "none"]
    /\ held = [d \in Devices |-> {}]
    /\ size = [d \in Devices |-> 0]
    /\ more = [d \in Devices |-> 0]
    /\ okay = [d \in Devices |-> TRUE]
    /\ cancelled = {} /\ unwinding = {}
    /\ main = "joining" /\ crashed = FALSE /\ race = FALSE

Present(d) == bus[d] = "present"
Go(d, l) == loop' = [loop EXCEPT ![d] = l]

-----------------------------------------------------------------------------
(* The mock device                                                         *)

\* usb_mock_handle_data() and usb_mock_token_in(): the status of a packet; a
\* transfer that is not acknowledged stays in flight.
MockAnswer(pid, ep, n) ==
    CASE pid = "out" /\ ep = 2 -> IF n >= OutSize THEN "nak" ELSE "success"
      [] pid = "in" /\ ep = 1 -> IF n <= 0 \/ n > InSize THEN "nak" ELSE "success"
      [] OTHER -> "stall"

\* usb_mock_realize(): the device attaches itself.
Plug(d) ==
    /\ bus[d] = "absent"
    /\ bus' = [bus EXCEPT ![d] = "present"]
    /\ UNCHANGED <<driver, serviceVars, accVars, loopVars, main, race>>

Unplug(d) ==
    /\ Present(d)
    /\ bus' = [bus EXCEPT ![d] = "gone"]
    /\ UNCHANGED <<driver, serviceVars, accVars, loopVars, main, race>>

-----------------------------------------------------------------------------
(* accept_hotplug                                                          *)

\* The acceptor takes its reference and listens; an error is only printed.
StartAccepting ==
    /\ acc = "start"
    /\ refs' = refs \cup {Acceptor}
    /\ \E ok \in BOOLEAN :
        /\ listening' = ok
        /\ stored' = IF ok THEN {d \in Devices : Present(d)} ELSE {}
    /\ acc' = "checking"
    /\ UNCHANGED <<busVars, stop, calls, thread, got, loopVars, main, race>>

\* accept() finds a stored device, sees the stop, or goes on to wait.
Accept ==
    /\ acc \in {"checking", "joining"}
    /\ IF acc = "checking" /\ stop
       THEN acc' = "leaving" /\ UNCHANGED <<stored, got>>
       ELSE \/ \E d \in stored : got' = d /\ stored' = stored \ {d} /\ acc' = "resumed"
            \/ /\ stored = {}
               /\ acc' = IF acc = "joining" THEN "waiting" ELSE "joining"
               /\ got' = None
               /\ UNCHANGED stored
    /\ UNCHANGED <<busVars, serviceVars, listening, loopVars, main, race>>

\* The loop starts a dev_loop for a device and ends with any error.
Accepted ==
    /\ acc = "resumed"
    /\ IF got = None THEN acc' = "leaving" /\ UNCHANGED loop
                     ELSE acc' = "checking" /\ Go(got, "start")
    /\ UNCHANGED <<busVars, serviceVars, listening, stored, got, held, size, more, okay,
                   cancelled, unwinding, main, race>>

\* acceptor.shutdown(), and the end of the coroutine.
StopAccepting ==
    /\ acc = "leaving"
    /\ listening' = FALSE /\ stored' = {}
    /\ refs' = refs \ {Acceptor}
    /\ acc' = "ended"
    /\ UNCHANGED <<busVars, stop, calls, thread, got, loopVars, main, race>>

-----------------------------------------------------------------------------
(* dev_loop                                                                *)

\* open_device(dev, as_optional(ec)): a failure ends the coroutine.
Open(d) ==
    /\ loop[d] = "start"
    /\ \/ Present(d) /\ held' = [held EXCEPT ![d] = {"handle"}] /\ Go(d, "opened")
       \/ Go(d, "ended") /\ UNCHANGED held
    /\ UNCHANGED <<busVars, serviceVars, accVars, size, more, okay, cancelled, unwinding, main, race>>

\* detach_driver(as_expected()): the result is not looked at.
Detach(d) ==
    /\ loop[d] = "opened"
    /\ IF Present(d) /\ driver[d] = "bound"
       THEN /\ driver' = [driver EXCEPT ![d] = "detached"]
            /\ held' = [held EXCEPT ![d] = @ \cup {"guard"}]
       ELSE UNCHANGED <<driver, held>>
    /\ Go(d, "guarded")
    /\ UNCHANGED <<bus, serviceVars, accVars, size, more, okay, cancelled, unwinding, main, race>>

\* claim_interface(as_optional(ec)).
Claim(d) ==
    /\ loop[d] = "guarded"
    /\ IF Present(d) /\ driver[d] # "bound"
       THEN held' = [held EXCEPT ![d] = @ \cup {"interface"}] /\ Go(d, "claimed")
       ELSE Go(d, "leaving") /\ UNCHANGED held
    /\ UNCHANGED <<busVars, serviceVars, accVars, size, more, okay, cancelled, unwinding, main, race>>

\* The transfers and the adapter, with its reference on the handler.
Prepare(d) ==
    /\ loop[d] = "claimed"
    /\ refs' = refs \cup {d}
    /\ Go(d, "checking")
    /\ UNCHANGED <<busVars, stop, calls, thread, accVars, held, size, more, okay, cancelled,
                   unwinding, main, race>>

\* Mutant of Check: a loop that goes on while its reads succeed.
CheckNever(d) ==
    /\ loop[d] = "checking"
    /\ Go(d, "submitting")
    /\ UNCHANGED <<busVars, serviceVars, accVars, held, size, more, okay, cancelled, unwinding, main, race>>

\* The stop token is read, by the loop and by the operation.
Check(d) ==
    /\ loop[d] = "checking"
    /\ Go(d, IF stop THEN "leaving" ELSE "submitting")
    /\ UNCHANGED <<busVars, serviceVars, accVars, held, size, more, okay, cancelled, unwinding, main, race>>

\* A stop whose callback has run does not cancel what is submitted after it.
Unseen(d) == stop /\ d \notin calls

(***************************************************************************)
(* The operation submits its one transfer.  libusb refuses a device that is*)
(* gone: the operation suspends with a transfer to wait for that nobody    *)
(* hands back.                                                             *)
(***************************************************************************)
Submit(d) ==
    /\ loop[d] = "submitting"
    /\ more' = [more EXCEPT ![d] = More]
    /\ IF Present(d)
       THEN /\ Go(d, "reading") /\ \E n \in Sizes : size' = [size EXCEPT ![d] = n]
            /\ race' = (race \/ Unseen(d))
       ELSE Go(d, "hung") /\ UNCHANGED <<size, race>>
    /\ UNCHANGED <<busVars, serviceVars, accVars, held, okay, cancelled, unwinding, main>>

\* The operation returns: another read, or the loop ends.
Resume(d) ==
    /\ loop[d] = "answered"
    /\ Go(d, IF okay[d] THEN "checking" ELSE "leaving")
    /\ UNCHANGED <<busVars, serviceVars, accVars, held, size, more, okay, cancelled, unwinding, main, race>>

Drop(d, o) == held' = [held EXCEPT ![d] = @ \ {o}]

(***************************************************************************)
(* A destructor fails on a device that is gone, and throws: the second one *)
(* that does, or the guard's in its std::expected, terminates the program. *)
(***************************************************************************)
Throws(d, boxed) ==
    IF Present(d) THEN UNCHANGED <<unwinding, crashed>>
    ELSE \/ crashed' = TRUE /\ (boxed \/ d \in unwinding) /\ UNCHANGED unwinding
         \/ unwinding' = unwinding \cup {d} /\ d \notin unwinding /\ UNCHANGED crashed

\* The adapter and its transfers go first.
DestroyAdapter(d) ==
    /\ loop[d] = "leaving" /\ d \in refs
    /\ refs' = refs \ {d}
    /\ UNCHANGED <<busVars, stop, calls, thread, accVars, loopVars, main, crashed, race>>

\* ~interface.
ReleaseInterface(d) ==
    /\ loop[d] = "leaving" /\ d \notin refs /\ "interface" \in held[d]
    /\ Drop(d, "interface")
    /\ Throws(d, FALSE)
    /\ UNCHANGED <<busVars, serviceVars, accVars, loop, size, more, okay, cancelled, main, race>>

\* Mutant of AttachDriver: the destructor does not attach.
AttachDriverNever(d) ==
    /\ loop[d] = "leaving" /\ "interface" \notin held[d] /\ "guard" \in held[d]
    /\ Drop(d, "guard")
    /\ UNCHANGED <<busVars, serviceVars, accVars, loop, size, more, okay, cancelled, unwinding,
                   main, crashed, race>>

\* ~driver_guard.
AttachDriver(d) ==
    /\ loop[d] = "leaving" /\ d \notin refs
    /\ "interface" \notin held[d] /\ "guard" \in held[d]
    /\ Drop(d, "guard")
    /\ driver' = IF Present(d) THEN [driver EXCEPT ![d] = "bound"] ELSE driver
    /\ Throws(d, TRUE)
    /\ UNCHANGED <<bus, serviceVars, accVars, loop, size, more, okay, cancelled, main, race>>

\* ~device_handle, and the coroutine ends.
CloseHandle(d) ==
    /\ loop[d] = "leaving" /\ d \notin refs /\ held[d] = {"handle"}
    /\ Drop(d, "handle")
    /\ Go(d, "ended")
    /\ UNCHANGED <<busVars, serviceVars, accVars, size, more, okay, cancelled, unwinding, main,
                   crashed, race>>

-----------------------------------------------------------------------------
(* The event handler's thread                                              *)

\* It runs one callback at a time.
Polling == thread = "running" /\ \A d \in Devices : loop[d] # "callback"

\* The hotplug callback: the waiting accept() gets the device, or it is stored.
Arrive(d) ==
    /\ Polling /\ listening
    /\ Present(d) /\ loop[d] = "none" /\ d \notin stored /\ got # d
    /\ IF acc = "waiting" THEN acc' = "resumed" /\ got' = d /\ UNCHANGED stored
                          ELSE stored' = stored \cup {d} /\ UNCHANGED <<acc, got>>
    /\ UNCHANGED <<busVars, serviceVars, listening, loopVars, main, race>>

\* A device that left is not stored any more.
Leave(d) ==
    /\ Polling /\ listening
    /\ bus[d] = "gone" /\ d \in stored
    /\ stored' = stored \ {d}
    /\ UNCHANGED <<busVars, serviceVars, acc, listening, got, loopVars, main, race>>

\* A transfer ends: the device answers or is gone, or it was cancelled.
Reap(d) ==
    /\ Polling
    /\ loop[d] = "reading"
    /\ LET answer == MockAnswer("in", 1, size[d])
       IN  \/ /\ Present(d) /\ d \notin cancelled /\ answer # "nak"
              /\ okay' = [okay EXCEPT ![d] = answer = "success"]
           \/ /\ ~Present(d) \/ d \in cancelled
              /\ okay' = [okay EXCEPT ![d] = FALSE]
    /\ cancelled' = cancelled \ {d}
    /\ Go(d, "callback")
    /\ UNCHANGED <<busVars, serviceVars, accVars, held, size, more, unwinding, main, race>>

\* The callback posts the operation if the buffer is full, and for any error.
Complete(d) ==
    /\ loop[d] = "callback"
    /\ \/ ~okay[d] /\ UNCHANGED okay
       \/ okay[d] /\ more[d] = 0 /\ UNCHANGED okay
       \/ okay[d] /\ more[d] > 0 /\ ~Present(d) /\ okay' = [okay EXCEPT ![d] = FALSE]
    /\ size' = [size EXCEPT ![d] = 0]
    /\ more' = [more EXCEPT ![d] = 0]
    /\ Go(d, "answered")
    /\ UNCHANGED <<busVars, serviceVars, accVars, held, cancelled, unwinding, main, race>>

\* A buffer that is not full goes on: the transfer is submitted again.
Continue(d) ==
    /\ loop[d] = "callback"
    /\ okay[d] /\ more[d] > 0 /\ Present(d)
    /\ more' = [more EXCEPT ![d] = @ - 1]
    /\ Go(d, "reading")
    /\ race' = (race \/ Unseen(d))
    /\ UNCHANGED <<busVars, serviceVars, accVars, held, size, okay, cancelled, unwinding, main>>

\* Mutant of LoopEnds: the loop of trivial_event_handler.
LoopEndsOnStop == stop

\* The loop of refcounted_event_handler.
LoopEnds == stop /\ refs = {}

HandlerExits ==
    /\ Polling /\ LoopEnds
    /\ thread' = "exited"
    /\ UNCHANGED <<busVars, stop, calls, refs, accVars, loopVars, main, race>>

-----------------------------------------------------------------------------
(* The stop                                                                *)

\* Who has a stop callback registered: an accept() or a read that is not over.
Registered == {d \in Devices : loop[d] \in {"submitting", "reading", "callback",
                                             "hung", "answered"}}
              \cup {a \in {Acceptor} : acc \in {"joining", "waiting", "resumed"}}

\* ctx.request_stop(), once the program ran long enough.
RequestStop ==
    /\ ~stop
    /\ stop' = TRUE
    /\ calls' = Registered
    /\ UNCHANGED <<busVars, thread, refs, accVars, loopVars, main, race>>

\* A callback that was destroyed meanwhile is not called.
Forget(c) ==
    /\ c \in calls \ Registered
    /\ calls' = calls \ {c}
    /\ UNCHANGED <<busVars, stop, thread, refs, accVars, loopVars, main, race>>

(***************************************************************************)
(* accept()'s callback posts it if it waits.  It is in vain if accept() is *)
(* about to, and posts a second time if a device was handed over already.  *)
(***************************************************************************)
CancelAccept ==
    /\ Acceptor \in calls
    /\ acc \in {"joining", "waiting", "resumed"}
    /\ calls' = calls \ {Acceptor}
    /\ IF acc = "waiting" THEN acc' = "resumed" /\ got' = None /\ UNCHANGED race
                          ELSE race' = TRUE /\ UNCHANGED <<acc, got>>
    /\ UNCHANGED <<busVars, stop, thread, refs, listening, stored, loopVars, main>>

\* Mutant of CancelRead: the transfers are left in flight.
CancelReadNever(d) ==
    /\ d \in calls /\ d \in Registered
    /\ calls' = calls \ {d}
    /\ UNCHANGED <<busVars, stop, thread, refs, accVars, loopVars, main, race>>

\* A read's callback cancels its transfer, if that is in flight.
CancelRead(d) ==
    /\ d \in calls /\ d \in Registered
    /\ calls' = calls \ {d}
    /\ cancelled' = IF loop[d] = "reading" THEN cancelled \cup {d} ELSE cancelled
    /\ UNCHANGED <<busVars, stop, thread, refs, accVars, loop, held, size, more, okay, unwinding,
                   main, race>>

-----------------------------------------------------------------------------
(* main                                                                    *)

\* tp.join() returns when every coroutine has ended.
Join ==
    /\ main = "joining"
    /\ stop /\ calls = {}
    /\ acc = "ended"
    /\ \A d \in Devices : loop[d] \in {"none", "ended"}
    /\ main' = "closing"
    /\ UNCHANGED <<busVars, serviceVars, accVars, loopVars, race>>

\* The thread pool's services shut down: the handler's thread is joined.
Shutdown ==
    /\ main = "closing" /\ thread = "exited"
    /\ main' = "ended"
    /\ UNCHANGED <<busVars, serviceVars, accVars, loopVars, race>>

-----------------------------------------------------------------------------

Accepting == StartAccepting \/ Accept \/ Accepted \/ StopAccepting

Reading(d) == Open(d) \/ Detach(d) \/ Claim(d) \/ Prepare(d) \/ Check(d) \/ Submit(d)
              \/ Resume(d)

Leaving(d) == DestroyAdapter(d) \/ ReleaseInterface(d) \/ AttachDriver(d) \/ CloseHandle(d)

Reaping(d) == Reap(d) \/ Complete(d) \/ Continue(d)

Handling(d) == Arrive(d) \/ Leave(d) \/ Reaping(d)

Stopping(d) == Forget(d) \/ CancelRead(d)

Quiet == UNCHANGED crashed

Coroutines == Accepting \/ (\E d \in Devices : Reading(d))

Next ==
    /\ ~crashed
    /\ \/ (Coroutines \/ Join \/ Shutdown \/ HandlerExits) /\ Quiet
       \/ (RequestStop \/ Forget(Acceptor) \/ CancelAccept) /\ Quiet
       \/ \E d \in Devices :
            \/ Leaving(d)
            \/ (Plug(d) \/ Unplug(d) \/ Handling(d) \/ Stopping(d)) /\ Quiet

SafeSpec == Init /\ [][Next]_vars

(***************************************************************************)
(* The pool's threads, the event handler's and main keep running, and the  *)
(* program does request the stop.  A device answers a transfer if it does  *)
(* at all, and a cancelled one ends.                                       *)
(***************************************************************************)
Spec ==
    /\ SafeSpec
    /\ WF_vars(~crashed /\ Accepting /\ Quiet)
    /\ \A d \in Devices : /\ WF_vars(~crashed /\ Reading(d) /\ Quiet)
                          /\ WF_vars(~crashed /\ Leaving(d))
                          /\ WF_vars(~crashed /\ Reaping(d) /\ Quiet)
                          /\ WF_vars(~crashed /\ Stopping(d) /\ Quiet)
    /\ WF_vars(~crashed /\ (Forget(Acceptor) \/ CancelAccept) /\ Quiet)
    /\ WF_vars(~crashed /\ RequestStop /\ Quiet)
    /\ WF_vars(~crashed /\ (HandlerExits \/ Join \/ Shutdown) /\ Quiet)

-----------------------------------------------------------------------------
(* Properties                                                              *)

(***************************************************************************)
(* While a read is in flight or an accept() waits, the event handler's     *)
(* thread is there to complete it: also for a dev_loop that was started    *)
(* before the stop and takes its reference after the acceptor is gone.     *)
(***************************************************************************)
PendingIsServed ==
    (\E d \in Devices : loop[d] \in {"submitting", "reading", "callback"}) \/ acc = "waiting"
        => thread = "running"

(***************************************************************************)
(* When the program has ended, each device still on the bus has its kernel *)
(* driver back and nothing of the program's on it.                         *)
(***************************************************************************)
DriverRestored ==
    main = "ended" => \A d \in Devices :
        held[d] = {} /\ (Present(d) => driver[d] # "detached")

(***************************************************************************)
(* What each part of the program has yet to do once the stop is requested. *)
(* A device without a dev_loop may still get one as long as accept_hotplug *)
(* has not ended; a read goes on for the transfers that its buffer takes,  *)
(* and is not followed by another.                                         *)
(***************************************************************************)
Place == [none |-> 15, start |-> 14, opened |-> 13, guarded |-> 12, claimed |-> 11,
          submitting |-> 10, reading |-> 9, callback |-> 8, answered |-> 7, checking |-> 6,
          leaving |-> 1, hung |-> 0, ended |-> 0]

Handed(d) == d \in stored \/ (acc = "resumed" /\ got = d)

AheadOf(d) == CASE acc = "ended" -> 0
                [] acc # "ended" /\ Handed(d) -> 16 + 2 * More
                [] acc # "ended" /\ ~Handed(d) ->
                      IF bus[d] = "gone" THEN 15 + 2 * More ELSE 17 + 2 * More

ToUnwind(d) == CASE d \in refs -> 4
                 [] d \notin refs /\ "interface" \in held[d] -> 3
                 [] d \notin refs /\ "interface" \notin held[d] ->
                       IF "guard" \in held[d] THEN 2 ELSE 1

LoopLeft(d) == CASE loop[d] = "none" -> AheadOf(d)
                 [] loop[d] = "leaving" -> ToUnwind(d)
                 [] loop[d] \in {"start", "opened", "guarded", "claimed", "submitting"} ->
                       Place[loop[d]] + 2 * More
                 [] loop[d] \in {"reading", "callback"} -> Place[loop[d]] + 2 * more[d]
                 [] loop[d] \in {"answered", "checking", "hung", "ended"} -> Place[loop[d]]

BusLeft(d) == CASE bus[d] = "absent" -> 2 [] bus[d] = "present" -> 1 [] bus[d] = "gone" -> 0

AcceptLeft == [start |-> 6, joining |-> 5, waiting |-> 4, resumed |-> 3, checking |-> 2,
               leaving |-> 1, ended |-> 0][acc]

MainLeft == [joining |-> 2, closing |-> 1, ended |-> 0][main]

(***************************************************************************)
(* After the stop each step, of whoever it is, leaves some part less to do *)
(* and none more: no part sends another back to work, no loop reads again  *)
(* and the handler's thread does not come back.                            *)
(***************************************************************************)
WindsDown ==
    /\ \A d \in Devices : LoopLeft(d) >= LoopLeft(d)' /\ BusLeft(d) >= BusLeft(d)'
    /\ AcceptLeft >= AcceptLeft' /\ MainLeft >= MainLeft'
    /\ calls' \subseteq calls
    /\ thread = "exited" => thread' = "exited"
    /\ \/ \E d \in Devices : LoopLeft(d) > LoopLeft(d)' \/ BusLeft(d) > BusLeft(d)'
       \/ AcceptLeft > AcceptLeft' \/ MainLeft > MainLeft'
       \/ calls' # calls \/ thread' # thread

StopWindsDown == [][stop => WindsDown]_vars

(***************************************************************************)
(* After a stop that nobody misses, and until the program has ended, there *)
(* is always a step to take that needs neither the user nor an answer of a *)
(* device: a stop callback to run, a coroutine that is not suspended, a    *)
(* cancelled transfer to hand back, its callback, the handler's exit, or   *)
(* main's; unless a read was refused its first transfer and hangs.         *)
(***************************************************************************)
Hung == \E d \in Devices : loop[d] = "hung"

NobodyStuck ==
    stop /\ ~race /\ ~crashed /\ ~Hung /\ main # "ended" =>
        \/ calls # {}
        \/ acc \notin {"waiting", "ended"}
        \/ \E d \in Devices : loop[d] \notin {"none", "reading", "callback", "hung", "ended"}
        \/ thread = "running" /\ \E d \in Devices :
              loop[d] = "callback" \/ (loop[d] = "reading" /\ d \in cancelled)
        \/ thread = "running" /\ LoopEnds
        \/ /\ main = "joining" /\ acc = "ended"
           /\ \A d \in Devices : loop[d] \in {"none", "ended"}
        \/ main = "closing" /\ thread = "exited"

(***************************************************************************)
(* A stop ends the program: every operation that it finds is cancelled,    *)
(* every coroutine ends, the references go and the handler's thread with   *)
(* them.  The stop that PartialIO and DeviceAcceptor show to be lost, the  *)
(* refused submission that CompleteIO shows to hang, and the end by an     *)
(* exception that Wrappers shows, are let through.                         *)
(***************************************************************************)
ProgramEnds == stop ~> main = "ended" \/ crashed \/ race \/ Hung
=============================================================================
