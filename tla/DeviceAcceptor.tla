--------------------------- MODULE DeviceAcceptor ---------------------------
(***************************************************************************)
(* The hotplug acceptor (hotplug/device_acceptor.hpp): one libusb hotplug  *)
(* callback hands arriving devices to coroutines waiting in accept(), or   *)
(* stores them for the next accept().                                      *)
(*                                                                         *)
(* The threads: the event handler's, on which libusb dispatches the        *)
(* callback for a device plugged or unplugged; the program's, which calls  *)
(* bind(), listen(), close() and shutdown() one after the other and on     *)
(* which listen() reports the devices already present; the executor's,     *)
(* which run the accepting coroutines; and those that request a stop.      *)
(* m_mutex makes the callback, each half of accept() and the stop callback *)
(* single steps.  A callback that is dispatched when it is deregistered    *)
(* runs none the less.                                                     *)
(***************************************************************************)
EXTENDS Naturals, FiniteSets, SequencesExt

CONSTANTS
    Tasks,              \* coroutines that call accept()
    Devices,            \* devices that are plugged and unplugged
    Triplet,            \* device |-> its vendor, product and class
    AnyTriplet,         \* a triplet of wildcards
    Filters,            \* the triplets the program binds
    Stops,              \* when a stop may be requested: <<task, its state>>
    MaxHeld,            \* bound: devices stored, or handed out and not dropped
    MaxLeaked           \* bound: references on a device that nobody holds

NoDevice == "none"
NoTask == "none"
NoEvent == [kind |-> "none", dev |-> NoDevice]

ASSUME TasksAssumption == IsFiniteSet(Tasks)
ASSUME NoDeviceAssumption == NoDevice \notin Devices
ASSUME BoundsAssumption == MaxHeld \in Nat /\ MaxLeaked \in Nat
ASSUME TripletAssumption == DOMAIN Triplet = Devices

VARIABLES
    connected,          \* devices on the bus
    enum,               \* devices listen() has still to report
    event,              \* the event libusb has dispatched the callback for
    filter,             \* m_filter, which libusb copies
    handle,             \* m_handle # 0
    registered,         \* libusb runs the callback
    resumptions,        \* m_resumptions
    arrived,            \* m_arrived_devices
    task,               \* where each accept() is
    result,             \* op_result.dev_ref of each
    cancelled,          \* tasks whose op_result.ec is operation_canceled
    res,                \* tasks whose resumption_t has been filled in
    posts,              \* posts of each task's continuation not yet run
    stopped,            \* tasks whose stop was requested
    stopFn,             \* tasks whose stop callback waits for m_mutex
    shut,               \* shutdown(): off, locking, posting, walking
    cursor, last,       \* its loop: the entry it is at, and end()
    target,             \* the waiting coroutine it is about to post
    refs,               \* references device_ref holds on each device
    disturbed,          \* the list changed while shutdown() walked it
    leftover            \* listen() found devices or a callback of an earlier one

busVars == <<connected, enum, event>>
handleVars == <<filter, handle, registered>>
listVars == <<resumptions, arrived>>
opVars == <<result, cancelled, res>>
stopVars == <<stopped, stopFn>>
shutVars == <<shut, cursor, last, target>>
vars == <<busVars, handleVars, listVars, task, opVars, posts, stopVars, shutVars, refs,
          disturbed, leftover>>

TaskStates == {"idle", "called", "unready", "joining", "suspended", "resumed"}

TypeOK ==
    /\ connected \subseteq Devices
    /\ enum \subseteq connected
    /\ event \in {NoEvent} \cup [kind : {"arrived", "left"}, dev : Devices]
    /\ filter \in Filters \cup {AnyTriplet}
    /\ registered \in BOOLEAN /\ handle \in BOOLEAN
    /\ resumptions \in Seq(Tasks)
    /\ arrived \in Seq(Devices)
    /\ task \in [Tasks -> TaskStates]
    /\ result \in [Tasks -> Devices \cup {NoDevice}]
    /\ cancelled \subseteq Tasks
    /\ res \subseteq Tasks
    /\ posts \in [Tasks -> Nat]
    /\ stopped \subseteq Tasks
    /\ stopFn \subseteq stopped
    /\ shut \in {"off", "locking", "posting", "walking"}
    /\ cursor \in Nat /\ last \in Nat
    /\ target \in Tasks \cup {NoTask}
    /\ refs \in [Devices -> Nat]
    /\ disturbed \in BOOLEAN /\ leftover \in BOOLEAN

Init ==
    /\ connected \in SUBSET Devices
    /\ enum = {} /\ event = NoEvent
    /\ filter = AnyTriplet /\ handle = FALSE /\ registered = FALSE
    /\ resumptions = <<>> /\ arrived = <<>>
    /\ task = [t \in Tasks |-> "idle"]
    /\ result = [t \in Tasks |-> NoDevice]
    /\ cancelled = {} /\ res = {}
    /\ posts = [t \in Tasks |-> 0]
    /\ stopped = {} /\ stopFn = {}
    /\ shut = "off" /\ cursor = 0 /\ last = 0 /\ target = NoTask
    /\ refs = [d \in Devices |-> 0]
    /\ disturbed = FALSE /\ leftover = FALSE

Enter(t, s) == task' = [task EXCEPT ![t] = s]
Post(t) == posts' = [posts EXCEPT ![t] = @ + 1]
Refer(d) == refs' = [refs EXCEPT ![d] = @ + 1]

\* vector::erase of the first of the entries found, when one was found.
Erase(s, found) == IF found = {} THEN s ELSE RemoveAt(s, Min(found))

\* wildcard_triplet_comparator.
Matches(f, g) == f = g \/ AnyTriplet \in {f, g}

-----------------------------------------------------------------------------
(* The hotplug callback                                                    *)

\* The first waiting coroutine gets the device.
Wake(d) ==
    LET t == Head(resumptions) IN
    /\ result' = [result EXCEPT ![t] = d]
    /\ Post(t)
    /\ resumptions' = Tail(resumptions)
    /\ UNCHANGED <<arrived, cancelled, res>>

\* DEVICE_ARRIVED.
Arrived(d) ==
    /\ IF resumptions = <<>>
       THEN arrived' = Append(arrived, d) /\ UNCHANGED <<resumptions, opVars, posts>>
       ELSE Wake(d)
    /\ Refer(d)

\* Mutant of Left: the last entry goes, whatever its triplet.
LeftLast(d) ==
    /\ arrived' = IF arrived = <<>> THEN arrived ELSE Front(arrived)
    /\ UNCHANGED <<resumptions, opVars, posts, refs>>

(***************************************************************************)
(* DEVICE_LEFT: the first entry with the triplet of the device goes.  The  *)
(* entries behind it are copy assigned one place to the front, which takes *)
(* a reference for each and gives none back for the entry overwritten.     *)
(***************************************************************************)
Left(d) ==
    LET same == {i \in DOMAIN arrived : Matches(Triplet[arrived[i]], Triplet[d])}
        moved == {j \in DOMAIN arrived : j > Min(same)} IN
    /\ arrived' = Erase(arrived, same)
    /\ IF same = {} THEN UNCHANGED refs
       ELSE refs' = [e \in Devices |->
                      refs[e] + Cardinality({j \in moved : arrived[j] = e})
                              - (IF e = Last(arrived) THEN 1 ELSE 0)]
    /\ UNCHANGED <<resumptions, opVars, posts>>

\* libusb runs the callback for this device.
Watched(d) == registered /\ Matches(filter, Triplet[d])

\* shutdown() is between two turns of its loop, without the lock.
Walked == shut \in {"posting", "walking"}

\* The iterators of a list that gains or loses an entry are invalid.
Disturbs == disturbed' = (disturbed \/ (Walked /\ resumptions' # resumptions))

\* Bound: no device, call or stop is new after the list changed under shutdown().
Followed == ~disturbed

\* Where a reference is accounted for: list entries and results.
HeldRefs(d) == Cardinality({i \in DOMAIN arrived : arrived[i] = d})
               + Cardinality({t \in Tasks : result[t] = d})

Room == /\ Len(arrived) + Cardinality({t \in Tasks : result[t] # NoDevice}) < MaxHeld
        /\ \A d \in Devices : refs[d] <= HeldRefs(d) + MaxLeaked

\* libusb takes up the next change of the bus after the callback for the last.
Dispatch(d, kind) ==
    /\ event = NoEvent
    /\ Followed
    /\ event' = IF Watched(d) THEN [kind |-> kind, dev |-> d] ELSE NoEvent
    /\ UNCHANGED <<enum, handleVars, listVars, task, opVars, posts, stopVars, shutVars,
                   refs, disturbed, leftover>>

Plug(d) ==
    /\ d \notin connected
    /\ Room
    /\ connected' = connected \cup {d}
    /\ Dispatch(d, "arrived")

\* The bus is taken to be quiet for the devices listen() still reports.
Unplug(d) ==
    /\ d \in connected \ enum
    /\ connected' = connected \ {d}
    /\ Dispatch(d, "left")

\* The callback takes the lock, whatever became of the acceptor meanwhile.
Callback ==
    /\ \/ event.kind = "arrived" /\ Arrived(event.dev)
       \/ event.kind = "left" /\ Left(event.dev)
    /\ event' = NoEvent
    /\ Disturbs
    /\ UNCHANGED <<connected, enum, handleVars, task, stopVars, shutVars, leftover>>

-----------------------------------------------------------------------------
(* bind, listen, close, shutdown: a call begins when the last has returned *)

Free == enum = {} /\ shut = "off" /\ Followed

\* bind().  What the overload that does not look at m_handle sets while the
\* acceptor listens is read by the next listen() only, as if bound before it.
Bind ==
    /\ Free
    /\ ~handle
    /\ \E f \in Filters : f # filter /\ filter' = f
    /\ UNCHANGED <<busVars, handle, registered, listVars, task, opVars, posts,
                   stopVars, shutVars, refs, disturbed, leftover>>

Listen ==
    /\ Free
    /\ ~handle
    /\ handle' = TRUE /\ registered' = TRUE
    /\ enum' = {d \in connected : Matches(filter, Triplet[d])}
    /\ leftover' = (arrived # <<>> \/ event # NoEvent)
    /\ UNCHANGED <<connected, event, filter, listVars, task, opVars, posts, stopVars,
                   shutVars, refs, disturbed>>

\* LIBUSB_HOTPLUG_ENUMERATE: the callback runs for a device already present.
Enumerate(d) ==
    /\ d \in enum
    /\ Room
    /\ enum' = enum \ {d}
    /\ Arrived(d)
    /\ UNCHANGED <<connected, event, handleVars, task, stopVars, shutVars, disturbed, leftover>>

\* close() leaves m_handle and the waiting coroutines as they are.
Close ==
    /\ Free
    /\ handle
    /\ registered' = FALSE
    /\ UNCHANGED <<busVars, filter, handle, listVars, task, opVars, posts, stopVars,
                   shutVars, refs, disturbed, leftover>>

\* shutdown() takes the handle, and has nothing to do without one.
ShutdownBegins ==
    /\ Free
    /\ handle
    /\ shut' = "locking"
    /\ handle' = FALSE /\ registered' = FALSE /\ leftover' = FALSE
    /\ UNCHANGED <<busVars, filter, listVars, task, opVars, posts, stopVars, cursor, last,
                   target, refs, disturbed>>

\* The next turn of the loop, under the lock: entry i + 1 is read.  An iterator
\* that is invalid reads any pointer.
Turn(i, n) ==
    /\ i < n
    /\ \/ i < Len(resumptions) /\ target' = resumptions[i + 1]
       \/ disturbed /\ target' \in Tasks
    /\ cursor' = i + 1 /\ last' = n
    /\ shut' = "posting"
    /\ UNCHANGED <<busVars, handleVars, listVars, task, opVars, posts, stopVars, refs,
                   disturbed, leftover>>

ShutdownFirst == shut = "locking" /\ Turn(0, Len(resumptions))

ShutdownNext == shut = "walking" /\ Turn(cursor, last)

\* Mutant of ShutdownPosts: op_result.ec is set and nobody is posted.
ShutdownPostsNobody ==
    /\ shut = "posting"
    /\ cancelled' = cancelled \cup {target}
    /\ target' = NoTask /\ shut' = "walking"
    /\ UNCHANGED <<busVars, handleVars, listVars, task, result, res, posts, stopVars,
                   cursor, last, refs, disturbed, leftover>>

\* Mutant of ShutdownPosts: op_result.ec is left alone.
ShutdownPostsSilently ==
    /\ shut = "posting"
    /\ Post(target)
    /\ target' = NoTask /\ shut' = "walking"
    /\ UNCHANGED <<busVars, handleVars, listVars, task, opVars, stopVars, cursor, last,
                   refs, disturbed, leftover>>

\* The lock is given up while one waiting coroutine is posted.
ShutdownPosts ==
    /\ shut = "posting"
    /\ cancelled' = cancelled \cup {target}
    /\ Post(target)
    /\ target' = NoTask /\ shut' = "walking"
    /\ UNCHANGED <<busVars, handleVars, listVars, task, result, res, stopVars,
                   cursor, last, refs, disturbed, leftover>>

\* Both lists are cleared; the entries' references are given back.
ShutdownClears ==
    /\ \/ shut = "locking" /\ resumptions = <<>>
       \/ shut = "walking" /\ cursor = last
    /\ resumptions' = <<>>
    /\ arrived' = <<>>
    /\ refs' = [d \in Devices |->
                  refs[d] - Cardinality({i \in DOMAIN arrived : arrived[i] = d})]
    /\ shut' = "off" /\ cursor' = 0 /\ last' = 0
    /\ UNCHANGED <<busVars, handleVars, task, opVars, posts, stopVars, target, disturbed,
                   leftover>>

ShuttingDown == ShutdownFirst \/ ShutdownNext \/ ShutdownPosts \/ ShutdownClears

-----------------------------------------------------------------------------
(* accept()                                                                *)

\* accept() registers its stop callback, which finds nothing to wake yet.
Accept(t) ==
    /\ task[t] = "idle"
    /\ Followed
    /\ Enter(t, "called")
    /\ UNCHANGED <<busVars, handleVars, listVars, opVars, posts, stopVars, shutVars, refs,
                   disturbed, leftover>>

\* The most recent stored device is taken.
TakeStored(t) ==
    /\ arrived # <<>>
    /\ result' = [result EXCEPT ![t] = Last(arrived)]
    /\ arrived' = Front(arrived)
    /\ Enter(t, "resumed")
    /\ UNCHANGED <<resumptions, cancelled, res>>

AwaitReady(t) ==
    /\ task[t] = "called"
    /\ \/ TakeStored(t)
       \/ arrived = <<>> /\ Enter(t, "unready") /\ UNCHANGED <<listVars, opVars>>
    /\ UNCHANGED <<busVars, handleVars, posts, stopVars, shutVars, refs, disturbed, leftover>>

\* await_suspend() reads the stop token without the lock.
AwaitStop(t) ==
    /\ task[t] = "unready"
    /\ IF t \in stopped THEN cancelled' = cancelled \cup {t} /\ Enter(t, "resumed")
                        ELSE Enter(t, "joining") /\ UNCHANGED cancelled
    /\ UNCHANGED <<busVars, handleVars, listVars, result, res, posts, stopVars, shutVars,
                   refs, disturbed, leftover>>

\* Mutant of Wait: the list of devices is not looked at again.
WaitUnchecked(t) ==
    /\ resumptions' = Append(resumptions, t)
    /\ res' = res \cup {t}
    /\ Enter(t, "suspended")
    /\ UNCHANGED <<arrived, result, cancelled>>

Wait(t) ==
    /\ arrived = <<>>
    /\ resumptions' = Append(resumptions, t)
    /\ res' = res \cup {t}
    /\ Enter(t, "suspended")
    /\ UNCHANGED <<arrived, result, cancelled>>

\* await_suspend() under the lock.
AwaitSuspend(t) ==
    /\ task[t] = "joining"
    /\ TakeStored(t) \/ Wait(t)
    /\ Disturbs
    /\ UNCHANGED <<busVars, handleVars, posts, stopVars, shutVars, refs, leftover>>

Resume(t) ==
    /\ task[t] = "suspended"
    /\ posts[t] > 0
    /\ posts' = [posts EXCEPT ![t] = @ - 1]
    /\ Enter(t, "resumed")
    /\ UNCHANGED <<busVars, handleVars, listVars, opVars, stopVars, shutVars, refs,
                   disturbed, leftover>>

\* Mutant of Deliver: the copy takes no reference, and gives one back.
DeliverUncopied(t) ==
    refs' = IF result[t] = NoDevice THEN refs
            ELSE [refs EXCEPT ![result[t]] = @ - 2]

\* The caller's device_ref is dropped; op_result's goes with the frame.
Deliver(t) ==
    refs' = IF result[t] = NoDevice THEN refs
            ELSE [refs EXCEPT ![result[t]] = @ - 1]

\* await_resume() and co_return; the stop callback's destructor waits for it.
Return(t) ==
    /\ task[t] = "resumed"
    /\ t \notin stopFn
    /\ Deliver(t)
    /\ result' = [result EXCEPT ![t] = NoDevice]
    /\ cancelled' = cancelled \ {t}
    /\ res' = res \ {t}
    /\ Enter(t, "idle")
    /\ UNCHANGED <<busVars, handleVars, listVars, posts, stopVars, shutVars, disturbed, leftover>>

-----------------------------------------------------------------------------
(* Cancellation                                                            *)

RequestStop(t) ==
    /\ t \notin stopped
    /\ <<t, task[t]>> \in Stops
    /\ Followed
    /\ stopped' = stopped \cup {t}
    /\ stopFn' = IF task[t] = "idle" THEN stopFn ELSE stopFn \cup {t}
    /\ UNCHANGED <<busVars, handleVars, listVars, task, opVars, posts, shutVars, refs,
                   disturbed, leftover>>

\* Mutant of Cancel: only the list is tidied.
CancelSilently(t) ==
    /\ cancelled' = cancelled \cup {t}
    /\ resumptions' = Erase(resumptions, {i \in DOMAIN resumptions : resumptions[i] = t})
    /\ UNCHANGED posts

\* What stop_fn does once the resumption is filled in.
Cancel(t) ==
    /\ cancelled' = cancelled \cup {t}
    /\ Post(t)
    /\ resumptions' = Erase(resumptions, {i \in DOMAIN resumptions : resumptions[i] = t})

StopFn(t) ==
    /\ t \in stopFn
    /\ stopFn' = stopFn \ {t}
    /\ IF t \in res THEN Cancel(t) ELSE UNCHANGED <<cancelled, posts, resumptions>>
    /\ Disturbs
    /\ UNCHANGED <<busVars, handleVars, arrived, task, result, res, stopped, shutVars, refs,
                   leftover>>

-----------------------------------------------------------------------------

Accepting(t) == \/ AwaitReady(t) \/ AwaitStop(t) \/ AwaitSuspend(t)
                \/ Resume(t) \/ Return(t)

Next ==
    \/ \E d \in Devices : Plug(d) \/ Unplug(d) \/ Enumerate(d)
    \/ Callback
    \/ Bind \/ Listen \/ Close \/ ShutdownBegins \/ ShuttingDown
    \/ \E t \in Tasks : Accept(t) \/ Accepting(t) \/ RequestStop(t) \/ StopFn(t)

SafeSpec == Init /\ [][Next]_vars

\* The program's threads keep running; no device is obliged to arrive.
Spec == /\ SafeSpec
        /\ \A t \in Tasks : WF_vars(Accepting(t)) /\ WF_vars(StopFn(t))
        /\ WF_vars(ShuttingDown)
        /\ WF_vars(Callback)
        /\ \A d \in Devices : WF_vars(Enumerate(d))

-----------------------------------------------------------------------------
(* Properties                                                              *)

(***************************************************************************)
(* No coroutine waits while a device is stored: the two halves of accept() *)
(* and the callback hand every device over, however they interleave.       *)
(***************************************************************************)
NoneWaitsInVain == resumptions = <<>> \/ arrived = <<>>

\* A coroutine is posted at most once, and only while it is suspended.
PostedOnceAt(t) == posts[t] = 0 \/ (posts[t] = 1 /\ task[t] = "suspended")

\* Whatever else happens: the callback, accept() and shutdown() agree on it.
PostedOnce == \A t \in Tasks : PostedOnceAt(t)

\* The entries of m_resumptions shutdown() has not posted.
Pending ==
    {i \in DOMAIN resumptions : /\ shut = "posting" => i >= cursor
                                /\ shut = "walking" => i > cursor}

\* Where a coroutine that no stop reaches is known.
Served ==
    \A t \in Tasks \ stopped :
        /\ PostedOnceAt(t)
        /\ (task[t] = "suspended" /\ posts[t] = 0)
               <=> \E i \in Pending : resumptions[i] = t

(***************************************************************************)
(* A coroutine that no stop reaches waits in the list exactly until it is  *)
(* posted, and a post finds it suspended: the callback and shutdown()      *)
(* neither forget it nor post it twice, unless the list changed while      *)
(* shutdown() walked it.                                                   *)
(***************************************************************************)
WaitsOrIsPosted == ~disturbed => Served

\* Every coroutine in accept() gets what is there, or waits and is not forgotten.
WaitersAreServed == NoneWaitsInVain /\ WaitsOrIsPosted

(***************************************************************************)
(* A stored device is one that was bound, and is still connected or about  *)
(* to be removed from the list by a callback that has been dispatched: one *)
(* detached while no accept was active does not stay in it.                *)
(***************************************************************************)
StoredAreConnected ==
    registered /\ ~leftover =>
        \A i \in DOMAIN arrived :
            /\ \/ arrived[i] \in connected
               \/ event = [kind |-> "left", dev |-> arrived[i]]
            /\ Matches(filter, Triplet[arrived[i]])

\* No device_ref outlives the reference on its device.
RefsCover == \A d \in Devices : refs[d] >= HeldRefs(d)

\* A stop that finds the coroutine waiting ends its accept().
StopEndsWaiting ==
    \A t \in Tasks : t \in stopFn /\ task[t] = "suspended" ~> task[t] = "idle"

(***************************************************************************)
(* shutdown() of a listening acceptor ends every accept() that waits when  *)
(* it begins, unless a step of a coroutine, of a stop or of the callback   *)
(* changes the list between two turns of its loop.                         *)
(***************************************************************************)
ShutdownEndsAccepts ==
    \A t \in Tasks : shut = "locking" /\ t \in Range(resumptions)
                       ~> task[t] = "idle" \/ disturbed

(***************************************************************************)
(* The acceptor keeps the promise of Mailbox, as long as shutdown() walks  *)
(* a list that nobody changes.  The cancelled are excused.                 *)
(***************************************************************************)
Exchange == INSTANCE Mailbox WITH
        Takers <- Tasks,
        Things <- Devices,
        Nothing <- NoDevice,
        sound <- ~disturbed,
        stored <- [d \in Devices |-> Cardinality({i \in DOMAIN arrived : arrived[i] = d})],
        inside <- {t \in Tasks : task[t] # "idle"},
        waiting <- {resumptions[i] : i \in Pending},
        got <- result,
        excused <- cancelled

(***************************************************************************)
(* Seen from the coroutines, the callback, accept(), its stop callback and *)
(* shutdown() are an exchange of devices: no arrival is handed out twice,  *)
(* no accept() returns with neither a device nor an error.                 *)
(***************************************************************************)
ImplementsMailbox == Exchange!Spec
=============================================================================
