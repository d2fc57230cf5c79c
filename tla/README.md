# co_usb: TLA+ specifications and proofs

co_usb is a header-only C++20 library that turns libusb's callbacks into
coroutines: an operation suspends its coroutine, libusb calls back on the event
handler's thread, and a callback posts the coroutine to its executor. Almost
everything that can go wrong is in *when* those three meet a fourth, the thread
that requests a stop. The rest is ownership: references, handles and guards that
are copied, moved and destroyed around it. This directory models both, checks
them with TLC and proves the core with TLAPS.

Paths below are relative to `include/co_usb/` unless they start with `examples/`
or `qemu/`.

## 1. Inventory

| Component | State | Operations | Talks to | Hard parts | What makes it correct |
|---|---|---|---|---|---|
| **Partial I/O** `transfer/partial_io.hpp`, `transfer/detail/sequence_awaitable.hpp`, `transfer/sequence_view.hpp` | `await_state_t`: `ec`, `total`, `in_flight`, continuation; awaitable: `buf_current` | `submit`, `await_ready/suspend/resume`, `transfer_callback`, stop callback | libusb (submit, cancel, callback), executor (post), stop token | event thread runs callbacks while the submission loop still submits; stop races with both; submission fails half-way | the continuation is posted once, when and only when nothing is owed; a success means every buffer; no two transfers in one buffer; a stop ends the operation |
| **Complete I/O** `transfer/complete_io.hpp`, `transfer/detail/complete_sequence_awaitable.hpp` | the same, with `transfer_progress_t` per transfer | the same, with continuations of a buffer that is not full | the same | short completions, single transfer limit, count carried from buffer to buffer | no transfer leaves its buffer, all bytes reported, success means full buffers |
| **Handler service** `ev/detail/handler_service.hpp`, `ev/context.hpp`, `ev/handlers.hpp` | handler, `m_stop`, `m_usb_ctx`, `m_started`; `m_counter`, `m_thread` | `init_context`, `emplace_handler`, `start`, `request_stop`, `shutdown`, `ref/unref`, `get_handler_service`, `make_context`, `make_context_with_options` | every I/O object holds a reference; execution context shuts it down | nothing is synchronised; replacing a handler that is referenced or running; a thread that cannot be created | a referenced handler keeps running; references are counted; `start` starts; the context outlives the thread that polls it |
| **Handler objects** `ev/any_event_handler.hpp`, `ev/event_handler_ref.hpp` | storage, memory resource, vtable; the pointer of a reference | emplace, move, destroy; bind, copy, move, assign, drop | memory resources; the service | a constructor that throws after the old handler went; assignment in every combination | each block owned once and returned as it was taken; a count is the number of references |
| **I/O adapters and transfer set-up** `transfer/partial_io.hpp`, `transfer/complete_io.hpp`, `transfer/endpoint.hpp`, `transfer/operations.hpp` | a reference, a view of a sequence, prefilled transfers | ten partial and ten complete adapters; `make_safe`, `make_throwing`, `as`; `prefill_*`; read and write | handler objects, operations | adapters share a sequence; direction in an address bit; narrowed timeout | a transfer goes to its adapter's endpoint, in its direction |
| **Hotplug acceptor** `hotplug/device_acceptor.hpp`, `wrapper/device_ref.hpp`, `wrapper/device_triplet.hpp` | `m_resumptions`, `m_arrived_devices`, `m_filter`, `m_handle`; reference counts of devices | `bind`, `listen`, `close`, `shutdown`, `accept`, hotplug callback, stop callback | libusb hotplug, executor, stop token | callback, accept's halves, stop and shutdown under a mutex that shutdown lets go of while it walks the list; a callback dispatched before its deregistration | no wait beside a stored device; posted once; stored devices are connected; references cover |
| **One-shot hotplug** `hotplug/oneshot_hotplug.hpp`, `hotplug/detail/hotplug_awaitable.hpp`, `hotplug/flags.hpp` | handle, `op_result`, `resumption_t` | `oneshot_hotplug`, callback, stop callback | the same | no lock at all; `ENUMERATE` calls back inside the registration | posted once; callback never outlives the frame; a stop ends the wait |
| **Guards and error protocols** `wrapper/device_handle.hpp`, `wrapper/interface.hpp`, `wrapper/driver_guard.hpp`, `wrapper/error_protocol.hpp` | a libusb handle, possibly moved from; an error code | open, claim, detach; move, assign, release, attach, destroy | libusb and the kernel's driver binding | destructors that throw, an unplug at any time, moves that fail half-way | each resource let go of exactly once; an object or an error |
| **A whole program** `examples/03-complete-io.cpp`, `qemu/9.2.4/mock.c` | its coroutines and guards; a device's packets | accept, open, detach, claim, read; one timed stop | all of the above | order of stop, references and destructors across coroutines | the handler outlives the operations; devices get their driver back; a stop ends it |
| Error messages, operators of flag types, concepts | none | - | - | - | compile-time |

`PROJECT.json` lists the hazards line by line; the properties below were written
for them.

How they interact: creating an I/O object calls `get_handler_service`, which
sets up the service, and takes an `event_handler_ref`; libusb's callbacks
(transfers and hotplug) run on the service's handler thread; callbacks post
continuations to the executor; a stop token reaches an operation through
`std::stop_callback`, whose body runs on the thread that requests the stop and
whose destructor waits for it.

## 2. Modules

| Module | Models | State and actions in the code |
|---|---|---|
| `LibusbTransfers` | libusb's asynchronous transfers, external | `flight`/`doomed`: submitted, asked to cancel. `UsbCancel` of a transfer not in flight does nothing (`LIBUSB_ERROR_NOT_FOUND`, which every caller ignores) |
| `PartialIO` | the partial I/O operation over it | one action per stretch between shared accesses: `AwaitSuspend` (set-up and `in_flight = submission_size`), `LoopSubmit` (one turn of the loop), `Reap` (the callback is entered and counts down), `CallbackLive/Errored` (reads `ec` under the mutex), then one action per way out of the callback, `CancelNext` (one turn of the stop callback) |
| `TransferOp` | abstract: what an operation promises its caller | transfers lent, buffers left, failed; `PartialIO` and `CompleteIO` implement it (`ImplementsTransferOp`). In `CompleteIO` a buffer is done when it *counts* as full, which section 3's `complete_short` tells apart from being full |
| `CompleteIO` | the complete I/O operation | extends `PartialIO` where the two awaitables are the same line by line (`AsPartial`), replaces `Submit`, `AwaitSuspend` and what the callback does with a finished transfer |
| `HandlerService` | the service, both handlers, references | callers have a program counter: `init` -> `emplace` -> `join` -> `replace` -> `start` -> `ref` are the accesses of `get_handler_service` and `make_context`, in order |
| `EventHandlers` | `any_event_handler` and `event_handler_ref` as objects | an action per constructor, assignment and destructor, whether a handler is referenced or not, as nothing looks; `allocated` is what the memory resources gave out |
| `IoObjects` | the adapters and their transfers, over `EventHandlers` | an adapter is a reference and a filled-in sequence; `NewAdapter` fills the sequence, an operation uses it as it finds it |
| `DeviceAcceptor` | the acceptor | a step per critical section of `m_mutex`; `AwaitStop` and `AwaitSuspend` are separate because the stop token is read before the lock; `Dispatch` (libusb takes an event up) and `Callback` are, because a deregistration in between does not keep the callback from running; `shutdown()` is `ShutdownBegins` (deregisters, without the lock), `ShutdownFirst`/`ShutdownNext` (an entry is read under the lock), `ShutdownPosts` (without it) and `ShutdownClears`, and anything may come between them |
| `Mailbox` | abstract: what an acceptor promises to the coroutines | what is stored, who is inside, who waits, what each was given, who is excused; `DeviceAcceptor` implements it (`ImplementsMailbox`). Waiting are the entries of `m_resumptions` that `shutdown()` has not posted; excused are the cancelled. The promise ends (`sound`) when the list changes between two turns of `shutdown()`'s loop |
| `OneshotHotplug` | the one-shot wait | a step per stretch of each of the three threads; `Dispatch` apart from `Callback` because libusb's deregistration does not wait; `Register` with the number of devices that `LIBUSB_HOTPLUG_ENUMERATE` runs the callback for, 0 without that flag |
| `Wrappers` | handles, interfaces, driver guards, four error protocols | the thread's locals are a stack; `DestroyLast` is the end of a scope or an exception passing, `MoveAssign` and `LetGoOf` may fail on a device that is gone; a second `ClaimInterface` through one handle succeeds, as libusb's does |
| `Program` | the example, with the components at the level of their operations | coroutine `accept_hotplug` (`acc`), a `dev_loop` per device (`loop`), the handler's thread, `main`; destructors run one by one in the reverse of the declarations; a read is a transfer in flight (`reading`), in its callback (`callback`, where it may `Continue`), over (`answered`), or suspended for ever after a refused submission (`hung`) |
| `*Proofs` | proofs about the module of the same name | - |
| `MC*` | instances for TLC | what the device may answer, symmetry |

`Program` composes what the others detail: an operation as `TransferOp` has it,
`accept()` and its stop callback as in `DeviceAcceptor`, the guards as in
`Wrappers`, and `HandlerService`'s counting handler with the holders of its
references in a set. Of what the detailed modules show to go wrong, this can
happen in the example, and does in the model: a stop that an `accept()` about to
wait or a read about to submit misses, one that a continuation undoes, and one
that posts an `accept()` a second time are marked by `race`; a refused first
submission hangs its read (`hung`); a destructor that must not throw terminates it
(`crashed`). Irregular set-ups, `ENUMERATE` for one-shot waits and replaced
handlers are not among the things the example does.

Abstractions. Buffers are indices; lengths are small numbers; a device is a
model value whose triplet is a function; error codes are told apart by origin
(`cancelled`, `error`, `submit`), the category of a code is not, except in
`Wrappers`, which keeps libusb's codes. The mutex of `await_state_t` protects
`ec` alone, so a critical section is a step. `in_flight` is written by the
submitting thread before it submits anything and afterwards only by the event
thread, so its updates are steps. One event thread runs all callbacks of a
context, one at a time. `sequence_view::end()` returns `m_begin`;
`await_suspend` adds `submission_size` to it, so its loops visit transfers
1..`used`, which is what is modelled. `make_context_with_options` differs from
`make_context` in what it hands to libusb only, and so do its two overloads of
`init_context`; they are the same steps. A local of `Wrappers` remembers whether
it lives in a `std::optional` or `std::expected` (`boxed`): the standard library
requires of such a type that its destructor does not throw.

Definitions that sit directly above another and are introduced as "Mutant of" it
are plausible slips in that code; none is part of a specification. They show, run
by run, that each property can fail.

Ghosts record what happened: `done`, `moved` (PartialIO), `fill` (CompleteIO),
`covered`, `irregular` (HandlerService), `overtaken` (IoObjects), `seen`
(OneshotHotplug), `leftover` (DeviceAcceptor), `lost`, `doubled` (Wrappers),
`race` (Program) guard nothing. Three say how far a behaviour is followed once
the code has left what it can account for: `adrift` (EventHandlers: by how much
each count is off, at most `MaxAdrift`), `found` (OneshotHotplug: a wait that
`ENUMERATE` posted returns, and is not called again beside the callback it left
behind) and `disturbed` (DeviceAcceptor: after the list changed under
`shutdown()`'s loop what is under way goes on, the loop reading any pointer, but
no device, call or stop is new).

## 3. Runs

Passing runs.

| Run | Question | Bounds, and why they are enough |
|---|---|---|
| `partial_safety` | counting, quiet at the post, exactly one post, disjoint buffers; a success means all buffers and the right total; no step is taken twice; refinement of `TransferOp` | 3 transfers, 4 buffers: fewer, as many and more buffers than transfers, with a resubmission overtaking the submission loop; one full, one empty, one cancelled, one failed answer; any submission may be refused |
| `partial_live` | isochronous transfers; an operation the device answers returns; on a silent device, a stop whose callback starts after the submission loop ends an operation with no more buffers than transfers | 2 transfers, 3 buffers |
| `complete` | transfers stay in bounds; a success reports all bytes and, with a buffer per transfer, full buffers; only empty completions can be repeated; operations return; refinement of `TransferOp` | sizes 1 and 3, limit 2: a buffer of one transfer, a buffer of two; up to 3 buffers for 2 transfers |
| `handler` | a referenced handler keeps its thread whatever is stopped, switched, raced or failed around it; after one orderly set-up the count is exact, the context lives, `start` starts and `shutdown` returns | 2 callers, both handler kinds; two are enough for a race of set-ups, for a switch under a reference and for a stop during either |
| `io_objects` | counts exact, memory owned once and returned as taken, transfers to their adapter's endpoint | 2 owners over 2 blocks of 2 resources and 2 handler types, 2 adapters on 1 sequence and 2 references of the program, counts off by at most 1: copies, moves and assignments between every pair, handlers replaced and moved while they are referenced, an adapter overtaken by another; addresses 1 and 129 of both directions, a timeout that wraps |
| `acceptor` | nobody waits beside a stored device, and whoever waits is in the list or posted; stored devices are bound and connected; references cover; stop and shutdown end waits; refinement of `Mailbox` | 2 coroutines, 2 devices of different triplets that come and go, one of which may be bound alone, 2 devices stored or handed out; a stop of one of the coroutines, before the call or while suspended; `bind`, `listen`, `close` and `shutdown` one after the other, at any time for accepts, stops and callbacks; a callback dispatched before a deregistration may run after it |
| `oneshot` | one event resumes one wait once; no callback into a frame that is gone; a wait returns what it saw; a seen event and a stop return | 2 waits, 2 events, registrations that find 0, 1 or 2 devices; stops before the call and while suspended |
| `wrappers` | one owner for each handle, claim and detached driver; an object or an error; only a failed release terminates | 2 handles, 1 interface, 3 locals: two handles and an object that one of them denies the other, or a handle with two objects moved, assigned, or claimed twice; unplug and replug at any time |
| `program` | the handler's thread outlives every operation; drivers come back; after a stop nothing starts over, nobody is stuck and the program ends | 2 devices, each plugged once and possibly pulled; reads that the mock answers and, one unit longer, ones it never acknowledges; a read continues once (`More`; 15 times in the example, whose buffer is 16 transfers long): one continuation is enough for a stop to be undone by it and for a resubmission to be refused |

Bounds by name: `N`, `MaxBuffers` (transfers, buffers), `Sizes`, `Limit`
(buffer sizes, single transfer limit), `CounterMod` (`m_counter` wraps at it;
more than the callers can hold, so reaching it is an underflow), `MaxAdrift`
(how far a handler's count is off), `TimeoutMod` (libusb's unsigned
timeout), `MaxHeld` (devices in `m_arrived_devices` or handed out), `MaxLeaked`
(references on a device that nobody holds, when another may be plugged in),
`Present` (devices that a registration finds), `MaxLocals` (objects alive), `More`
(continuations of a read), `InSize`, `OutSize` (the mock's buffers, in units of
half of one). `Stops` says when a stop may be requested: in which states of a
wait, and of which accept in which state.

Runs that find the code at odds with its documentation, each a finding in
`PROJECT.json`:

| Run | What the code does |
|---|---|
| `partial_lost_stop` | a stop between `await_suspend`'s check and the submissions is lost |
| `complete_short` | bytes of one buffer count towards the next, whose short completion succeeds |
| `acceptor_double_post` | a stop after the device arrived posts the coroutine a second time |

Several properties of the passing runs carry a condition because the code does
not keep them without it. Each can be seen by changing one constant or removing
the condition:

| Change | Fails | Because |
|---|---|---|
| `partial_live`: `SubmitMayFail = TRUE` | `OperationReturns`, by a deadlock | a submission refused in `await_suspend` leaves `in_flight` above zero (`sequence_awaitable.hpp:162-168`) |
| `partial_live`: without `bufs <= N` | `StopEndsSingleRound` | a stop that meets a transfer inside its callback is undone by the resubmission (`sequence_awaitable.hpp:106`) |
| `partial_safety`: `TransferType = "iso"`, `Completions <- IsoCompletions` | `ResultSound` (`SuccessMeansAll`), `ImplementsTransferOp` | an isochronous transfer cancelled after its first packet leaves no error (`sequence_awaitable.hpp:76`) |
| `handler`: without `irregular' = {}` | `StartStarts` | `m_started` outlives the handler it was set for: `start` after a switch returns true and starts nothing, where `handler_service.hpp:136` says the new handler runs once `start` is called again |
| `handler`: without `irregular = {}` | `LiveContext` | a second `make_context` exits the context the old handler still polls (`handler_service.hpp:99`); so do two first I/O objects at once (`handler_service.hpp:250`) |
| `handler`: without `irregular = {}` | `RefCountExact` | a reference taken during a switch is lost by the new handler (`handler_service.hpp:159`) |
| `handler`: without `"failure" \notin irregular` | `ReferencedHandlerRuns` | the result of `start()` is ignored (`handler_service.hpp:260`, `context.hpp:132`); references taken then are not known to a later handler |
| `handler`: `covered` for any `kind` | `ReferencedHandlerRuns` | `trivial_event_handler` does not count references (`handlers.hpp:36`) |
| `handler`: without `irregular # {}` | `ShutdownCompletes` | a count that went wrong in one of those ways never returns to zero |
| `io_objects`: without `adrift` | `CountExact` | assigning a handler to a reference forgets the one it held (`event_handler_ref.hpp:52`); a handler put into an owner that has references counts none of them, one moved out of it keeps the count of all (`any_event_handler.hpp:62`, `88`) |
| `io_objects`: without `overtaken` | `GoesToItsEndpoint` | an adapter fills its sequence in when it is made: a second one on the same sequence redirects the first one's transfers (`partial_io.hpp:178`) |
| `acceptor`: `Triplet` equal for both devices | `StoredAreConnected` | `DEVICE_LEFT` compares triplets, not devices (`device_acceptor.hpp:128`) |
| `acceptor`: `refs[d] = HeldRefs(d)` | `RefsCover` | erasing from the middle leaks a reference: `device_ref`'s copy assignment drops the one it overwrites (`device_ref.hpp:57`) |
| `acceptor`: without `disturbed` | `WaitersAreServed` (`WaitsOrIsPosted`), `ShutdownEndsAccepts`, `ImplementsMailbox` | `shutdown` walks the list with the lock given up (`device_acceptor.hpp:82`): an accept that joins (`264`), a stop callback that erases (`190`) or a callback dispatched before the deregistration (`147`) changes it underneath |
| `acceptor`: without `leftover` | `StoredAreConnected` | a callback that runs after `shutdown` stores a device whose departure nobody reports, and the next `listen` keeps it |
| `acceptor`: `Stops` with `"joining"`, for every stop | `StopEndsWaiting` | a stop between the check and the wait finds an empty resumption and is lost (`device_acceptor.hpp:247`) |
| `oneshot`: without `stopped` | `ResumedOnceInFrame` | a stop after the event posts a second time (`oneshot_hotplug.hpp:49`) |
| `oneshot`: without `found` | `ResumedOnceInFrame` | with `ENUMERATE` libusb runs the callback inside the registration, once per device, and does not look at the 1 it returns: the wait is posted for each, and the callback outlives the frame it points into (`hotplug_awaitable.hpp:95`) |
| `oneshot`: `Stops` with `"joining"` | `StopEndsWait` | a stop between check and registration finds no handle (`hotplug_awaitable.hpp:78`) |
| `wrappers`: `mode' # "terminated"` | at once | two guards that fail in one unwinding, or one in a `std::expected`, end the program after an unplug, where `interface.hpp:23` promises an exception |
| `wrappers`: without `doubled` | `OneOwner`, `TerminatesOnFailureOnly` | a second claim through one handle succeeds and makes a second owner of the one claim (`interface.hpp:133`); the second release fails |
| `program`: without `race` | `ProgramEnds` | the two lost stops, the one that a continuation undoes and the doubled one, in a whole program |
| `program`: without `Hung` | `ProgramEnds`, `NobodyStuck` | a device that is pulled out between two reads refuses the submission: `in_flight` stays at 1 and nobody resumes the coroutine (`complete_sequence_awaitable.hpp:198-211`) |
| `program`: without `crashed` | `ProgramEnds` | the guards of the example, on a device that was pulled out |

Met while modelling and outside of what the models tell apart: the two
assertions of `prefill_control` contradict each other (`operations.hpp:51`), so
no control adapter can be made where assertions are on; `as_task` starts a
coroutine whose arguments are references to the caller's locals
(`error_protocol.hpp:171`); `make_context` takes an error protocol but returns
`ev::context` (`context.hpp:121`), which only `as_exception` can produce.

Deadlock is checked in `partial_live`, `io_objects` and `wrappers`.
It is not where the system really stops: `partial_safety` and `complete` (a
refused submission hangs the operation), the acceptor's runs (after `shutdown`,
with every coroutine waiting, nothing has to happen), `oneshot` (a wait that was
found is not called again), `handler` (a count gone
wrong hangs `shutdown`, as above) and `program` (it ends, it may crash, and a
lost stop or a refused submission hangs it).

## 4. Fairness

Weak fairness of the steps of threads that are running: a started operation, the
submission loop, a callback that was dispatched, a posted continuation (executors
run what is posted), a stop callback, the loop of `shutdown()`. Nobody is obliged
to start an operation, to request a stop or to plug a device in, except
`Program`'s timed coroutine, which does request its stop. The device may stay
silent: `PartialIO`'s `Spec` assumes only that libusb hands back what was asked to
cancel (`CancelsAreReaped`), and `OperationReturns` takes the device that answers
every transfer (`Responsive`) as its hypothesis. `CompleteIO` assumes a device
that answers and does not complete transfers without a byte for ever (strong
fairness: in between it may). `HandlerService` assumes that I/O objects are
destroyed in the end, by callers that are not the one waiting in `shutdown`.
`Program` assumes that a transfer ends when it is answered, cancelled or its
device is gone (`Reaping`); one that the mock does not acknowledge ends only by
one of the latter two.


## 5. Proofs

Each `*Proofs` module extends the module it is about and proves, with TLAPS and
for every value of the constants that satisfies the named assumptions, an
inductive invariant (`Init => IInv`, one lemma per action or per kind of step,
`IInv => property`). The assumptions are those one expects of names and counts:
numbers are naturals (`NAssumption`, `LimitAssumption`, `BoundsAssumption`
and their like), a null is none of the things it stands in for
(`NoDeviceAssumption`, `NullAssumption`, `NoneAssumption`), what is counted is
finite (`TasksAssumption`, `CallersAssumption`, `RefsAssumption`). TLC evaluates
them in the runs. Where a theorem has a hypothesis beyond them it says so
(`TransferType = "bulk"`, `DistinctTriplets`).

Every invariant, every action property and each refinement that a passing run
checks is a theorem:

| Module | Theorems | Property of the runs |
|---|---|---|
| `PartialIOProofs` | `Invariance`, `TypeCorrect`; `CountingCorrect`; `ResumedInQuiet`; `ResumedOnce`; `BuffersApart`; `OperationDwindles`; for bulk: `BulkResult`, `Refinement` | `FlightAccounting`, `QuiescentAtResume`, `PostedExactlyOnce`; `NoSharedBuffer`; `Dwindles`; `ResultSound`, `ImplementsTransferOp` |
| `CompleteIOProofs` | `CompleteInvariance`; `CompleteResumedInQuiet`; `InBoundsTheorem`; `CompleteOperationDwindles`; `ReportsAllTheorem`; for bulk: `SingleRoundTheorem`, `ReportTheorem`, `CompleteRefinement` | `QuiescentAtResume`, `InBounds`, `CompleteDwindles`; `ReportSound`, `ImplementsTransferOp` |
| `HandlerServiceProofs` | `Invariance`; `ReferencesHold`; `CountCorrect`; `ContextLives`; `StartLeavesRunning` | `ReferencedHandlerRuns`, `RefCountExact`, `LiveContext`, `StartStarts` |
| `IoObjectsProofs` | `Invariance`; `CountsReferences`; `StorageReturned`; `TransfersGoThere` | `CountExact`, `StorageOwned`, `GoesToItsEndpoint` |
| `DeviceAcceptorProofs` | `AcceptorInv`; `WaitersTheorem`; `RefsCoverTheorem`; with `DistinctTriplets`: `StoredAreConnectedTheorem`; `AcceptorIsMailbox` | `WaitersAreServed`, `RefsCover`; `StoredAreConnected`; `ImplementsMailbox` |
| `OneshotHotplugProofs` | `Invariance`; `FrameOutlivesCallback`; `ResultIsWhatWasSeen` | `ResumedOnceInFrame`, `ReturnsWhatWasSeen` |
| `WrappersProofs` | `WrappersInv`; `OneOwnerTheorem`; `ObjectOrErrorTheorem`; `TerminatesTheorem` | `OneOwner`, `ObjectOrError`, `TerminatesOnFailureOnly` |
| `ProgramProofs` | `ProgramInv`; `PendingIsServedTheorem`; `DriverRestoredTheorem`; `StopWindsDownTheorem`; `NobodyStuckTheorem` | `PendingIsServed`, `DriverRestored`, `StopWindsDown`, `NobodyStuck` |

**Partial I/O.** Any number of transfers and buffers, any answers, either transfer
type, submissions that may be refused. `FlightAccounting` (`in_flight` counts the
transfers in flight or still to be submitted; a callback counts its own down as it
is entered, and up again if it resubmits) is not inductive: it needs `LoopInv`,
that the loop has submitted exactly the transfers behind it and that the stop
callback stays within them; `PhaseInv`, that nothing is in flight outside of a
suspension and that a post follows a count of zero; and `CountInv`, that a count
of zero has been noticed. `PostedMeansQuiet` then needs no step: a posted
coroutine has a count of zero, so nothing is owed to it.

**Partial I/O and its buffers.** `BufferInv` says that buffers are given out in
order, each to one transfer that is *working*: owed to the operation or in the
callback. A resubmission trades the transfer's buffer for `buf_current`, which
nobody holds as everything that was given out is below it. `SuccessInv` says that
as long as there is no error each buffer given out is done or worked on, so that a
count of zero means that all are done; `TotalInv`, that the bytes counted and those
of the callback that runs are the bytes moved. An isochronous
success does not mean that (section 3, the third change), so the theorems say
`TransferType = "bulk"`, which stands for bulk, interrupt and control.

**Partial I/O implements `TransferOp`.** With `DoneInv` (a buffer that is done is
not worked on) the working transfers inject into the buffers that are not done,
and so fit (`LentFits`): this is the guard of `Lend` and `Advance`, which the code
never evaluates. Each action then maps to one of `TransferOp` or to a stutter
(`StartsAndCollects`, `Finishes`, `Lends`, `Advances`, `GivesBack`,
`FailsOrSilent`).

**Partial I/O does not run in circles.** Whether an operation returns is a question
of fairness, and stays with TLC. That it cannot go on for ever while the device
answers is not: `Dwindles` gives a suspended operation a natural number, `Work`,
that every step of the loop, of the device and of a callback lowers, and that the
stop and its cancellations leave alone. A submission is worth more than a transfer
in flight, and that one as much as a buffer to take, so that a resubmission, which
turns a callback and a buffer into a flight, still goes down. The proof counts
`flight` (`FlightFinite`) and needs `IInv` for a transfer submitted not to be in
flight already, `BufferInv` for buffers never to be taken beyond the last. So the
number of steps before the coroutine is posted is at most `Work` where it was
suspended, and the cancellations, for any `N` and any number of buffers.

**Complete I/O.** Any number of transfers, any sizes and limit, completions of any
length up to what was asked. The steps it shares with the partial operation keep
`PartialIOProofs`' invariant as they are; its own three ways out of the callback
are put in that module's terms (`Retires`, `Recurs`, `Takes`, `Counts`) and reuse
its lemmas, for the invariant and for the refinement. `QuiescentAtResume` is
proved of it as of the partial operation; the run `complete` checks what it means
for the caller, that nothing is lent when the result is delivered, as part of
`ImplementsTransferOp`. `InBounds` needs `FillInv`:
a transfer about to be submitted aims at what its buffer lacks (`AimedAt`), one
in the callback has moved some more (`Landed`), and buffers not given out are
empty. The arithmetic that could wrap, `expected - total`, is safe because a
transfer's total is never below its pointer; they are equal only with a buffer
per transfer (`RoundInv`), which is where the finding `complete_short` starts and
why `SingleRoundFills`, the half of `ReportSound` that is about buffers, has its
condition. The other half, `ReportsAllBytes`, is about a sum over
all transfers (`SumInv`). Its lemmas about sums that change at one place go over
the number of transfers by least counterexample (`WFMin` and
`NatLessThanWellFounded`), as the library's induction rule cannot be used.

A complete operation may be answered for ever: a transfer that brings no byte is
sent again. `CompleteDwindles` says that nothing else can be repeated. A completion
with bytes fills one buffer up and no further than its end, which its size bounds;
it credits the callback with the one continuation that it may lead to
(`Credit`); all other steps lower `CompleteWork`, except a continuation after no
byte (`SentInVain`). The condition that `CompleteSpec`'s strong fairness puts on
the device is therefore the one that is needed.

**Handler service.** Any number of callers that `m_counter`, a `size_t`, can
count (`CallersAssumption`). `CallInv` says what each caller knows from the
branch it took: one that takes a reference found a handler, one that installs
one has a context. `RefInv` carries `ReferencedHandlerRuns`, and why it survives
races and switches is worth knowing: as `m_started` is never reset, only one
handler is ever launched. It is the one that runs, it was not referenced before
it started, and a later one never starts: what protects the references is the
very thing that breaks `StartStarts`. `OrderInv` says that as long as nothing
irregular has happened one caller sets up, before there is a handler.
`StartStarts` is an action property and needs one fact more (`StartInv`): while
nothing irregular happened, a service that was started and is not being stopped
has its thread running, as nobody renews the stop source under it.

**Handler objects and adapters.** Any number of owners, references, blocks,
adapters and sequences; references must be finitely many (`RefsAssumption`), null
must be none of the things a pointer can point to (`NoneAssumption`), addresses
are octets. Handlers are replaced, moved and destroyed with references on them:
`CountExact` says what that does to the counts, up to any `MaxAdrift`. It needs
`StorageOwned` (a step that counts on one owner's handler must not count on
another's) and `FreeInv` (a block that nobody owns counts nothing and is off by
nothing, so a handler constructed in it starts at zero). `GoesToItsEndpoint` needs
`RunningInv` (an adapter that runs an operation exists, in its own direction, and
its endpoint has the bit of that direction) and `FilledInv` (its sequence is as
its constructor left it until it is overtaken), which also covers the adapters
that run nothing yet.

**Hotplug acceptor.** Any number of coroutines (finitely many), devices and
triplets, a stop in any state of an accept. The program calls `bind`, `listen`,
`close` and `shutdown` one after the other; accepts, stops and callbacks come at
any time, inside of those calls too. `ListenInv` says when libusb may take an event
up at all. What is known of the coroutines is `WaitingInv`: `JoinInv`, that whoever
is about to join the list has no post; `WalkInv`, that `shutdown()`'s loop is at
the entry it posts and knows the end; `EntriesInv`, that each of the waiting is in
the list once and is posted by nobody else; and `Served`, which is inductive
together with those. A step that changes the list between two turns of the loop
breaks it, and is the only one that does: the invariant has `WaitingInv` for as
long as there was none (`disturbed`), and `NoneWaitsInVain` and `RefsCover`
whatever happened. The lists are reasoned about through one relation, `Drops` (`r`
is `s` without its entry at `i`), which `erase`, `pop_back` and taking the head all
satisfy. `RefsCover` counts list entries and results: an erasure from the middle
takes a reference for each entry that moves and gives back the last entry's, which
is never less than what is held. `StoredAreConnected` has the hypothesis that the
devices' triplets tell them apart (`DistinctTriplets`), without which it fails
(section 3), and its induction (`StoredInv`) adds that a device is stored once, not
before `listen()` has reported it, and what a callback that was dispatched still
has to do; it speaks of a `listen()` that found nothing of an earlier one
(`leftover`).

**The acceptor implements `Mailbox`.** The mapping counts the stored entries of
each device, so arrivals, takes and departures must change the counts by exactly
one (`AppendedCount`, `DroppedCount`). `GivenInv` is what `Mailbox`'s guards
need: no coroutine that asks or waits has a device yet, and none is posted or
resumed without a device or an error. Stops and late callbacks are no exception
to this theorem; the one step that ends the promise is a change of the list
between two turns of `shutdown()`'s loop. A second post is a stutter of `Mailbox`;
`acceptor_double_post` is the run that finds it.

**One-shot hotplug.** Any number of waits and any events, a stop in any state, any
number of devices found by a registration.
`FrameInv` relates libusb's pointer to the coroutine: a registered wait is
suspended and not posted, and a callback that runs for a wait that was not
stopped is still registered. `RunInv` follows a wait without a stop: until its
callback has run it saw nothing, afterwards it has an event and one post.
`ResumedOnceInFrame` is both: a callback finds the frame it runs in, and a wait
that nobody stopped is posted once. Neither is so of a wait that `ENUMERATE` found
(`found`); that it returns an event it saw (`ReturnsWhatWasSeen`) is.
`HandleInv` is why the stop callback of a wait that is about to register finds
nothing.

**Guards and error protocols.** Any number of handles, interfaces and locals, any
of the four protocols. `OneOwner` splits into `SoleHolders` (an object that
believes it holds something does, and no other object does) and `HeldByOne` (what
libusb holds for the program is in somebody's charge, or was given up by a failing
release). A handle's destruction would break both if an interface of it were still
alive: `WithinHandle` (whoever holds something was made after a local that has the
handle) and the order of destruction exclude that. `ClaimsInv` says that claims
are through open handles. A second claim through one handle makes two objects of
which `SoleHolders` says nothing (`doubled`) until the handle is closed; `HeldByOne`
holds of them too. `TerminatesOnFailureOnly` is an action property from the same
invariant: a release can fail only after an unplug, when the driver's interface is
in use or for an interface claimed twice.

**A whole program.** Any number of devices. `PendingIsServed` needs `RefsInv` (who
is at work holds a reference) and `ExitInv`: once the thread has exited, a stop
was requested and nobody is in a place where the stop could be missed, since what
takes a reference afterwards looks at the stop first. `DriverRestored` needs
`HeldInv` (a `dev_loop`'s locals by its place), `DriverInv` (a detached driver is
in a guard's charge or its device is gone), `StoredInv` (a device handed over has
no loop yet, and nothing is stored when nobody listens) and `MainInv`.

`ProgramEnds` needs fairness, but it rests on two facts that do not. After the
stop every step lowers what some part has left to do and raises nobody's
(`StopWindsDown`): no accept is begun again, no loop reads again, a read that goes
on has one continuation less (a place is worth `2 * More` for those to come), the
handler's thread does not come back. The proof has one case per action
and needs `HeldInv` and `StoredInv`, as a device that is stored counts for
its loop before the loop exists. And until the end somebody can take such a step
(`NobodyStuck`): `ReachInv` says that a stop that nobody misses has cancelled, or
is about to cancel, each read in flight and the accept that are waiting; a callback
that runs while a stop comes finds its read refused, over or, marked by `race`,
continued. A read that hangs is excepted (`Hung`). `HoldersInv` says that
whoever has ended holds no reference, so that the handler's loop can end when all
have. What is left to TLC is that those who can take a step do.

Checked by TLC alone:

- liveness: `OperationReturns`, `StopEndsSingleRound`, `CompleteReturns`,
  `ShutdownCompletes`, `StopEndsWaiting`, `ShutdownEndsAccepts`, `SeenReturns`,
  `StopEndsWait`, `ProgramEnds`. They need fairness and ENABLED, which the prover
  does not reason about;
- what the three runs that expect a violation find: a counterexample is not a
  theorem;
- isochronous transfers in `partial_live`; the theorems that say
  `TransferType = "bulk"` are false of them (section 3, the third change).

No module uses a RECURSIVE operator. The prover knows nothing of recursion over
sequences, so `DeviceAcceptor` states `vector::erase` as `RemoveAt` of the first
entry found (`Erase`), and `CompleteIO` its sum as a recursive function
(`Subtotals`).

## 6. Not modelled

- `as_task` (`wrapper/error_protocol.hpp`): its coroutine uses references to its
  caller's locals; what it does with them is undefined, not a protocol.
- `make_unsafe` (`transfer/endpoint.hpp`) takes any address as it is.
- An exception on the handler's thread, which a failing
  `libusb_handle_events` throws: it is `std::terminate`. A failing allocation
  is followed in `any_event_handler` only.
- What buffers, packets and streams contain, and isochronous packet lengths.
- Assertions as such. The steps that one forbids are kept where a build without
  assertions goes on.
- Error messages, the operators of flag types, concepts: no state. The one flag that
  changes what happens, `LIBUSB_HOTPLUG_ENUMERATE`, is in `DeviceAcceptor`
  (`Enumerate`) and `OneshotHotplug` (`Register`).
- The mock's USB descriptors, and the unit tests; the mock's protocol of reads
  and its attachment are in `Program`.
- An acceptor that is destroyed: `~device_acceptor` is `shutdown()`, and a callback
  that was dispatched before it then runs on an object that is gone. The acceptor of
  `DeviceAcceptor` stays; `Program`'s has no callback that late.
- What an invalid iterator of `shutdown()`'s loop reads: any coroutine's pointer
  (`Turn`), and nothing that begins afterwards is followed. Two calls of `bind`,
  `listen`, `close` and `shutdown` at once: they are unsynchronised, and a data race.
- What a second post does to a coroutine that is gone. The runs stop at the
  fact that it was posted.
- libusb stores the hotplug handle before or after it runs the first callback;
  `OneshotHotplug` registers, runs the callback for the devices found and stores in
  one step
  (`hotplug/detail/hotplug_awaitable.hpp:97`).
- An operation on an empty transfer sequence with buffers to send
  (`transfer/detail/sequence_awaitable.hpp:157`) suspends for ever; the model has
  it with `N = 0`, but no document says what it should do and the complete
  operation asserts that it does not happen.

## 7. Plan

Done, in this order: the partial operation with its proofs, the complete one,
the service, both ways to wait for a device, handler objects and adapters, the
guards, a program that composes them; then proofs of the service, the objects and
the one-shot wait, that transfers implement `TransferOp`, of the complete
operation, the acceptor, the guards and the program, and that the acceptor
implements `Mailbox`; last, the part of three liveness properties that needs no
fairness: that both operations and a stopped program only ever have less to do,
and that a stopped program always has a step to take.

Next, in the order of what they add:

1. the one-shot wait as an implementation of an abstract wait, with the second
   post of a stop outside of it, as `Mailbox` has it;
2. the handler service against an abstract service that either runs or does not,
   for as long as nothing irregular has happened;
3. `Program`'s operations and accepts stated over `TransferOp` and `Mailbox`, so
   that what is proved of the detailed modules carries over to the program;
4. exactness where only a bound is proved: which references an erasure leaks.
