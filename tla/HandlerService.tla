--------------------------- MODULE HandlerService ---------------------------
(***************************************************************************)
(* The service that owns the libusb context and its event handler          *)
(* (ev/detail/handler_service.hpp, ev/context.hpp), with the two handlers  *)
(* of ev/handlers.hpp and the references that keep one alive               *)
(* (ev/event_handler_ref.hpp, ev/any_event_handler.hpp).                   *)
(*                                                                         *)
(* Callers are threads of the executor.  Each may create a context, switch *)
(* or start the handler, open an I/O object (which holds a reference for   *)
(* its lifetime) and request a stop.  None of this is synchronised, so an  *)
(* operation is the sequence of its accesses to the service.               *)
(***************************************************************************)
EXTENDS Naturals, FiniteSets

CONSTANTS
    Callers,            \* threads that use the service
    Kinds,              \* the handler types they install
    CounterMod          \* bound: m_counter counts modulo this (2^64 in C++)

ASSUME KindsAssumption == Kinds \subseteq {"trivial", "refcounted"}
ASSUME CounterModAssumption == CounterMod \in Nat \ {0, 1}

\* Fewer I/O objects than a size_t counts.
ASSUME CallersAssumption == IsFiniteSet(Callers) /\ Cardinality(Callers) < CounterMod

VARIABLES
    pc,                 \* where each caller is in its operation
    op,                 \* that operation: "make", "get", "emplace" or "stop"
    want,               \* the handler type it installs
    held,               \* callers whose I/O object holds a reference
    kind,               \* the stored handler, "none" before the first
    counter,            \* its m_counter
    thread,             \* its thread: none, running, exited or joined
    usbCtx,             \* whether m_usb_ctx is set
    threadCtx,          \* whether the thread's libusb_context still exists
    stopping,           \* m_stop.stop_requested()
    started,            \* m_started
    down,               \* shutdown() has returned
    covered,            \* ghost: holders whose reference met a live handler
    irregular           \* ghost: how its use departed from one orderly set-up:
                        \* a race of set-ups, a switch, a thread not created

callerVars == <<pc, op, want>>
handlerVars == <<kind, counter, thread>>
ctxVars == <<usbCtx, threadCtx>>
vars == <<callerVars, held, handlerVars, ctxVars, stopping, started, down, covered,
          irregular>>

TypeOK ==
    /\ pc \in [Callers -> {"idle", "init", "emplace", "join", "replace",
                            "fresh", "start", "ref"}]
    /\ op \in [Callers -> {"none", "make", "get", "emplace", "stop"}]
    /\ want \in [Callers -> Kinds \cup {"refcounted"}]
    /\ held \subseteq Callers
    /\ kind \in {"none", "trivial", "refcounted"}
    /\ counter \in 0..CounterMod - 1
    /\ thread \in {"none", "running", "exited", "joined"}
    /\ usbCtx \in BOOLEAN /\ threadCtx \in BOOLEAN
    /\ stopping \in BOOLEAN /\ started \in BOOLEAN /\ down \in BOOLEAN
    /\ covered \subseteq held
    /\ irregular \subseteq {"race", "switch", "failure"}

Init ==
    /\ pc = [c \in Callers |-> "idle"]
    /\ op = [c \in Callers |-> "none"]
    /\ want = [c \in Callers |-> "refcounted"]
    /\ held = {}
    /\ kind = "none" /\ counter = 0 /\ thread = "none"
    /\ usbCtx = FALSE /\ threadCtx = FALSE
    /\ stopping = FALSE /\ started = FALSE /\ down = FALSE
    /\ covered = {} /\ irregular = {}

Goto(c, l) == pc' = [pc EXCEPT ![c] = l]

Settled == \A d \in Callers : pc[d] = "idle"

-----------------------------------------------------------------------------
(* References                                                              *)

\* Mutant of RefCount: the reference is not counted.
RefUncounted == UNCHANGED counter

\* Mutant of UnrefCount: nothing is counted down.
UnrefUncounted == UNCHANGED counter

\* event_handler_ref::ref and unref; the trivial handler does not count.
RefCount == counter' = IF kind = "refcounted" THEN (counter + 1) % CounterMod
                       ELSE counter
UnrefCount == counter' = IF kind = "refcounted"
                         THEN (counter + CounterMod - 1) % CounterMod
                         ELSE counter

\* An I/O object is constructed around srv.handler().
TakeRef(c) ==
    /\ pc[c] = "ref"
    /\ held' = held \cup {c}
    /\ RefCount
    /\ covered' = IF thread = "running" /\ kind = "refcounted" /\ ~stopping
                THEN covered \cup {c} ELSE covered
    /\ Goto(c, "idle")
    /\ UNCHANGED <<op, want, kind, thread, ctxVars, stopping, started, down, irregular>>

\* The I/O object is destroyed.
DropRef(c) ==
    /\ c \in held
    /\ held' = held \ {c}
    /\ covered' = covered \ {c}
    /\ UnrefCount
    /\ UNCHANGED <<callerVars, kind, thread, ctxVars, stopping, started, down, irregular>>

-----------------------------------------------------------------------------
(* Operations of the callers                                               *)

\* The execution context is being shut down: its users are gone.
Closing == down \/ \E d \in Callers : op[d] = "stop" /\ pc[d] # "idle"

Begin(c, o, k, l) ==
    /\ pc[c] = "idle"
    /\ ~Closing
    /\ op' = [op EXCEPT ![c] = o]
    /\ want' = [want EXCEPT ![c] = k]
    /\ Goto(c, l)
    /\ UNCHANGED <<held, handlerVars, ctxVars, started, down, covered>>

\* What it departs from to install a handler now; get_handler_service() does
\* not switch a handler that was started.
Irregularities(o) ==
    {i \in {"race", "switch"} : /\ i = "race" => ~Settled
                                /\ i = "switch" => kind # "none" /\ o # "get"}

BeginInstall(c, o, k, l) ==
    /\ Begin(c, o, k, l)
    /\ irregular' = irregular \cup Irregularities(o)
    /\ UNCHANGED stopping

\* make_context(): the executor's service is found or created, and set up.
MakeContext(c) == \E k \in Kinds : BeginInstall(c, "make", k, "init")

\* make_context_with_options(): the options are handed to libusb.
MakeContextWithOptions(c) == MakeContext(c)

\* get_handler_service(): the service is set up unless it is started.
GetService(c) ==
    /\ c \notin held
    /\ IF started THEN Begin(c, "get", "refcounted", "ref") /\ UNCHANGED <<stopping, irregular>>
                  ELSE BeginInstall(c, "get", "refcounted", "init")

\* emplace_handler() called to switch from one handler to another.
EmplaceHandler(c) ==
    /\ kind # "none"
    /\ \E k \in Kinds : BeginInstall(c, "emplace", k, "emplace")

\* handler_service::start() called by the user.
Start(c) == Begin(c, "make", "refcounted", "start") /\ UNCHANGED <<stopping, irregular>>

\* context::request_stop().
RequestStop(c) ==
    /\ pc[c] = "idle"
    /\ ~Closing
    /\ usbCtx
    /\ stopping' = TRUE
    /\ UNCHANGED <<callerVars, held, handlerVars, ctxVars, started, down, covered, irregular>>

\* The execution context shuts its services down once nobody sets them up.
Shutdown(c) ==
    /\ Settled
    /\ Begin(c, "stop", "refcounted", "join")
    /\ stopping' = TRUE
    /\ UNCHANGED irregular

-----------------------------------------------------------------------------
(* Their steps                                                             *)

\* init_context() fails; the error is returned or thrown.
InitFails(c) ==
    /\ pc[c] = "init"
    /\ Goto(c, "idle")
    /\ UNCHANGED <<op, want, held, handlerVars, ctxVars, stopping, started, down,
                   covered, irregular>>

\* init_context() replaces the context and exits the old one.
InitContext(c) ==
    /\ pc[c] = "init"
    /\ usbCtx' = TRUE
    /\ threadCtx' = FALSE
    /\ Goto(c, "emplace")
    /\ UNCHANGED <<op, want, held, handlerVars, stopping, started, down, covered, irregular>>

\* emplace_handler() asks a stored handler to stop.
StopStored(c) ==
    /\ pc[c] = "emplace"
    /\ IF kind = "none" THEN Goto(c, "fresh") /\ UNCHANGED stopping
                        ELSE Goto(c, "join") /\ stopping' = TRUE
    /\ UNCHANGED <<op, want, held, handlerVars, ctxVars, started, down, covered, irregular>>

\* stop() of either handler joins the thread if there is one to join.
Join(c) ==
    /\ pc[c] = "join"
    /\ thread # "running"
    /\ thread' = IF thread = "exited" THEN "joined" ELSE thread
    /\ IF op[c] = "stop" THEN Goto(c, "idle") /\ down' = TRUE
                         ELSE Goto(c, "replace") /\ UNCHANGED down
    /\ UNCHANGED <<op, want, held, kind, counter, ctxVars, stopping, started, covered,
                   irregular>>

(***************************************************************************)
(* The new handler is stored, the destructor of an old one joins.  The     *)
(* stop source is renewed if a handler was found when the call began.      *)
(***************************************************************************)
Replace(c) ==
    /\ pc[c] \in {"replace", "fresh"}
    /\ thread # "running"
    /\ kind' = want[c]
    /\ counter' = 0
    /\ thread' = "none"
    /\ stopping' = IF pc[c] = "fresh" THEN stopping ELSE FALSE
    /\ Goto(c, IF op[c] = "emplace" THEN "idle" ELSE "start")
    /\ UNCHANGED <<op, want, held, ctxVars, started, down, covered, irregular>>

\* Mutant of Launch: the handler is only marked as started.
LaunchNothing == started' = TRUE /\ UNCHANGED <<thread, threadCtx>>

\* The handler's start(): its thread runs the event loop.
Launch ==
    /\ thread' = "running"
    /\ threadCtx' = usbCtx
    /\ started' = TRUE

\* Mutant of StartStored: start() forgets that it started the handler.
StartAgain(c) ==
    /\ pc[c] = "start"
    /\ IF kind = "none" THEN UNCHANGED <<thread, threadCtx>>
       ELSE thread' = "running" /\ threadCtx' = usbCtx
    /\ Goto(c, IF op[c] = "get" THEN "ref" ELSE "idle")
    /\ UNCHANGED <<op, want, held, kind, counter, usbCtx, stopping, started, down,
                   covered, irregular>>

\* handler_service::start(): nothing to do when m_started, or without a handler.
StartStored(c) ==
    /\ pc[c] = "start"
    /\ IF started \/ kind = "none" THEN UNCHANGED <<thread, threadCtx, started>> ELSE Launch
    /\ Goto(c, IF op[c] = "get" THEN "ref" ELSE "idle")
    /\ UNCHANGED <<op, want, held, kind, counter, usbCtx, stopping, down, covered, irregular>>

\* refcounted_event_handler::start() cannot create its thread and returns false,
\* which make_context() and get_handler_service() ignore.
StartFails(c) ==
    /\ pc[c] = "start"
    /\ kind = "refcounted" /\ ~started
    /\ irregular' = irregular \cup {"failure"}
    /\ Goto(c, IF op[c] = "get" THEN "ref" ELSE "idle")
    /\ UNCHANGED <<op, want, held, handlerVars, ctxVars, stopping, started, down, covered>>

-----------------------------------------------------------------------------
(* The event handler's thread                                              *)

\* Mutant of LoopEnds: the counter is not consulted.
LoopEndsOnStop == stopping

\* The condition that ends the handler's loop.
LoopEnds == stopping /\ (kind = "refcounted" => counter = 0)

HandlerExits ==
    /\ thread = "running"
    /\ LoopEnds
    /\ thread' = "exited"
    /\ UNCHANGED <<callerVars, held, kind, counter, ctxVars, stopping, started, down,
                   covered, irregular>>

-----------------------------------------------------------------------------

Steps(c) == \/ InitFails(c) \/ InitContext(c) \/ StopStored(c) \/ Join(c)
            \/ Replace(c) \/ StartStored(c) \/ StartFails(c) \/ TakeRef(c)

Operations(c) == \/ MakeContext(c) \/ MakeContextWithOptions(c) \/ GetService(c) \/ EmplaceHandler(c)
                 \/ Start(c) \/ RequestStop(c) \/ Shutdown(c)

\* Once shut down the service is gone with its execution context.
Finished == down /\ held = {} /\ UNCHANGED vars

Next == \/ \E c \in Callers : Steps(c) \/ DropRef(c) \/ Operations(c)
        \/ HandlerExits
        \/ Finished

SafeSpec == Init /\ [][Next]_vars

(***************************************************************************)
(* Threads keep running, and every I/O object is destroyed in the end:     *)
(* a caller that waits for a handler to stop holds no reference itself.    *)
(***************************************************************************)
Spec == /\ SafeSpec
        /\ \A c \in Callers : WF_vars(Steps(c)) /\ WF_vars(DropRef(c))
        /\ WF_vars(HandlerExits)

-----------------------------------------------------------------------------
(* Properties                                                              *)

(***************************************************************************)
(* A reference taken on a counting handler while it ran and no stop was    *)
(* requested keeps its thread running: a transfer in flight gets its       *)
(* callback, whatever is stopped, set up, switched or shut down meanwhile  *)
(* (event_handler_ref's reason to exist).  A start() whose failure was     *)
(* ignored leaves references that a later handler does not know of.        *)
(***************************************************************************)
ReferencedHandlerRuns ==
    covered # {} /\ "failure" \notin irregular => thread = "running"

(***************************************************************************)
(* m_counter is the number of references that I/O objects hold, until      *)
(* set-ups race or a handler is replaced under their references.           *)
(***************************************************************************)
RefCountExact ==
    irregular = {} /\ kind = "refcounted" => counter = Cardinality(held)

(***************************************************************************)
(* After an orderly set-up start() leaves the stored handler running       *)
(* unless a stop was requested.  After a switch it does not: m_started     *)
(* outlives the handler it was set for.                                    *)
(***************************************************************************)
StartStarts ==
    [][\A c \in Callers :
         pc[c] = "start" /\ pc'[c] # "start" /\ kind # "none" /\ ~stopping
             /\ irregular' = {}
           => thread' = "running"]_vars

(***************************************************************************)
(* The handler's thread never uses a libusb_context that init_context()    *)
(* exited: after an orderly set-up, nobody makes a second context while    *)
(* the thread runs, or a second thread.                                    *)
(***************************************************************************)
LiveContext == irregular = {} => (thread = "running" => threadCtx)

(***************************************************************************)
(* shutdown() returns once the I/O objects are destroyed, unless the       *)
(* count went wrong in one of those ways.                                  *)
(***************************************************************************)
ShutdownCompletes == Closing ~> down \/ irregular # {}
=============================================================================
