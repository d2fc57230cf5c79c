----------------------------- MODULE IoObjects -----------------------------
(***************************************************************************)
(* The I/O adapters of transfer/partial_io.hpp and transfer/complete_io.hpp*)
(* as objects: each takes a reference on the event handler, fills the      *)
(* transfers of its sequence in (transfer/operations.hpp) for an endpoint  *)
(* (transfer/endpoint.hpp), and then starts operations on them; what an    *)
(* operation does while it runs is PartialIO and CompleteIO.               *)
(*                                                                         *)
(* The adapters' references are event_handler_refs of EventHandlers.       *)
(***************************************************************************)
EXTENDS EventHandlers

CONSTANTS
    Adapters,           \* adapter objects: each has a reference of its own
    Service,            \* the owner that the handler service returns
    Sequences,          \* transfer sequences that the program keeps
    Kinds,              \* the kinds of transfers adapters are made for
    Addresses,          \* endpoint addresses as the program writes them
    Timeouts,           \* timeouts in milliseconds, 0 is none
    TimeoutMod          \* bound: values of libusb's unsigned timeout

ASSUME AdaptersAssumption == Adapters \subseteq Refs /\ Service \in Owners
ASSUME KindsAssumption ==
    Kinds \subseteq {"control", "bulk", "interrupt", "isochronous", "bulk_stream"}
ASSUME AddressesAssumption == Addresses \subseteq 0..255
ASSUME TimeoutsAssumption == Timeouts \subseteq Nat /\ TimeoutMod \in Nat \ {0}

VARIABLES
    adapter,            \* the adapters: what each was made for
    filled,             \* how the transfers of each sequence are filled in
    running,            \* the operation that each adapter has in flight
    overtaken           \* ghost: adapters whose sequence went to another one

ioVars == <<adapter, filled, running, overtaken>>
vars == <<handlerVars, ioVars>>

Directions == {"in", "out"}

\* The aliases of either header: each kind in each direction.
PartialTypes == [kind : Kinds, dir : Directions, complete : {FALSE}]
CompleteTypes == [kind : Kinds, dir : Directions, complete : {TRUE}]

Init ==
    /\ HandlersInit
    /\ adapter = [a \in Adapters |-> None]
    /\ filled = [s \in Sequences |-> None]
    /\ running = [a \in Adapters |-> "none"]
    /\ overtaken = {}

-----------------------------------------------------------------------------
(* Endpoints: the bit 128 of an address is set for IN                      *)

IsIn(ep) == ep \div 128 = 1

\* Mutant of MakeSafe: the address is left as it is.
MakeSafeUnchecked(dir, ep) == ep

\* make_safe(), ep_in() and ep_out(): the address's bit is set or cleared.
MakeSafe(dir, ep) == (ep % 128) + (IF dir = "in" THEN 128 ELSE 0)

\* make_throwing(): nothing for an address of the other direction.
MakeThrowing(dir, ep) == {e \in {ep} : IsIn(e) <=> dir = "in"}

\* ep_any().as<>(): nothing for an address of the other direction.
As(dir, ep) == IF dir = "in" THEN {e \in {ep} : IsIn(e)}
                             ELSE {e \in {ep} : ~IsIn(e)}

\* The endpoints of a direction that a program can make from what it writes.
Endpoints(dir) ==
    UNION {{MakeSafe(dir, ep)} \cup MakeThrowing(dir, ep) \cup As(dir, ep) : ep \in Addresses}

-----------------------------------------------------------------------------
(* prefill_*: every transfer of the sequence, with no callback yet         *)

\* libusb keeps an unsigned number of milliseconds.
Timeout(t) == t % TimeoutMod

\* libusb fills a control transfer in for endpoint 0, whatever the adapter's.
PrefillControl(ep, t) == [kind |-> "control", ep |-> 0, timeout |-> Timeout(t)]

PrefillBulk(ep, t) == [kind |-> "bulk", ep |-> ep, timeout |-> Timeout(t)]
PrefillInterrupt(ep, t) == [kind |-> "interrupt", ep |-> ep, timeout |-> Timeout(t)]
PrefillIsochronous(ep, t) == [kind |-> "isochronous", ep |-> ep, timeout |-> Timeout(t)]
PrefillBulkStream(ep, t) == [kind |-> "bulk_stream", ep |-> ep, timeout |-> Timeout(t)]

Prefill(kind, ep, t) ==
    CASE kind = "control" -> PrefillControl(ep, t)
      [] kind = "bulk" -> PrefillBulk(ep, t)
      [] kind = "interrupt" -> PrefillInterrupt(ep, t)
      [] kind = "isochronous" -> PrefillIsochronous(ep, t)
      [] kind = "bulk_stream" -> PrefillBulkStream(ep, t)

-----------------------------------------------------------------------------
(* Adapters                                                                *)

Alive(a) == adapter[a] # None
On(s) == {a \in Adapters : Alive(a) /\ adapter[a].seq = s}
Idle(s) == \A a \in On(s) : running[a] = "none"

(***************************************************************************)
(* The constructors take the reference, then fill the sequence in.  They   *)
(* leave alone a sequence that an operation uses.                          *)
(***************************************************************************)
NewAdapter(a, type, s, ep, t) ==
    /\ ~Alive(a)
    /\ Idle(s)
    /\ Bind(a, Service)
    /\ filled' = [filled EXCEPT ![s] = Prefill(type.kind, ep, t)]
    /\ adapter' = [adapter EXCEPT ![a] =
                      [type |-> type, seq |-> s, ep |-> ep, timeout |-> t]]
    /\ overtaken' = (overtaken \cup On(s)) \ {a}
    /\ UNCHANGED running

PartialAdapter(a, type, s, ep, t) == type \in PartialTypes /\ NewAdapter(a, type, s, ep, t)
CompleteAdapter(a, type, s, ep, t) == type \in CompleteTypes /\ NewAdapter(a, type, s, ep, t)

Inherits(from, to) == IF from \in overtaken THEN overtaken \cup {to} ELSE overtaken \ {to}

\* An adapter is copied: another reference, the same view of the sequence.
CopyAdapter(from, to) ==
    /\ Alive(from) /\ ~Alive(to)
    /\ CopyRef(from, to)
    /\ adapter' = [adapter EXCEPT ![to] = adapter[from]]
    /\ overtaken' = Inherits(from, to)
    /\ UNCHANGED <<filled, running>>

\* Or moved, before it runs an operation; the program forgets the source.
MoveAdapter(from, to) ==
    /\ Alive(from) /\ ~Alive(to) /\ running[from] = "none"
    /\ MoveRef(from, to)
    /\ adapter' = [adapter EXCEPT ![to] = adapter[from], ![from] = None]
    /\ overtaken' = Inherits(from, to) \ {from}
    /\ UNCHANGED <<filled, running>>

\* It outlives the operations that it started.
DestroyAdapter(a) ==
    /\ Alive(a) /\ running[a] = "none"
    /\ DropRef(a)
    /\ adapter' = [adapter EXCEPT ![a] = None]
    /\ overtaken' = overtaken \ {a}
    /\ UNCHANGED <<filled, running>>

-----------------------------------------------------------------------------
(* Operations                                                              *)

Start(a, o) ==
    /\ Alive(a) /\ Idle(adapter[a].seq)
    /\ running' = [running EXCEPT ![a] = o]
    /\ UNCHANGED <<handlerVars, adapter, filled, overtaken>>

\* read_some() and write_some(), of every adapter.
ReadSome(a) == Alive(a) /\ adapter[a].type.dir = "in" /\ Start(a, "in")
WriteSome(a) == Alive(a) /\ adapter[a].type.dir = "out" /\ Start(a, "out")

\* read(), write() and write_eof() of the complete adapters.
Read(a) == Alive(a) /\ adapter[a].type.complete /\ ReadSome(a)
Write(a) == Alive(a) /\ adapter[a].type.complete /\ WriteSome(a)

\* The operation returns.
Done(a) ==
    /\ running[a] # "none"
    /\ running' = [running EXCEPT ![a] = "none"]
    /\ UNCHANGED <<handlerVars, adapter, filled, overtaken>>

Next ==
    \/ OwnerNext /\ UNCHANGED ioVars
    \/ RefNext(Refs \ Adapters) /\ UNCHANGED ioVars
    \/ \E a \in Adapters, s \in Sequences, t \in Timeouts :
        \E dir \in Directions : \E ep \in Endpoints(dir) :
            \/ \E type \in PartialTypes :
                type.dir = dir /\ PartialAdapter(a, type, s, ep, t)
            \/ \E type \in CompleteTypes :
                type.dir = dir /\ CompleteAdapter(a, type, s, ep, t)
    \/ \E a, b \in Adapters : CopyAdapter(a, b) \/ MoveAdapter(a, b)
    \/ \E a \in Adapters : DestroyAdapter(a) \/ ReadSome(a) \/ WriteSome(a)
                           \/ Read(a) \/ Write(a) \/ Done(a)

Spec == Init /\ [][Next]_vars

-----------------------------------------------------------------------------
(* Properties                                                              *)

(***************************************************************************)
(* An operation's transfers go to the endpoint that its adapter was made   *)
(* for, in the operation's direction (control transfers carry it in their  *)
(* set-up packet), with its kind and its timeout, however the adapter and  *)
(* others were copied, moved and destroyed: unless another adapter was     *)
(* made for the same sequence meanwhile.                                   *)
(***************************************************************************)
GoesToItsEndpoint ==
    \A a \in Adapters : running[a] # "none" /\ a \notin overtaken =>
        LET f == filled[adapter[a].seq]
        IN  /\ f.kind = adapter[a].type.kind
            /\ f.timeout = Timeout(adapter[a].timeout)
            /\ f.kind # "control" => /\ f.ep = adapter[a].ep
                                     /\ IsIn(f.ep) <=> running[a] = "in"
=============================================================================
