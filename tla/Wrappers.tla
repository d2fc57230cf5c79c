------------------------------ MODULE Wrappers ------------------------------
(***************************************************************************)
(* The RAII objects of wrapper/: device_handle, interface and driver_guard *)
(* over what libusb and the kernel hold for them, and the error protocols  *)
(* (wrapper/error_protocol.hpp) that report an operation that failed.      *)
(*                                                                         *)
(* A thread keeps such objects as locals and may open, claim, detach, move *)
(* and release in any order; a scope that ends, or an exception, destroys  *)
(* the locals in reverse.  Meanwhile the device may be unplugged.  A local *)
(* that holds nothing (moved from, or released) has a null devh; one that  *)
(* came in a std::optional or std::expected is boxed, and an optional      *)
(* without a value is left out.                                            *)
(***************************************************************************)
EXTENDS Naturals

CONSTANTS
    Handles,            \* what libusb_open may return
    Ifaces,             \* interface numbers of the device
    Protocols,          \* the error protocols used: "exception", "optional",
                        \* "expected", "results"
    Null,               \* the null handle
    MaxLocals           \* bound: locals alive at a time

ASSUME NullAssumption == Null \notin Handles
ASSUME ProtocolsAssumption ==
    Protocols \subseteq {"exception", "optional", "expected", "results"}
ASSUME MaxLocalsAssumption == MaxLocals \in Nat

VARIABLES
    local,              \* the locals, in order of construction
    top,                \* how many there are
    mode,               \* the thread: running, unwinding or terminated
    ec,                 \* the std::error_code that it passes around
    returned,           \* what its last acquiring call gave it
    plugged,            \* whether the device is on the bus
    opened,             \* libusb: the open handles
    claimed,            \* libusb: the interfaces claimed through each
    driver,             \* kernel: the driver of each interface
    lost,               \* ghost: objects that failed to let go
    doubled             \* ghost: claims made again through the same handle

localVars == <<local, top>>
reportVars == <<mode, ec, returned>>
usbVars == <<plugged, opened, claimed, driver>>
ghostVars == <<lost, doubled>>
vars == <<localVars, reportVars, usbVars, ghostVars>>

Slots == 1..MaxLocals
Object == [kind : {"handle", "interface", "guard"}, devh : Handles \cup {Null},
           num : Ifaces \cup {Null}, boxed : BOOLEAN]
Dead == [kind |-> "none", devh |-> Null, num |-> Null, boxed |-> FALSE]
Codes == {"success", "no_device", "access", "busy", "not_found", "unknown"}

TypeOK ==
    /\ top \in 0..MaxLocals
    /\ local \in [Slots -> Object \cup {Dead}]
    /\ \A k \in Slots : local[k] = Dead <=> k > top
    /\ mode \in {"running", "unwinding", "terminated"}
    /\ ec \in Codes
    /\ returned \in [has : BOOLEAN, error : Codes]
    /\ plugged \in BOOLEAN
    /\ opened \subseteq Handles
    /\ claimed \subseteq Handles \X Ifaces
    /\ driver \in [Ifaces -> {"none", "bound", "detached"}]
    /\ lost \subseteq Object
    /\ doubled \subseteq Handles \X Ifaces

Init ==
    /\ local = [k \in Slots |-> Dead] /\ top = 0
    /\ mode = "running" /\ ec = "success"
    /\ returned = [has |-> FALSE, error |-> "unknown"]
    /\ plugged = TRUE /\ opened = {} /\ claimed = {}
    /\ lost = {} /\ doubled = {}
    /\ driver \in [Ifaces -> {"none", "bound"}]

Live == 1..top

\* The objects of a scope that hold something, and the handle behind one.
Holds(s, k) == s[k].devh # Null
IsHandle(s, k) == s[k].kind = "handle"

(***************************************************************************)
(* What the language asks of the program: an interface or a guard does not *)
(* outlive the device_handle that it was made from.                        *)
(***************************************************************************)
WithinHandle(s) ==
    \A k \in Slots : Holds(s, k) /\ ~IsHandle(s, k) =>
        \E j \in 1..k - 1 : IsHandle(s, j) /\ s[j].devh = s[k].devh

-----------------------------------------------------------------------------
(* libusb, as the wrappers call it                                         *)

OpenCode == IF plugged THEN {"success", "access"} ELSE {"no_device"}

ClaimCode(h, i) ==
    IF ~plugged THEN "no_device"
    ELSE IF driver[i] = "bound" \/ \E g \in Handles \ {h} : <<g, i>> \in claimed
         THEN "busy" ELSE "success"

DetachCode(i) == IF ~plugged THEN "no_device"
                 ELSE IF driver[i] = "bound" THEN "success" ELSE "not_found"

ReleaseCode(h, i) == IF ~plugged THEN "no_device"
                     ELSE IF <<h, i>> \in claimed THEN "success" ELSE "not_found"

InUse(i) == \E g \in Handles : <<g, i>> \in claimed

AttachCode(i) ==
    IF ~plugged THEN "no_device"
    ELSE IF InUse(i) THEN "busy"
    ELSE IF driver[i] = "detached" THEN "success" ELSE "not_found"

-----------------------------------------------------------------------------
(* The error protocols: with_success and with_error                        *)

\* as_exception: an error is thrown.
AsException(code) ==
    /\ mode' = IF code = "success" THEN mode ELSE "unwinding"
    /\ returned' = [has |-> code = "success", error |-> code]
    /\ UNCHANGED ec

\* Mutant of AsOptional: a success does not clear the error code.
AsOptionalSticky(code) ==
    /\ ec' = IF code = "success" THEN ec ELSE code
    /\ returned' = [has |-> code = "success", error |-> ec']
    /\ UNCHANGED mode

\* as_optional: an optional and the caller's error code, cleared on success.
AsOptional(code) ==
    /\ ec' = code
    /\ returned' = [has |-> code = "success", error |-> ec']
    /\ UNCHANGED mode

\* as_expected and as_results: the value or the error is what is returned.
AsExpected(code) ==
    /\ returned' = [has |-> code = "success", error |-> code]
    /\ UNCHANGED <<ec, mode>>

AsResults(code) == AsExpected(code)

Report(p, code) == CASE p = "exception" -> AsException(code)
                     [] p = "optional" -> AsOptional(code)
                     [] p = "expected" -> AsExpected(code)
                     [] p = "results" -> AsResults(code)

\* The call returns a new local around h, unless it failed.
Return(p, code, kind, h, i) ==
    /\ Report(p, code)
    /\ IF code = "success"
       THEN /\ local' = [local EXCEPT ![top + 1] =
                            [kind |-> kind, devh |-> h, num |-> i,
                             boxed |-> p # "exception"]]
            /\ top' = top + 1
       ELSE UNCHANGED localVars

Running == mode = "running"
Room == top < MaxLocals

-----------------------------------------------------------------------------
(* Acquiring                                                               *)

\* open_device() by reference, or by triplet: then any failure is unknown.
OpenDevice(p, h) ==
    /\ Running /\ Room
    /\ h \notin opened
    /\ \E code \in OpenCode, byRef \in BOOLEAN :
        /\ Return(p, IF byRef \/ code = "success" THEN code ELSE "unknown", "handle", h, Null)
        /\ opened' = IF code = "success" THEN opened \cup {h} ELSE opened
    /\ UNCHANGED <<plugged, claimed, driver, ghostVars>>

\* device_handle_of() a local that is used as a source.
DeviceHandleOf(k) == local[k].devh

\* claim_interface(): a second claim through one handle succeeds too, and gives
\* a second object around the one claim.
ClaimInterface(p, k, i) ==
    LET h == DeviceHandleOf(k)
        code == ClaimCode(h, i)
    IN  /\ Running /\ Room
        /\ Holds(local, k)
        /\ Return(p, code, "interface", h, i)
        /\ claimed' = IF code = "success" THEN claimed \cup {<<h, i>>} ELSE claimed
        /\ doubled' = IF code = "success" THEN doubled \cup ({<<h, i>>} \cap claimed) ELSE doubled
        /\ UNCHANGED <<plugged, opened, driver, lost>>

\* detach_driver().
DetachDriver(p, k, i) ==
    LET code == DetachCode(i)
    IN  /\ Running /\ Room
        /\ Holds(local, k)
        /\ Return(p, code, "guard", DeviceHandleOf(k), i)
        /\ driver' = IF code = "success" THEN [driver EXCEPT ![i] = "detached"] ELSE driver
        /\ UNCHANGED <<plugged, opened, claimed, ghostVars>>

-----------------------------------------------------------------------------
(* Letting go                                                              *)

\* What letting go of an object's resource returns.
LetGoCode(o) ==
    IF o.devh = Null \/ o.kind = "handle" THEN "success"
    ELSE IF o.kind = "interface" THEN ReleaseCode(o.devh, o.num)
    ELSE AttachCode(o.num)

Without(h, pairs) == {c \in pairs : c[1] # h}

\* ~device_handle, reset() and close(): libusb_close() drops its claims.
Close(h) ==
    /\ opened' = opened \ {h}
    /\ claimed' = Without(h, claimed)
    /\ lost' = {o \in lost : o.kind = "interface" => o.devh # h}
    /\ doubled' = Without(h, doubled)
    /\ UNCHANGED driver

\* interface::release().
Release(o) ==
    /\ IF LetGoCode(o) = "success" THEN claimed' = claimed \ {<<o.devh, o.num>>} /\ UNCHANGED lost
                                   ELSE lost' = lost \cup {o} /\ UNCHANGED claimed
    /\ UNCHANGED <<opened, driver, doubled>>

\* driver_guard::attach().
Attach(o) ==
    /\ IF LetGoCode(o) = "success"
       THEN driver' = [driver EXCEPT ![o.num] = "bound"] /\ UNCHANGED lost
       ELSE lost' = lost \cup {o} /\ UNCHANGED driver
    /\ UNCHANGED <<opened, claimed, doubled>>

\* Mutant of LetGo: the resource stays with libusb.
LetGoNothing(o) == UNCHANGED <<usbVars, ghostVars>>

LetGo(o) ==
    /\ CASE o.devh = Null -> UNCHANGED <<opened, claimed, driver, ghostVars>>
         [] o.kind = "handle" /\ o.devh # Null -> Close(o.devh)
         [] o.kind = "interface" /\ o.devh # Null -> Release(o)
         [] o.kind = "guard" /\ o.devh # Null -> Attach(o)
    /\ UNCHANGED plugged

\* release(ec), attach(ec), reset() and close(): ec is set by a failure only.
LetGoOf(k) ==
    /\ Running
    /\ LetGo(local[k])
    /\ local' = [local EXCEPT ![k].devh = Null]
    /\ WithinHandle(local')
    /\ ec' = IF LetGoCode(local[k]) = "success" THEN ec ELSE LetGoCode(local[k])
    /\ UNCHANGED <<top, mode, returned>>

(***************************************************************************)
(* A destructor or an assignment throws: fatal while another exception     *)
(* unwinds.  The standard library asks of a boxed object that its          *)
(* destructor does not throw: it may be called from one that is noexcept.  *)
(***************************************************************************)
Throws(code, boxed) ==
    /\ mode' \in IF code = "success" THEN {mode}
                 ELSE IF Running THEN {"unwinding"} \cup {m \in {"terminated"} : boxed}
                 ELSE {"terminated"}
    /\ UNCHANGED <<ec, returned>>

\* The last local is destroyed: its scope ends, or an exception passes it.
DestroyLast ==
    /\ mode # "terminated"
    /\ top > 0
    /\ LetGo(local[top])
    /\ Throws(LetGoCode(local[top]), local[top].boxed)
    /\ local' = [local EXCEPT ![top] = Dead]
    /\ top' = top - 1

-----------------------------------------------------------------------------
(* Moving                                                                  *)

\* Mutant of Move: the source keeps its handle.
MoveCopies(from, to) ==
    [local EXCEPT ![to] = [local[from] EXCEPT !.boxed = local[to].boxed]]

\* The object at to takes over, the one at from is left with a null handle.
Move(from, to) ==
    [local EXCEPT ![to] = [local[from] EXCEPT !.boxed = local[to].boxed],
                  ![from].devh = Null]

\* Move construction, and device_handle{other.release()}.
MoveConstruct(k) ==
    /\ Running /\ Room
    /\ local' = Move(k, top + 1)
    /\ top' = top + 1
    /\ WithinHandle(local')
    /\ UNCHANGED <<reportVars, usbVars, ghostVars>>

(***************************************************************************)
(* Move assignment: the target lets go first.  If that fails the target is *)
(* empty, the source keeps what it has and the assignment throws.          *)
(***************************************************************************)
MoveAssign(from, to) ==
    /\ Running
    /\ from # to /\ local[from].kind = local[to].kind
    /\ LetGo(local[to])
    /\ Throws(LetGoCode(local[to]), FALSE)
    /\ local' = IF LetGoCode(local[to]) = "success" THEN Move(from, to)
                ELSE [local EXCEPT ![to].devh = Null]
    /\ WithinHandle(local')
    /\ UNCHANGED top

-----------------------------------------------------------------------------
(* The device and the thread                                               *)

\* An enclosing function catches the exception.
Catch ==
    /\ mode = "unwinding"
    /\ mode' = "running"
    /\ UNCHANGED <<localVars, ec, returned, usbVars, ghostVars>>

Unplug ==
    /\ plugged
    /\ plugged' = FALSE
    /\ UNCHANGED <<localVars, reportVars, opened, claimed, driver, ghostVars>>

\* The device comes back, as another one to those that opened it before.
Replug ==
    /\ ~plugged /\ opened = {}
    /\ plugged' = TRUE
    /\ driver' \in [Ifaces -> {"none", "bound"}]
    /\ lost' = {}
    /\ UNCHANGED <<localVars, reportVars, opened, claimed, doubled>>

Terminated == mode = "terminated" /\ UNCHANGED vars

Next ==
    \/ \E p \in Protocols :
        \/ \E h \in Handles : OpenDevice(p, h)
        \/ \E k \in Live, i \in Ifaces : ClaimInterface(p, k, i) \/ DetachDriver(p, k, i)
    \/ \E k \in Live : LetGoOf(k) \/ MoveConstruct(k)
    \/ \E j, k \in Live : MoveAssign(j, k)
    \/ DestroyLast
    \/ Catch \/ Unplug \/ Replug \/ Terminated

Spec == Init /\ [][Next]_vars

-----------------------------------------------------------------------------
(* Properties                                                              *)

Acquired(o) ==
    /\ o.kind = "handle" => o.devh \in opened
    /\ o.kind = "interface" => <<o.devh, o.num>> \in claimed
    /\ o.kind = "guard" => driver[o.num] = "detached"

Same(o, q) == /\ o.kind = q.kind /\ o.num = q.num
              /\ o.kind # "guard" => o.devh = q.devh

\* An interface object whose claim was made more than once through its handle.
Doubled(o) == o.kind = "interface" /\ <<o.devh, o.num>> \in doubled

SoleHolders ==
    \A k \in Live : Holds(local, k) /\ ~Doubled(local[k]) =>
        /\ Acquired(local[k])
        /\ \A j \in Live \ {k} : Holds(local, j) => ~Same(local[j], local[k])

Owner(kind, h, i) ==
    \E o \in lost \cup {local[k] : k \in Live} :
        o.kind = kind /\ o.devh = h /\ o.num = i

HeldByOne ==
    /\ \A h \in opened : Owner("handle", h, Null)
    /\ \A c \in claimed : Owner("interface", c[1], c[2])
    /\ \A i \in Ifaces : driver[i] = "detached" =>
        \E h \in Handles : Owner("guard", h, i)

(***************************************************************************)
(* Every local that holds something holds what libusb and the kernel gave  *)
(* out, and no other local holds the same: nothing is released twice.  And *)
(* what libusb or the kernel holds has an object that will let go of it,   *)
(* or one that tried and told its user that it failed: nothing leaks,      *)
(* whatever is moved, assigned, released or destroyed.  Interfaces that    *)
(* were claimed again through the handle that had them are excepted from   *)
(* the first half: libusb counts one claim, of which there are two owners. *)
(***************************************************************************)
OneOwner == SoleHolders /\ HeldByOne

(***************************************************************************)
(* With every protocol the caller is given the object or an error, never   *)
(* both, whatever error an earlier call left in its error code.            *)
(***************************************************************************)
ObjectOrError == returned.has <=> returned.error = "success"

(***************************************************************************)
(* A destructor ends the program by throwing where it must not only if the *)
(* device is gone, if it reattaches a driver to an interface that is still *)
(* claimed, or if it releases one that was claimed twice: never because of *)
(* what a move or a release did before.                                    *)
(***************************************************************************)
TerminatesOnFailureOnly ==
    [][mode' = "terminated" /\ mode # "terminated" =>
         \/ ~plugged
         \/ local[top].kind = "guard" /\ InUse(local[top].num)
         \/ Doubled(local[top])]_vars
=============================================================================
