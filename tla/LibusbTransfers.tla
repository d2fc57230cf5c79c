-------------------------- MODULE LibusbTransfers --------------------------
(***************************************************************************)
(* The part of libusb's asynchronous API that the transfer operations call *)
(* (external: libusb is not in this repository).  A transfer is submitted, *)
(* is then in flight, may be asked to cancel, and is handed back to its    *)
(* callback by the thread that handles events.                             *)
(*                                                                         *)
(* libusb_cancel_transfer on a transfer that is not in flight returns      *)
(* LIBUSB_ERROR_NOT_FOUND and leaves no trace: a submission that follows   *)
(* it is not cancelled.  Every caller in src/ ignores that return value.   *)
(***************************************************************************)
EXTENDS Naturals

CONSTANT
    N                   \* number of transfers in the transfer sequence

ASSUME NAssumption == N \in Nat

VARIABLES
    flight,             \* transfers submitted and not yet handed back
    doomed              \* those of them that were asked to cancel

usbVars == <<flight, doomed>>

Transfers == 1..N

UsbTypeOK == /\ flight \subseteq Transfers
             /\ doomed \subseteq flight

UsbInit == flight = {} /\ doomed = {}

\* libusb_submit_transfer that returns LIBUSB_SUCCESS.
UsbSubmit(t) == /\ t \notin flight
                /\ flight' = flight \cup {t}
                /\ UNCHANGED doomed

\* libusb_cancel_transfer of every transfer of ts, NOT_FOUND ignored.
UsbCancel(ts) == /\ doomed' = doomed \cup (ts \cap flight)
                 /\ UNCHANGED flight

(***************************************************************************)
(* The event thread takes a finished transfer off the list.  The status    *)
(* "cancelled" is reported only after a cancel, and a transfer asked to    *)
(* cancel is not reported as completed.                                    *)
(***************************************************************************)
UsbReap(t, status) == /\ t \in flight
                      /\ status = "cancelled" => t \in doomed
                      /\ status = "completed" => t \notin doomed
                      /\ flight' = flight \ {t}
                      /\ doomed' = doomed \ {t}
=============================================================================
