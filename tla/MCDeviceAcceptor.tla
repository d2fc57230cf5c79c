-------------------------- MODULE MCDeviceAcceptor --------------------------
(***************************************************************************)
(* Instances of DeviceAcceptor: devices that differ.                       *)
(***************************************************************************)
EXTENDS DeviceAcceptor

Different == [d \in Devices |-> d]

\* The program binds one of them, or none.
OneOfThem == {CHOOSE d \in Devices : TRUE}

\* One of the coroutines is stopped, before its accept() or while it waits.
OneIsStopped == {CHOOSE t \in Tasks : TRUE} \X {"idle", "suspended"}
WhileItWaits == {CHOOSE t \in Tasks : TRUE} \X {"suspended"}
=============================================================================
