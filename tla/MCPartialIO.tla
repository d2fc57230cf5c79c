---------------------------- MODULE MCPartialIO ----------------------------
(***************************************************************************)
(* Instances of PartialIO: what the device may answer.                     *)
(***************************************************************************)
EXTENDS PartialIO

Answer(s, a, p, l) ==
    [status |-> s, actual |-> a, packet |-> p, packetLength |-> l]

\* A full and an empty completion, a cancellation and a partly done failure.
BulkCompletions == { Answer("completed", 1, "completed", 0),
                     Answer("completed", 0, "completed", 0),
                     Answer("cancelled", 0, "completed", 0),
                     Answer("error", 1, "completed", 0) }

\* Isochronous: the packets before the cut completed, or the first failed.
IsoCompletions == { Answer("completed", 2, "completed", 1),
                    Answer("cancelled", 1, "completed", 1),
                    Answer("error", 0, "error", 0) }

\* A device that answers when cancelled, or completes.
CancelOnly == { Answer("completed", 1, "completed", 0),
                Answer("cancelled", 0, "cancelled", 0) }

\* An isochronous cancellation that comes after the first packet.
LateCancel == { Answer("completed", 2, "completed", 1),
                Answer("cancelled", 1, "completed", 1) }
=============================================================================
