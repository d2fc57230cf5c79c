---------------------------- MODULE MCCompleteIO ----------------------------
(***************************************************************************)
(* Instances of CompleteIO: what the device may answer.                    *)
(***************************************************************************)
EXTENDS CompleteIO

Answer(s, a) == [status |-> s, actual |-> a, packet |-> s, packetLength |-> 0]

\* Completions of every length, a cancellation and a partly done failure.
AllLengths == {Answer("completed", a) : a \in 0..2} \cup
              {Answer("cancelled", 0), Answer("error", 1)}

\* A device that moves something whenever it completes.
Progressing == {Answer("completed", a) : a \in 1..2} \cup
               {Answer("cancelled", 0), Answer("error", 0)}
=============================================================================
