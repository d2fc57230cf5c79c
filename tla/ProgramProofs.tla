--------------------------- MODULE ProgramProofs ---------------------------
(***************************************************************************)
(* The example program with any number of devices: the event handler's     *)
(* thread outlives every operation, and the devices get their drivers back.*)
(***************************************************************************)
EXTENDS Program, TLAPS

Places == {"none", "start", "opened", "guarded", "claimed", "checking", "submitting",
           "reading", "callback", "hung", "answered", "leaving", "ended"}

TypeOK ==
    /\ bus \in [Devices -> {"absent", "present", "gone"}]
    /\ driver \in [Devices -> {"none", "bound", "detached"}]
    /\ thread \in {"running", "exited"}
    /\ acc \in {"start", "checking", "joining", "waiting", "resumed", "leaving", "ended"}
    /\ stored \subseteq Devices /\ got \in Devices \cup {None}
    /\ loop \in [Devices -> Places] /\ more \in [Devices -> Nat]
    /\ held \in [Devices -> SUBSET {"handle", "guard", "interface"}]
    /\ main \in {"joining", "closing", "ended"}

\* Who is at work holds a reference on the handler.
RefsInv ==
    /\ acc \in {"checking", "joining", "waiting", "resumed", "leaving"} => Acceptor \in refs
    /\ \A d \in Devices :
        loop[d] \in {"checking", "submitting", "reading", "callback", "hung", "answered"}
            => d \in refs

\* Once the handler has exited there is a stop that nobody will miss any more:
\* what takes a reference after that looks at the stop before it starts to wait.
ExitInv ==
    thread = "exited" =>
        /\ stop
        /\ acc \notin {"joining", "waiting"}
        /\ \A d \in Devices : loop[d] \notin {"submitting", "reading", "callback"}

\* What a dev_loop has as locals, by the place where it is; a guard is of a device
\* that was there.
HeldInv ==
    \A d \in Devices :
        /\ loop[d] \in {"none", "start", "ended"} => held[d] = {}
        /\ loop[d] \in {"opened", "guarded", "claimed", "checking", "submitting", "reading",
                        "callback", "hung", "answered", "leaving"} => "handle" \in held[d]
        /\ "guard" \in held[d] => bus[d] # "absent"

\* A device without its driver has left, or its loop will give the driver back.
DriverInv ==
    \A d \in Devices : driver[d] = "detached" => bus[d] = "gone" \/ "guard" \in held[d]

\* A device that is stored or handed over has no dev_loop yet, and none is stored
\* when accept_hotplug does not listen.
StoredInv ==
    /\ acc = "start" => \A d \in Devices : loop[d] = "none"
    /\ acc \in {"start", "ended"} => listening = FALSE /\ stored = {}
    /\ \A d \in stored : loop[d] = "none"
    /\ acc = "resumed" /\ got # None => loop[got] = "none" /\ got \notin stored

\* main goes on only when every coroutine has ended.
MainInv ==
    main # "joining" => acc = "ended" /\ \A d \in Devices : loop[d] \in {"none", "ended"}

\* A stop that nobody misses reaches whoever waits: the callback has yet to run, or
\* the transfer that it cancelled is yet to end.
ReachInv ==
    stop /\ ~race =>
        /\ acc \in {"joining", "waiting"} => Acceptor \in calls
        /\ \A d \in Devices : loop[d] = "reading" => d \in calls \cup cancelled

\* Nobody holds a reference who has ended.
HoldersInv ==
    /\ refs \subseteq Devices \cup {Acceptor}
    /\ Acceptor \in refs => acc \notin {"start", "ended"}
    /\ \A d \in Devices : d \in refs =>
        loop[d] \in {"checking", "submitting", "reading", "callback", "hung", "answered",
                    "leaving"}

IInv == TypeOK /\ RefsInv /\ ExitInv /\ HeldInv /\ DriverInv /\ StoredInv /\ MainInv
        /\ ReachInv /\ HoldersInv

-----------------------------------------------------------------------------
(* Steps                                                                   *)

\* A step keeps the types.
LEMMA TypeKept ==
    ASSUME TypeOK, Next
    PROVE  TypeOK'
<1>. USE DEF TypeOK, Places, Go, Drop, Present, Polling
<1>1. CASE StartAccepting
  BY <1>1 DEF StartAccepting, busVars, serviceVars, accVars, loopVars
<1>2. CASE Accept
  BY <1>2 DEF Accept, busVars, serviceVars, accVars, loopVars
<1>3. CASE Accepted
  BY <1>3 DEF Accepted, busVars, serviceVars, accVars, loopVars
<1>4. CASE StopAccepting
  BY <1>4 DEF StopAccepting, busVars, serviceVars, accVars, loopVars
<1>5. CASE Join
  BY <1>5 DEF Join, busVars, serviceVars, accVars, loopVars
<1>6. CASE Shutdown
  BY <1>6 DEF Shutdown, busVars, serviceVars, accVars, loopVars
<1>7. CASE HandlerExits
  BY <1>7 DEF HandlerExits, busVars, serviceVars, accVars, loopVars
<1>8. CASE RequestStop
  BY <1>8 DEF RequestStop, busVars, serviceVars, accVars, loopVars
<1>9. CASE CancelAccept
  BY <1>9 DEF CancelAccept, busVars, serviceVars, accVars, loopVars
<1>10. ASSUME NEW c, Forget(c) PROVE TypeOK'
  BY <1>10 DEF Forget, busVars, serviceVars, accVars, loopVars
<1>11. ASSUME NEW d \in Devices, Open(d) PROVE TypeOK'
  BY <1>11 DEF Open, busVars, serviceVars, accVars, loopVars
<1>12. ASSUME NEW d \in Devices, Detach(d) PROVE TypeOK'
  BY <1>12 DEF Detach, busVars, serviceVars, accVars, loopVars
<1>13. ASSUME NEW d \in Devices, Claim(d) PROVE TypeOK'
  BY <1>13 DEF Claim, busVars, serviceVars, accVars, loopVars
<1>14. ASSUME NEW d \in Devices, Prepare(d) PROVE TypeOK'
  BY <1>14 DEF Prepare, busVars, serviceVars, accVars, loopVars
<1>15. ASSUME NEW d \in Devices, Check(d) PROVE TypeOK'
  BY <1>15 DEF Check, busVars, serviceVars, accVars, loopVars
<1>16. ASSUME NEW d \in Devices, Submit(d) PROVE TypeOK'
  BY <1>16, MoreAssumption DEF Submit, Unseen, busVars, serviceVars, accVars, loopVars
<1>17. ASSUME NEW d \in Devices, Resume(d) PROVE TypeOK'
  BY <1>17 DEF Resume, busVars, serviceVars, accVars, loopVars
<1>18. ASSUME NEW d \in Devices, DestroyAdapter(d) PROVE TypeOK'
  BY <1>18 DEF DestroyAdapter, busVars, serviceVars, accVars, loopVars
<1>19. ASSUME NEW d \in Devices, ReleaseInterface(d) PROVE TypeOK'
  BY <1>19 DEF ReleaseInterface, busVars, serviceVars, accVars, loopVars
<1>20. ASSUME NEW d \in Devices, AttachDriver(d) PROVE TypeOK'
  BY <1>20 DEF AttachDriver, busVars, serviceVars, accVars, loopVars
<1>21. ASSUME NEW d \in Devices, CloseHandle(d) PROVE TypeOK'
  BY <1>21 DEF CloseHandle, busVars, serviceVars, accVars, loopVars
<1>22. ASSUME NEW d \in Devices, Plug(d) PROVE TypeOK'
  BY <1>22 DEF Plug, busVars, serviceVars, accVars, loopVars
<1>23. ASSUME NEW d \in Devices, Unplug(d) PROVE TypeOK'
  BY <1>23 DEF Unplug, busVars, serviceVars, accVars, loopVars
<1>24. ASSUME NEW d \in Devices, Arrive(d) PROVE TypeOK'
  BY <1>24 DEF Arrive, busVars, serviceVars, accVars, loopVars
<1>25. ASSUME NEW d \in Devices, Leave(d) PROVE TypeOK'
  BY <1>25 DEF Leave, busVars, serviceVars, accVars, loopVars
<1>26. ASSUME NEW d \in Devices, Complete(d) PROVE TypeOK'
  BY <1>26 DEF Complete, busVars, serviceVars, accVars, loopVars
<1>27. ASSUME NEW d \in Devices, CancelRead(d) PROVE TypeOK'
  BY <1>27 DEF CancelRead, busVars, serviceVars, accVars, loopVars
<1>28. ASSUME NEW d \in Devices, Reap(d) PROVE TypeOK'
  BY <1>28 DEF Reap, busVars, serviceVars, accVars, loopVars
<1>29. ASSUME NEW d \in Devices, Continue(d) PROVE TypeOK'
  BY <1>29, MoreAssumption DEF Continue, Unseen, busVars, serviceVars, accVars, loopVars
<1>. QED
  BY <1>1, <1>2, <1>3, <1>4, <1>5, <1>6, <1>7, <1>8, <1>9, <1>10, <1>11, <1>12, <1>13, <1>14, <1>15, <1>16, <1>17, <1>18, <1>19, <1>20, <1>21, <1>22, <1>23, <1>24, <1>25, <1>26, <1>27, <1>28, <1>29
     DEF Next, Coroutines, Accepting, Reading, Leaving, Handling, Reaping, Stopping

\* References are given back by those that have ended.
LEMMA RefsKept ==
    ASSUME TypeOK, RefsInv, Next
    PROVE  RefsInv'
<1>. USE DEF RefsInv, TypeOK, Go, Drop, Present, Polling
<1>1. CASE StartAccepting
  BY <1>1 DEF StartAccepting, busVars, serviceVars, accVars, loopVars
<1>2. CASE Accept
  BY <1>2 DEF Accept, busVars, serviceVars, accVars, loopVars
<1>3. CASE Accepted
  BY <1>3 DEF Accepted, busVars, serviceVars, accVars, loopVars
<1>4. CASE StopAccepting
  BY <1>4, AcceptorAssumption DEF StopAccepting, busVars, serviceVars, accVars, loopVars
<1>5. CASE Join
  BY <1>5 DEF Join, busVars, serviceVars, accVars, loopVars
<1>6. CASE Shutdown
  BY <1>6 DEF Shutdown, busVars, serviceVars, accVars, loopVars
<1>7. CASE HandlerExits
  BY <1>7 DEF HandlerExits, busVars, serviceVars, accVars, loopVars
<1>8. CASE RequestStop
  BY <1>8 DEF RequestStop, busVars, serviceVars, accVars, loopVars
<1>9. CASE CancelAccept
  BY <1>9 DEF CancelAccept, busVars, serviceVars, accVars, loopVars
<1>10. ASSUME NEW c, Forget(c) PROVE RefsInv'
  BY <1>10 DEF Forget, busVars, serviceVars, accVars, loopVars
<1>11. ASSUME NEW d \in Devices, Open(d) PROVE RefsInv'
  BY <1>11 DEF Open, busVars, serviceVars, accVars, loopVars
<1>12. ASSUME NEW d \in Devices, Detach(d) PROVE RefsInv'
  BY <1>12 DEF Detach, busVars, serviceVars, accVars, loopVars
<1>13. ASSUME NEW d \in Devices, Claim(d) PROVE RefsInv'
  BY <1>13 DEF Claim, busVars, serviceVars, accVars, loopVars
<1>14. ASSUME NEW d \in Devices, Prepare(d) PROVE RefsInv'
  BY <1>14 DEF Prepare, busVars, serviceVars, accVars, loopVars
<1>15. ASSUME NEW d \in Devices, Check(d) PROVE RefsInv'
  BY <1>15 DEF Check, busVars, serviceVars, accVars, loopVars
<1>16. ASSUME NEW d \in Devices, Submit(d) PROVE RefsInv'
  BY <1>16, MoreAssumption DEF Submit, Unseen, busVars, serviceVars, accVars, loopVars
<1>17. ASSUME NEW d \in Devices, Resume(d) PROVE RefsInv'
  BY <1>17 DEF Resume, busVars, serviceVars, accVars, loopVars
<1>18. ASSUME NEW d \in Devices, DestroyAdapter(d) PROVE RefsInv'
  BY <1>18, AcceptorAssumption DEF DestroyAdapter, busVars, serviceVars, accVars, loopVars
<1>19. ASSUME NEW d \in Devices, ReleaseInterface(d) PROVE RefsInv'
  BY <1>19 DEF ReleaseInterface, busVars, serviceVars, accVars, loopVars
<1>20. ASSUME NEW d \in Devices, AttachDriver(d) PROVE RefsInv'
  BY <1>20 DEF AttachDriver, busVars, serviceVars, accVars, loopVars
<1>21. ASSUME NEW d \in Devices, CloseHandle(d) PROVE RefsInv'
  BY <1>21 DEF CloseHandle, busVars, serviceVars, accVars, loopVars
<1>22. ASSUME NEW d \in Devices, Plug(d) PROVE RefsInv'
  BY <1>22 DEF Plug, busVars, serviceVars, accVars, loopVars
<1>23. ASSUME NEW d \in Devices, Unplug(d) PROVE RefsInv'
  BY <1>23 DEF Unplug, busVars, serviceVars, accVars, loopVars
<1>24. ASSUME NEW d \in Devices, Arrive(d) PROVE RefsInv'
  BY <1>24 DEF Arrive, busVars, serviceVars, accVars, loopVars
<1>25. ASSUME NEW d \in Devices, Leave(d) PROVE RefsInv'
  BY <1>25 DEF Leave, busVars, serviceVars, accVars, loopVars
<1>26. ASSUME NEW d \in Devices, Complete(d) PROVE RefsInv'
  BY <1>26 DEF Complete, busVars, serviceVars, accVars, loopVars
<1>27. ASSUME NEW d \in Devices, CancelRead(d) PROVE RefsInv'
  BY <1>27 DEF CancelRead, busVars, serviceVars, accVars, loopVars
<1>28. ASSUME NEW d \in Devices, Reap(d) PROVE RefsInv'
  BY <1>28 DEF Reap, busVars, serviceVars, accVars, loopVars
<1>29. ASSUME NEW d \in Devices, Continue(d) PROVE RefsInv'
  BY <1>29, MoreAssumption DEF Continue, Unseen, busVars, serviceVars, accVars, loopVars
<1>. QED
  BY <1>1, <1>2, <1>3, <1>4, <1>5, <1>6, <1>7, <1>8, <1>9, <1>10, <1>11, <1>12, <1>13, <1>14, <1>15, <1>16, <1>17, <1>18, <1>19, <1>20, <1>21, <1>22, <1>23, <1>24, <1>25, <1>26, <1>27, <1>28, <1>29
     DEF Next, Coroutines, Accepting, Reading, Leaving, Handling, Reaping, Stopping

\* Nobody starts to wait for a handler that has exited.
LEMMA ExitKept ==
    ASSUME TypeOK, RefsInv, ExitInv, Next
    PROVE  ExitInv'
<1>. USE DEF RefsInv, ExitInv, TypeOK, Go, Drop, Present, Polling
<1>1. CASE StartAccepting
  BY <1>1 DEF StartAccepting, busVars, serviceVars, accVars, loopVars
<1>2. CASE Accept
  BY <1>2 DEF Accept, busVars, serviceVars, accVars, loopVars
<1>3. CASE Accepted
  BY <1>3 DEF Accepted, busVars, serviceVars, accVars, loopVars
<1>4. CASE StopAccepting
  BY <1>4 DEF StopAccepting, busVars, serviceVars, accVars, loopVars
<1>5. CASE Join
  BY <1>5 DEF Join, busVars, serviceVars, accVars, loopVars
<1>6. CASE Shutdown
  BY <1>6 DEF Shutdown, busVars, serviceVars, accVars, loopVars
<1>7. CASE HandlerExits
  BY <1>7 DEF HandlerExits, LoopEnds, busVars, serviceVars, accVars, loopVars
<1>8. CASE RequestStop
  BY <1>8 DEF RequestStop, busVars, serviceVars, accVars, loopVars
<1>9. CASE CancelAccept
  BY <1>9 DEF CancelAccept, busVars, serviceVars, accVars, loopVars
<1>10. ASSUME NEW c, Forget(c) PROVE ExitInv'
  BY <1>10 DEF Forget, busVars, serviceVars, accVars, loopVars
<1>11. ASSUME NEW d \in Devices, Open(d) PROVE ExitInv'
  BY <1>11 DEF Open, busVars, serviceVars, accVars, loopVars
<1>12. ASSUME NEW d \in Devices, Detach(d) PROVE ExitInv'
  BY <1>12 DEF Detach, busVars, serviceVars, accVars, loopVars
<1>13. ASSUME NEW d \in Devices, Claim(d) PROVE ExitInv'
  BY <1>13 DEF Claim, busVars, serviceVars, accVars, loopVars
<1>14. ASSUME NEW d \in Devices, Prepare(d) PROVE ExitInv'
  BY <1>14 DEF Prepare, busVars, serviceVars, accVars, loopVars
<1>15. ASSUME NEW d \in Devices, Check(d) PROVE ExitInv'
  BY <1>15 DEF Check, busVars, serviceVars, accVars, loopVars
<1>16. ASSUME NEW d \in Devices, Submit(d) PROVE ExitInv'
  BY <1>16, MoreAssumption DEF Submit, Unseen, busVars, serviceVars, accVars, loopVars
<1>17. ASSUME NEW d \in Devices, Resume(d) PROVE ExitInv'
  BY <1>17 DEF Resume, busVars, serviceVars, accVars, loopVars
<1>18. ASSUME NEW d \in Devices, DestroyAdapter(d) PROVE ExitInv'
  BY <1>18 DEF DestroyAdapter, busVars, serviceVars, accVars, loopVars
<1>19. ASSUME NEW d \in Devices, ReleaseInterface(d) PROVE ExitInv'
  BY <1>19 DEF ReleaseInterface, busVars, serviceVars, accVars, loopVars
<1>20. ASSUME NEW d \in Devices, AttachDriver(d) PROVE ExitInv'
  BY <1>20 DEF AttachDriver, busVars, serviceVars, accVars, loopVars
<1>21. ASSUME NEW d \in Devices, CloseHandle(d) PROVE ExitInv'
  BY <1>21 DEF CloseHandle, busVars, serviceVars, accVars, loopVars
<1>22. ASSUME NEW d \in Devices, Plug(d) PROVE ExitInv'
  BY <1>22 DEF Plug, busVars, serviceVars, accVars, loopVars
<1>23. ASSUME NEW d \in Devices, Unplug(d) PROVE ExitInv'
  BY <1>23 DEF Unplug, busVars, serviceVars, accVars, loopVars
<1>24. ASSUME NEW d \in Devices, Arrive(d) PROVE ExitInv'
  BY <1>24 DEF Arrive, busVars, serviceVars, accVars, loopVars
<1>25. ASSUME NEW d \in Devices, Leave(d) PROVE ExitInv'
  BY <1>25 DEF Leave, busVars, serviceVars, accVars, loopVars
<1>26. ASSUME NEW d \in Devices, Complete(d) PROVE ExitInv'
  BY <1>26 DEF Complete, busVars, serviceVars, accVars, loopVars
<1>27. ASSUME NEW d \in Devices, CancelRead(d) PROVE ExitInv'
  BY <1>27 DEF CancelRead, busVars, serviceVars, accVars, loopVars
<1>28. ASSUME NEW d \in Devices, Reap(d) PROVE ExitInv'
  BY <1>28 DEF Reap, busVars, serviceVars, accVars, loopVars
<1>29. ASSUME NEW d \in Devices, Continue(d) PROVE ExitInv'
  BY <1>29, MoreAssumption DEF Continue, Unseen, busVars, serviceVars, accVars, loopVars
<1>. QED
  BY <1>1, <1>2, <1>3, <1>4, <1>5, <1>6, <1>7, <1>8, <1>9, <1>10, <1>11, <1>12, <1>13, <1>14, <1>15, <1>16, <1>17, <1>18, <1>19, <1>20, <1>21, <1>22, <1>23, <1>24, <1>25, <1>26, <1>27, <1>28, <1>29
     DEF Next, Coroutines, Accepting, Reading, Leaving, Handling, Reaping, Stopping

\* The locals follow the place.
LEMMA HeldKept ==
    ASSUME TypeOK, HeldInv, StoredInv, Next
    PROVE  HeldInv'
<1>. USE DEF HeldInv, StoredInv, TypeOK, Go, Drop, Present, Polling
<1>1. CASE StartAccepting
  BY <1>1 DEF StartAccepting, busVars, serviceVars, accVars, loopVars
<1>2. CASE Accept
  BY <1>2 DEF Accept, busVars, serviceVars, accVars, loopVars
<1>3. CASE Accepted
  BY <1>3 DEF Accepted, busVars, serviceVars, accVars, loopVars
<1>4. CASE StopAccepting
  BY <1>4 DEF StopAccepting, busVars, serviceVars, accVars, loopVars
<1>5. CASE Join
  BY <1>5 DEF Join, busVars, serviceVars, accVars, loopVars
<1>6. CASE Shutdown
  BY <1>6 DEF Shutdown, busVars, serviceVars, accVars, loopVars
<1>7. CASE HandlerExits
  BY <1>7 DEF HandlerExits, busVars, serviceVars, accVars, loopVars
<1>8. CASE RequestStop
  BY <1>8 DEF RequestStop, busVars, serviceVars, accVars, loopVars
<1>9. CASE CancelAccept
  BY <1>9 DEF CancelAccept, busVars, serviceVars, accVars, loopVars
<1>10. ASSUME NEW c, Forget(c) PROVE HeldInv'
  BY <1>10 DEF Forget, busVars, serviceVars, accVars, loopVars
<1>11. ASSUME NEW d \in Devices, Open(d) PROVE HeldInv'
  BY <1>11 DEF Open, busVars, serviceVars, accVars, loopVars
<1>12. ASSUME NEW d \in Devices, Detach(d) PROVE HeldInv'
  BY <1>12 DEF Detach, busVars, serviceVars, accVars, loopVars
<1>13. ASSUME NEW d \in Devices, Claim(d) PROVE HeldInv'
  BY <1>13 DEF Claim, busVars, serviceVars, accVars, loopVars
<1>14. ASSUME NEW d \in Devices, Prepare(d) PROVE HeldInv'
  BY <1>14 DEF Prepare, busVars, serviceVars, accVars, loopVars
<1>15. ASSUME NEW d \in Devices, Check(d) PROVE HeldInv'
  BY <1>15 DEF Check, busVars, serviceVars, accVars, loopVars
<1>16. ASSUME NEW d \in Devices, Submit(d) PROVE HeldInv'
  BY <1>16, MoreAssumption DEF Submit, Unseen, busVars, serviceVars, accVars, loopVars
<1>17. ASSUME NEW d \in Devices, Resume(d) PROVE HeldInv'
  BY <1>17 DEF Resume, busVars, serviceVars, accVars, loopVars
<1>18. ASSUME NEW d \in Devices, DestroyAdapter(d) PROVE HeldInv'
  BY <1>18 DEF DestroyAdapter, busVars, serviceVars, accVars, loopVars
<1>19. ASSUME NEW d \in Devices, ReleaseInterface(d) PROVE HeldInv'
  BY <1>19 DEF ReleaseInterface, busVars, serviceVars, accVars, loopVars
<1>20. ASSUME NEW d \in Devices, AttachDriver(d) PROVE HeldInv'
  BY <1>20 DEF AttachDriver, busVars, serviceVars, accVars, loopVars
<1>21. ASSUME NEW d \in Devices, CloseHandle(d) PROVE HeldInv'
  BY <1>21 DEF CloseHandle, busVars, serviceVars, accVars, loopVars
<1>22. ASSUME NEW d \in Devices, Plug(d) PROVE HeldInv'
  BY <1>22 DEF Plug, busVars, serviceVars, accVars, loopVars
<1>23. ASSUME NEW d \in Devices, Unplug(d) PROVE HeldInv'
  BY <1>23 DEF Unplug, busVars, serviceVars, accVars, loopVars
<1>24. ASSUME NEW d \in Devices, Arrive(d) PROVE HeldInv'
  BY <1>24 DEF Arrive, busVars, serviceVars, accVars, loopVars
<1>25. ASSUME NEW d \in Devices, Leave(d) PROVE HeldInv'
  BY <1>25 DEF Leave, busVars, serviceVars, accVars, loopVars
<1>26. ASSUME NEW d \in Devices, Complete(d) PROVE HeldInv'
  BY <1>26 DEF Complete, busVars, serviceVars, accVars, loopVars
<1>27. ASSUME NEW d \in Devices, CancelRead(d) PROVE HeldInv'
  BY <1>27 DEF CancelRead, busVars, serviceVars, accVars, loopVars
<1>28. ASSUME NEW d \in Devices, Reap(d) PROVE HeldInv'
  BY <1>28 DEF Reap, busVars, serviceVars, accVars, loopVars
<1>29. ASSUME NEW d \in Devices, Continue(d) PROVE HeldInv'
  BY <1>29, MoreAssumption DEF Continue, Unseen, busVars, serviceVars, accVars, loopVars
<1>. QED
  BY <1>1, <1>2, <1>3, <1>4, <1>5, <1>6, <1>7, <1>8, <1>9, <1>10, <1>11, <1>12, <1>13, <1>14, <1>15, <1>16, <1>17, <1>18, <1>19, <1>20, <1>21, <1>22, <1>23, <1>24, <1>25, <1>26, <1>27, <1>28, <1>29
     DEF Next, Coroutines, Accepting, Reading, Leaving, Handling, Reaping, Stopping

\* A driver is given back or its device has left.
LEMMA DriverKept ==
    ASSUME TypeOK, HeldInv, DriverInv, Next
    PROVE  DriverInv'
<1>. USE DEF HeldInv, DriverInv, TypeOK, Go, Drop, Present, Polling
<1>1. CASE StartAccepting
  BY <1>1 DEF StartAccepting, busVars, serviceVars, accVars, loopVars
<1>2. CASE Accept
  BY <1>2 DEF Accept, busVars, serviceVars, accVars, loopVars
<1>3. CASE Accepted
  BY <1>3 DEF Accepted, busVars, serviceVars, accVars, loopVars
<1>4. CASE StopAccepting
  BY <1>4 DEF StopAccepting, busVars, serviceVars, accVars, loopVars
<1>5. CASE Join
  BY <1>5 DEF Join, busVars, serviceVars, accVars, loopVars
<1>6. CASE Shutdown
  BY <1>6 DEF Shutdown, busVars, serviceVars, accVars, loopVars
<1>7. CASE HandlerExits
  BY <1>7 DEF HandlerExits, busVars, serviceVars, accVars, loopVars
<1>8. CASE RequestStop
  BY <1>8 DEF RequestStop, busVars, serviceVars, accVars, loopVars
<1>9. CASE CancelAccept
  BY <1>9 DEF CancelAccept, busVars, serviceVars, accVars, loopVars
<1>10. ASSUME NEW c, Forget(c) PROVE DriverInv'
  BY <1>10 DEF Forget, busVars, serviceVars, accVars, loopVars
<1>11. ASSUME NEW d \in Devices, Open(d) PROVE DriverInv'
  BY <1>11 DEF Open, busVars, serviceVars, accVars, loopVars
<1>12. ASSUME NEW d \in Devices, Detach(d) PROVE DriverInv'
  BY <1>12 DEF Detach, busVars, serviceVars, accVars, loopVars
<1>13. ASSUME NEW d \in Devices, Claim(d) PROVE DriverInv'
  BY <1>13 DEF Claim, busVars, serviceVars, accVars, loopVars
<1>14. ASSUME NEW d \in Devices, Prepare(d) PROVE DriverInv'
  BY <1>14 DEF Prepare, busVars, serviceVars, accVars, loopVars
<1>15. ASSUME NEW d \in Devices, Check(d) PROVE DriverInv'
  BY <1>15 DEF Check, busVars, serviceVars, accVars, loopVars
<1>16. ASSUME NEW d \in Devices, Submit(d) PROVE DriverInv'
  BY <1>16, MoreAssumption DEF Submit, Unseen, busVars, serviceVars, accVars, loopVars
<1>17. ASSUME NEW d \in Devices, Resume(d) PROVE DriverInv'
  BY <1>17 DEF Resume, busVars, serviceVars, accVars, loopVars
<1>18. ASSUME NEW d \in Devices, DestroyAdapter(d) PROVE DriverInv'
  BY <1>18 DEF DestroyAdapter, busVars, serviceVars, accVars, loopVars
<1>19. ASSUME NEW d \in Devices, ReleaseInterface(d) PROVE DriverInv'
  BY <1>19 DEF ReleaseInterface, busVars, serviceVars, accVars, loopVars
<1>20. ASSUME NEW d \in Devices, AttachDriver(d) PROVE DriverInv'
  BY <1>20 DEF AttachDriver, busVars, serviceVars, accVars, loopVars
<1>21. ASSUME NEW d \in Devices, CloseHandle(d) PROVE DriverInv'
  BY <1>21 DEF CloseHandle, busVars, serviceVars, accVars, loopVars
<1>22. ASSUME NEW d \in Devices, Plug(d) PROVE DriverInv'
  BY <1>22 DEF Plug, busVars, serviceVars, accVars, loopVars
<1>23. ASSUME NEW d \in Devices, Unplug(d) PROVE DriverInv'
  BY <1>23 DEF Unplug, busVars, serviceVars, accVars, loopVars
<1>24. ASSUME NEW d \in Devices, Arrive(d) PROVE DriverInv'
  BY <1>24 DEF Arrive, busVars, serviceVars, accVars, loopVars
<1>25. ASSUME NEW d \in Devices, Leave(d) PROVE DriverInv'
  BY <1>25 DEF Leave, busVars, serviceVars, accVars, loopVars
<1>26. ASSUME NEW d \in Devices, Complete(d) PROVE DriverInv'
  BY <1>26 DEF Complete, busVars, serviceVars, accVars, loopVars
<1>27. ASSUME NEW d \in Devices, CancelRead(d) PROVE DriverInv'
  BY <1>27 DEF CancelRead, busVars, serviceVars, accVars, loopVars
<1>28. ASSUME NEW d \in Devices, Reap(d) PROVE DriverInv'
  BY <1>28 DEF Reap, busVars, serviceVars, accVars, loopVars
<1>29. ASSUME NEW d \in Devices, Continue(d) PROVE DriverInv'
  BY <1>29, MoreAssumption DEF Continue, Unseen, busVars, serviceVars, accVars, loopVars
<1>. QED
  BY <1>1, <1>2, <1>3, <1>4, <1>5, <1>6, <1>7, <1>8, <1>9, <1>10, <1>11, <1>12, <1>13, <1>14, <1>15, <1>16, <1>17, <1>18, <1>19, <1>20, <1>21, <1>22, <1>23, <1>24, <1>25, <1>26, <1>27, <1>28, <1>29
     DEF Next, Coroutines, Accepting, Reading, Leaving, Handling, Reaping, Stopping

\* A device gets one dev_loop.
LEMMA StoredKept ==
    ASSUME TypeOK, StoredInv, Next
    PROVE  StoredInv'
<1>. USE DEF StoredInv, TypeOK, Go, Drop, Present, Polling
<1>1. CASE StartAccepting
  BY <1>1 DEF StartAccepting, busVars, serviceVars, accVars, loopVars
<1>2. CASE Accept
  BY <1>2 DEF Accept, busVars, serviceVars, accVars, loopVars
<1>3. CASE Accepted
  BY <1>3 DEF Accepted, busVars, serviceVars, accVars, loopVars
<1>4. CASE StopAccepting
  BY <1>4 DEF StopAccepting, busVars, serviceVars, accVars, loopVars
<1>5. CASE Join
  BY <1>5 DEF Join, busVars, serviceVars, accVars, loopVars
<1>6. CASE Shutdown
  BY <1>6 DEF Shutdown, busVars, serviceVars, accVars, loopVars
<1>7. CASE HandlerExits
  BY <1>7 DEF HandlerExits, busVars, serviceVars, accVars, loopVars
<1>8. CASE RequestStop
  BY <1>8 DEF RequestStop, busVars, serviceVars, accVars, loopVars
<1>9. CASE CancelAccept
  BY <1>9 DEF CancelAccept, busVars, serviceVars, accVars, loopVars
<1>10. ASSUME NEW c, Forget(c) PROVE StoredInv'
  BY <1>10 DEF Forget, busVars, serviceVars, accVars, loopVars
<1>11. ASSUME NEW d \in Devices, Open(d) PROVE StoredInv'
  BY <1>11 DEF Open, busVars, serviceVars, accVars, loopVars
<1>12. ASSUME NEW d \in Devices, Detach(d) PROVE StoredInv'
  BY <1>12 DEF Detach, busVars, serviceVars, accVars, loopVars
<1>13. ASSUME NEW d \in Devices, Claim(d) PROVE StoredInv'
  BY <1>13 DEF Claim, busVars, serviceVars, accVars, loopVars
<1>14. ASSUME NEW d \in Devices, Prepare(d) PROVE StoredInv'
  BY <1>14 DEF Prepare, busVars, serviceVars, accVars, loopVars
<1>15. ASSUME NEW d \in Devices, Check(d) PROVE StoredInv'
  BY <1>15 DEF Check, busVars, serviceVars, accVars, loopVars
<1>16. ASSUME NEW d \in Devices, Submit(d) PROVE StoredInv'
  BY <1>16, MoreAssumption DEF Submit, Unseen, busVars, serviceVars, accVars, loopVars
<1>17. ASSUME NEW d \in Devices, Resume(d) PROVE StoredInv'
  BY <1>17 DEF Resume, busVars, serviceVars, accVars, loopVars
<1>18. ASSUME NEW d \in Devices, DestroyAdapter(d) PROVE StoredInv'
  BY <1>18 DEF DestroyAdapter, busVars, serviceVars, accVars, loopVars
<1>19. ASSUME NEW d \in Devices, ReleaseInterface(d) PROVE StoredInv'
  BY <1>19 DEF ReleaseInterface, busVars, serviceVars, accVars, loopVars
<1>20. ASSUME NEW d \in Devices, AttachDriver(d) PROVE StoredInv'
  BY <1>20 DEF AttachDriver, busVars, serviceVars, accVars, loopVars
<1>21. ASSUME NEW d \in Devices, CloseHandle(d) PROVE StoredInv'
  BY <1>21 DEF CloseHandle, busVars, serviceVars, accVars, loopVars
<1>22. ASSUME NEW d \in Devices, Plug(d) PROVE StoredInv'
  BY <1>22 DEF Plug, busVars, serviceVars, accVars, loopVars
<1>23. ASSUME NEW d \in Devices, Unplug(d) PROVE StoredInv'
  BY <1>23 DEF Unplug, busVars, serviceVars, accVars, loopVars
<1>24. ASSUME NEW d \in Devices, Arrive(d) PROVE StoredInv'
  BY <1>24 DEF Arrive, busVars, serviceVars, accVars, loopVars
<1>25. ASSUME NEW d \in Devices, Leave(d) PROVE StoredInv'
  BY <1>25 DEF Leave, busVars, serviceVars, accVars, loopVars
<1>26. ASSUME NEW d \in Devices, Complete(d) PROVE StoredInv'
  BY <1>26 DEF Complete, busVars, serviceVars, accVars, loopVars
<1>27. ASSUME NEW d \in Devices, CancelRead(d) PROVE StoredInv'
  BY <1>27 DEF CancelRead, busVars, serviceVars, accVars, loopVars
<1>28. ASSUME NEW d \in Devices, Reap(d) PROVE StoredInv'
  BY <1>28 DEF Reap, busVars, serviceVars, accVars, loopVars
<1>29. ASSUME NEW d \in Devices, Continue(d) PROVE StoredInv'
  BY <1>29, MoreAssumption DEF Continue, Unseen, busVars, serviceVars, accVars, loopVars
<1>. QED
  BY <1>1, <1>2, <1>3, <1>4, <1>5, <1>6, <1>7, <1>8, <1>9, <1>10, <1>11, <1>12, <1>13, <1>14, <1>15, <1>16, <1>17, <1>18, <1>19, <1>20, <1>21, <1>22, <1>23, <1>24, <1>25, <1>26, <1>27, <1>28, <1>29
     DEF Next, Coroutines, Accepting, Reading, Leaving, Handling, Reaping, Stopping

\* What has ended does not start again.
LEMMA MainKept ==
    ASSUME TypeOK, MainInv, Next
    PROVE  MainInv'
<1>. USE DEF MainInv, TypeOK, Go, Drop, Present, Polling
<1>1. CASE StartAccepting
  BY <1>1 DEF StartAccepting, busVars, serviceVars, accVars, loopVars
<1>2. CASE Accept
  BY <1>2 DEF Accept, busVars, serviceVars, accVars, loopVars
<1>3. CASE Accepted
  BY <1>3 DEF Accepted, busVars, serviceVars, accVars, loopVars
<1>4. CASE StopAccepting
  BY <1>4 DEF StopAccepting, busVars, serviceVars, accVars, loopVars
<1>5. CASE Join
  BY <1>5 DEF Join, busVars, serviceVars, accVars, loopVars
<1>6. CASE Shutdown
  BY <1>6 DEF Shutdown, busVars, serviceVars, accVars, loopVars
<1>7. CASE HandlerExits
  BY <1>7 DEF HandlerExits, busVars, serviceVars, accVars, loopVars
<1>8. CASE RequestStop
  BY <1>8 DEF RequestStop, busVars, serviceVars, accVars, loopVars
<1>9. CASE CancelAccept
  BY <1>9 DEF CancelAccept, busVars, serviceVars, accVars, loopVars
<1>10. ASSUME NEW c, Forget(c) PROVE MainInv'
  BY <1>10 DEF Forget, busVars, serviceVars, accVars, loopVars
<1>11. ASSUME NEW d \in Devices, Open(d) PROVE MainInv'
  BY <1>11 DEF Open, busVars, serviceVars, accVars, loopVars
<1>12. ASSUME NEW d \in Devices, Detach(d) PROVE MainInv'
  BY <1>12 DEF Detach, busVars, serviceVars, accVars, loopVars
<1>13. ASSUME NEW d \in Devices, Claim(d) PROVE MainInv'
  BY <1>13 DEF Claim, busVars, serviceVars, accVars, loopVars
<1>14. ASSUME NEW d \in Devices, Prepare(d) PROVE MainInv'
  BY <1>14 DEF Prepare, busVars, serviceVars, accVars, loopVars
<1>15. ASSUME NEW d \in Devices, Check(d) PROVE MainInv'
  BY <1>15 DEF Check, busVars, serviceVars, accVars, loopVars
<1>16. ASSUME NEW d \in Devices, Submit(d) PROVE MainInv'
  BY <1>16, MoreAssumption DEF Submit, Unseen, busVars, serviceVars, accVars, loopVars
<1>17. ASSUME NEW d \in Devices, Resume(d) PROVE MainInv'
  BY <1>17 DEF Resume, busVars, serviceVars, accVars, loopVars
<1>18. ASSUME NEW d \in Devices, DestroyAdapter(d) PROVE MainInv'
  BY <1>18 DEF DestroyAdapter, busVars, serviceVars, accVars, loopVars
<1>19. ASSUME NEW d \in Devices, ReleaseInterface(d) PROVE MainInv'
  BY <1>19 DEF ReleaseInterface, busVars, serviceVars, accVars, loopVars
<1>20. ASSUME NEW d \in Devices, AttachDriver(d) PROVE MainInv'
  BY <1>20 DEF AttachDriver, busVars, serviceVars, accVars, loopVars
<1>21. ASSUME NEW d \in Devices, CloseHandle(d) PROVE MainInv'
  BY <1>21 DEF CloseHandle, busVars, serviceVars, accVars, loopVars
<1>22. ASSUME NEW d \in Devices, Plug(d) PROVE MainInv'
  BY <1>22 DEF Plug, busVars, serviceVars, accVars, loopVars
<1>23. ASSUME NEW d \in Devices, Unplug(d) PROVE MainInv'
  BY <1>23 DEF Unplug, busVars, serviceVars, accVars, loopVars
<1>24. ASSUME NEW d \in Devices, Arrive(d) PROVE MainInv'
  BY <1>24 DEF Arrive, busVars, serviceVars, accVars, loopVars
<1>25. ASSUME NEW d \in Devices, Leave(d) PROVE MainInv'
  BY <1>25 DEF Leave, busVars, serviceVars, accVars, loopVars
<1>26. ASSUME NEW d \in Devices, Complete(d) PROVE MainInv'
  BY <1>26 DEF Complete, busVars, serviceVars, accVars, loopVars
<1>27. ASSUME NEW d \in Devices, CancelRead(d) PROVE MainInv'
  BY <1>27 DEF CancelRead, busVars, serviceVars, accVars, loopVars
<1>28. ASSUME NEW d \in Devices, Reap(d) PROVE MainInv'
  BY <1>28 DEF Reap, busVars, serviceVars, accVars, loopVars
<1>29. ASSUME NEW d \in Devices, Continue(d) PROVE MainInv'
  BY <1>29, MoreAssumption DEF Continue, Unseen, busVars, serviceVars, accVars, loopVars
<1>. QED
  BY <1>1, <1>2, <1>3, <1>4, <1>5, <1>6, <1>7, <1>8, <1>9, <1>10, <1>11, <1>12, <1>13, <1>14, <1>15, <1>16, <1>17, <1>18, <1>19, <1>20, <1>21, <1>22, <1>23, <1>24, <1>25, <1>26, <1>27, <1>28, <1>29
     DEF Next, Coroutines, Accepting, Reading, Leaving, Handling, Reaping, Stopping

\* The callback that request_stop() has yet to run is not forgotten.
LEMMA ReachKept ==
    ASSUME TypeOK, ReachInv, Next
    PROVE  ReachInv'
<1>. USE AcceptorAssumption DEF ReachInv, TypeOK, Go, Drop
<1>1. CASE StartAccepting
  BY <1>1 DEF StartAccepting, busVars, serviceVars, accVars, loopVars
<1>2. CASE Accept
  BY <1>2 DEF Accept, busVars, serviceVars, accVars, loopVars
<1>3. CASE Accepted
  BY <1>3 DEF Accepted, busVars, serviceVars, accVars, loopVars
<1>4. CASE StopAccepting
  BY <1>4 DEF StopAccepting, busVars, serviceVars, accVars, loopVars
<1>5. CASE Join
  BY <1>5 DEF Join, busVars, serviceVars, accVars, loopVars
<1>6. CASE Shutdown
  BY <1>6 DEF Shutdown, busVars, serviceVars, accVars, loopVars
<1>7. CASE HandlerExits
  BY <1>7 DEF HandlerExits, busVars, serviceVars, accVars, loopVars
<1>8. CASE RequestStop
  BY <1>8 DEF RequestStop, Registered, busVars, serviceVars, accVars, loopVars
<1>9. CASE CancelAccept
  BY <1>9 DEF CancelAccept, busVars, serviceVars, accVars, loopVars
<1>10. ASSUME NEW c, Forget(c) PROVE ReachInv'
  BY <1>10 DEF Forget, Registered, busVars, serviceVars, accVars, loopVars
<1>11. ASSUME NEW d \in Devices, Open(d) PROVE ReachInv'
  BY <1>11 DEF Open, busVars, serviceVars, accVars, loopVars
<1>12. ASSUME NEW d \in Devices, Detach(d) PROVE ReachInv'
  BY <1>12 DEF Detach, busVars, serviceVars, accVars, loopVars
<1>13. ASSUME NEW d \in Devices, Claim(d) PROVE ReachInv'
  BY <1>13 DEF Claim, busVars, serviceVars, accVars, loopVars
<1>14. ASSUME NEW d \in Devices, Prepare(d) PROVE ReachInv'
  BY <1>14 DEF Prepare, busVars, serviceVars, accVars, loopVars
<1>15. ASSUME NEW d \in Devices, Check(d) PROVE ReachInv'
  BY <1>15 DEF Check, busVars, serviceVars, accVars, loopVars
<1>16. ASSUME NEW d \in Devices, Submit(d) PROVE ReachInv'
  BY <1>16, MoreAssumption DEF Submit, Unseen, busVars, serviceVars, accVars, loopVars
<1>17. ASSUME NEW d \in Devices, Resume(d) PROVE ReachInv'
  BY <1>17 DEF Resume, busVars, serviceVars, accVars, loopVars
<1>18. ASSUME NEW d \in Devices, DestroyAdapter(d) PROVE ReachInv'
  BY <1>18 DEF DestroyAdapter, busVars, serviceVars, accVars, loopVars
<1>19. ASSUME NEW d \in Devices, ReleaseInterface(d) PROVE ReachInv'
  BY <1>19 DEF ReleaseInterface, busVars, serviceVars, accVars, loopVars
<1>20. ASSUME NEW d \in Devices, AttachDriver(d) PROVE ReachInv'
  BY <1>20 DEF AttachDriver, busVars, serviceVars, accVars, loopVars
<1>21. ASSUME NEW d \in Devices, CloseHandle(d) PROVE ReachInv'
  BY <1>21 DEF CloseHandle, busVars, serviceVars, accVars, loopVars
<1>22. ASSUME NEW d \in Devices, Plug(d) PROVE ReachInv'
  BY <1>22 DEF Plug, busVars, serviceVars, accVars, loopVars
<1>23. ASSUME NEW d \in Devices, Unplug(d) PROVE ReachInv'
  BY <1>23 DEF Unplug, busVars, serviceVars, accVars, loopVars
<1>24. ASSUME NEW d \in Devices, Arrive(d) PROVE ReachInv'
  BY <1>24 DEF Arrive, busVars, serviceVars, accVars, loopVars
<1>25. ASSUME NEW d \in Devices, Leave(d) PROVE ReachInv'
  BY <1>25 DEF Leave, busVars, serviceVars, accVars, loopVars
<1>26. ASSUME NEW d \in Devices, Complete(d) PROVE ReachInv'
  BY <1>26 DEF Complete, busVars, serviceVars, accVars, loopVars
<1>27. ASSUME NEW d \in Devices, CancelRead(d) PROVE ReachInv'
  BY <1>27 DEF CancelRead, Registered, busVars, serviceVars, accVars, loopVars
<1>28. ASSUME NEW d \in Devices, Reap(d) PROVE ReachInv'
  BY <1>28 DEF Reap, busVars, serviceVars, accVars, loopVars
<1>29. ASSUME NEW d \in Devices, Continue(d) PROVE ReachInv'
  BY <1>29, MoreAssumption DEF Continue, Unseen, busVars, serviceVars, accVars, loopVars
<1>. QED
  BY <1>1, <1>2, <1>3, <1>4, <1>5, <1>6, <1>7, <1>8, <1>9, <1>10, <1>11, <1>12, <1>13, <1>14, <1>15, <1>16, <1>17, <1>18, <1>19, <1>20, <1>21, <1>22, <1>23, <1>24, <1>25, <1>26, <1>27, <1>28, <1>29
     DEF Next, Coroutines, Accepting, Reading, Leaving, Handling, Reaping, Stopping

\* A reference is given back before its holder ends.
LEMMA HoldersKept ==
    ASSUME TypeOK, HoldersInv, StoredInv, Next
    PROVE  HoldersInv'
<1>. USE AcceptorAssumption DEF HoldersInv, StoredInv, TypeOK, Go, Drop
<1>1. CASE StartAccepting
  BY <1>1 DEF StartAccepting, busVars, serviceVars, accVars, loopVars
<1>2. CASE Accept
  BY <1>2 DEF Accept, busVars, serviceVars, accVars, loopVars
<1>3. CASE Accepted
  BY <1>3 DEF Accepted, busVars, serviceVars, accVars, loopVars
<1>4. CASE StopAccepting
  BY <1>4 DEF StopAccepting, busVars, serviceVars, accVars, loopVars
<1>5. CASE Join
  BY <1>5 DEF Join, busVars, serviceVars, accVars, loopVars
<1>6. CASE Shutdown
  BY <1>6 DEF Shutdown, busVars, serviceVars, accVars, loopVars
<1>7. CASE HandlerExits
  BY <1>7 DEF HandlerExits, busVars, serviceVars, accVars, loopVars
<1>8. CASE RequestStop
  BY <1>8 DEF RequestStop, busVars, serviceVars, accVars, loopVars
<1>9. CASE CancelAccept
  BY <1>9 DEF CancelAccept, busVars, serviceVars, accVars, loopVars
<1>10. ASSUME NEW c, Forget(c) PROVE HoldersInv'
  BY <1>10 DEF Forget, busVars, serviceVars, accVars, loopVars
<1>11. ASSUME NEW d \in Devices, Open(d) PROVE HoldersInv'
  BY <1>11 DEF Open, busVars, serviceVars, accVars, loopVars
<1>12. ASSUME NEW d \in Devices, Detach(d) PROVE HoldersInv'
  BY <1>12 DEF Detach, busVars, serviceVars, accVars, loopVars
<1>13. ASSUME NEW d \in Devices, Claim(d) PROVE HoldersInv'
  BY <1>13 DEF Claim, busVars, serviceVars, accVars, loopVars
<1>14. ASSUME NEW d \in Devices, Prepare(d) PROVE HoldersInv'
  BY <1>14 DEF Prepare, busVars, serviceVars, accVars, loopVars
<1>15. ASSUME NEW d \in Devices, Check(d) PROVE HoldersInv'
  BY <1>15 DEF Check, busVars, serviceVars, accVars, loopVars
<1>16. ASSUME NEW d \in Devices, Submit(d) PROVE HoldersInv'
  BY <1>16, MoreAssumption DEF Submit, Unseen, busVars, serviceVars, accVars, loopVars
<1>17. ASSUME NEW d \in Devices, Resume(d) PROVE HoldersInv'
  BY <1>17 DEF Resume, busVars, serviceVars, accVars, loopVars
<1>18. ASSUME NEW d \in Devices, DestroyAdapter(d) PROVE HoldersInv'
  BY <1>18 DEF DestroyAdapter, busVars, serviceVars, accVars, loopVars
<1>19. ASSUME NEW d \in Devices, ReleaseInterface(d) PROVE HoldersInv'
  BY <1>19 DEF ReleaseInterface, busVars, serviceVars, accVars, loopVars
<1>20. ASSUME NEW d \in Devices, AttachDriver(d) PROVE HoldersInv'
  BY <1>20 DEF AttachDriver, busVars, serviceVars, accVars, loopVars
<1>21. ASSUME NEW d \in Devices, CloseHandle(d) PROVE HoldersInv'
  BY <1>21 DEF CloseHandle, busVars, serviceVars, accVars, loopVars
<1>22. ASSUME NEW d \in Devices, Plug(d) PROVE HoldersInv'
  BY <1>22 DEF Plug, busVars, serviceVars, accVars, loopVars
<1>23. ASSUME NEW d \in Devices, Unplug(d) PROVE HoldersInv'
  BY <1>23 DEF Unplug, busVars, serviceVars, accVars, loopVars
<1>24. ASSUME NEW d \in Devices, Arrive(d) PROVE HoldersInv'
  BY <1>24 DEF Arrive, busVars, serviceVars, accVars, loopVars
<1>25. ASSUME NEW d \in Devices, Leave(d) PROVE HoldersInv'
  BY <1>25 DEF Leave, busVars, serviceVars, accVars, loopVars
<1>26. ASSUME NEW d \in Devices, Complete(d) PROVE HoldersInv'
  BY <1>26 DEF Complete, busVars, serviceVars, accVars, loopVars
<1>27. ASSUME NEW d \in Devices, CancelRead(d) PROVE HoldersInv'
  BY <1>27 DEF CancelRead, busVars, serviceVars, accVars, loopVars
<1>28. ASSUME NEW d \in Devices, Reap(d) PROVE HoldersInv'
  BY <1>28 DEF Reap, busVars, serviceVars, accVars, loopVars
<1>29. ASSUME NEW d \in Devices, Continue(d) PROVE HoldersInv'
  BY <1>29, MoreAssumption DEF Continue, Unseen, busVars, serviceVars, accVars, loopVars
<1>. QED
  BY <1>1, <1>2, <1>3, <1>4, <1>5, <1>6, <1>7, <1>8, <1>9, <1>10, <1>11, <1>12, <1>13, <1>14, <1>15, <1>16, <1>17, <1>18, <1>19, <1>20, <1>21, <1>22, <1>23, <1>24, <1>25, <1>26, <1>27, <1>28, <1>29
     DEF Next, Coroutines, Accepting, Reading, Leaving, Handling, Reaping, Stopping

-----------------------------------------------------------------------------
(* After the stop                                                          *)

\* The numbers behind the names.
LEMMA PlaceValues ==
    /\ Place["none"] = 15 /\ Place["start"] = 14 /\ Place["opened"] = 13
    /\ Place["guarded"] = 12 /\ Place["claimed"] = 11 /\ Place["submitting"] = 10
    /\ Place["reading"] = 9 /\ Place["callback"] = 8 /\ Place["answered"] = 7
    /\ Place["checking"] = 6 /\ Place["leaving"] = 1 /\ Place["hung"] = 0
    /\ Place["ended"] = 0
BY DEF Place

\* Each step after the stop lowers what some part has left, and raises nothing.
LEMMA StepWindsDown ==
    ASSUME IInv, stop, Next
    PROVE  WindsDown
<1>. USE PlaceValues, MoreAssumption, AcceptorAssumption, NoneAssumption DEF IInv, TypeOK, Places, HeldInv, StoredInv, WindsDown, LoopLeft, AheadOf, Handed, ToUnwind, BusLeft, AcceptLeft, MainLeft, Go, Drop, Present, Polling
<1>1. CASE StartAccepting
  <2>1. /\ acc = "start" /\ acc' = "checking" /\ stored = {}
        /\ \A d \in Devices : loop[d] = "none" /\ (d \in stored' => bus[d] = "present")
    BY <1>1 DEF StartAccepting
  <2>2. UNCHANGED <<bus, loop, more, held, got, main, calls, thread>>
    BY <1>1 DEF StartAccepting, busVars, loopVars
  <2>3. \A d \in Devices : LoopLeft(d) >= LoopLeft(d)'
    BY <2>1, <2>2
  <2>. QED
    BY <2>1, <2>2, <2>3
<1>2. CASE Accept
  BY <1>2 DEF Accept, busVars, serviceVars, accVars, loopVars
<1>3. CASE Accepted
  BY <1>3 DEF Accepted, busVars, serviceVars, accVars, loopVars
<1>4. CASE StopAccepting
  BY <1>4 DEF StopAccepting, busVars, serviceVars, accVars, loopVars
<1>5. CASE Join
  BY <1>5 DEF Join, busVars, serviceVars, accVars, loopVars
<1>6. CASE Shutdown
  BY <1>6 DEF Shutdown, busVars, serviceVars, accVars, loopVars
<1>7. CASE HandlerExits
  BY <1>7 DEF HandlerExits, busVars, serviceVars, accVars, loopVars
<1>8. CASE RequestStop
  BY <1>8 DEF RequestStop, busVars, serviceVars, accVars, loopVars
<1>9. CASE CancelAccept
  BY <1>9 DEF CancelAccept, busVars, serviceVars, accVars, loopVars
<1>10. ASSUME NEW c \in Devices \cup {Acceptor}, Forget(c) PROVE WindsDown
  BY <1>10 DEF Forget, busVars, serviceVars, accVars, loopVars
<1>11. ASSUME NEW d \in Devices, Open(d) PROVE WindsDown
  BY <1>11 DEF Open, busVars, serviceVars, accVars, loopVars
<1>12. ASSUME NEW d \in Devices, Detach(d) PROVE WindsDown
  BY <1>12 DEF Detach, busVars, serviceVars, accVars, loopVars
<1>13. ASSUME NEW d \in Devices, Claim(d) PROVE WindsDown
  BY <1>13 DEF Claim, busVars, serviceVars, accVars, loopVars
<1>14. ASSUME NEW d \in Devices, Prepare(d) PROVE WindsDown
  BY <1>14 DEF Prepare, busVars, serviceVars, accVars, loopVars
<1>15. ASSUME NEW d \in Devices, Check(d) PROVE WindsDown
  BY <1>15 DEF Check, busVars, serviceVars, accVars, loopVars
<1>16. ASSUME NEW d \in Devices, Submit(d) PROVE WindsDown
  BY <1>16, MoreAssumption DEF Submit, Unseen, busVars, serviceVars, accVars, loopVars
<1>17. ASSUME NEW d \in Devices, Resume(d) PROVE WindsDown
  BY <1>17 DEF Resume, busVars, serviceVars, accVars, loopVars
<1>18. ASSUME NEW d \in Devices, DestroyAdapter(d) PROVE WindsDown
  BY <1>18 DEF DestroyAdapter, busVars, serviceVars, accVars, loopVars
<1>19. ASSUME NEW d \in Devices, ReleaseInterface(d) PROVE WindsDown
  BY <1>19 DEF ReleaseInterface, busVars, serviceVars, accVars, loopVars
<1>20. ASSUME NEW d \in Devices, AttachDriver(d) PROVE WindsDown
  BY <1>20 DEF AttachDriver, busVars, serviceVars, accVars, loopVars
<1>21. ASSUME NEW d \in Devices, CloseHandle(d) PROVE WindsDown
  BY <1>21 DEF CloseHandle, busVars, serviceVars, accVars, loopVars
<1>22. ASSUME NEW d \in Devices, Plug(d) PROVE WindsDown
  BY <1>22 DEF Plug, busVars, serviceVars, accVars, loopVars
<1>23. ASSUME NEW d \in Devices, Unplug(d) PROVE WindsDown
  BY <1>23 DEF Unplug, busVars, serviceVars, accVars, loopVars
<1>24. ASSUME NEW d \in Devices, Arrive(d) PROVE WindsDown
  <2>1. /\ loop[d] = "none" /\ ~Handed(d) /\ bus[d] = "present" /\ Handed(d)'
        /\ acc # "ended" /\ acc' # "ended"
        /\ AcceptLeft >= AcceptLeft'
        /\ \A e \in Devices \ {d} : Handed(e)' = Handed(e)
    <3>1. CASE acc = "waiting"
      BY <1>24, <3>1 DEF Arrive
    <3>2. CASE acc # "waiting"
      BY <1>24, <3>2 DEF Arrive
    <3>. QED
      BY <3>1, <3>2
  <2>2. UNCHANGED <<bus, loop, more, held, refs, main, calls, thread>>
    BY <1>24 DEF Arrive, busVars, serviceVars, loopVars
  <2>. HIDE DEF Handed
  <2>3. LoopLeft(d) = 17 + 2 * More /\ LoopLeft(d)' = 16 + 2 * More
    BY <2>1, <2>2
  <2>4. \A e \in Devices : LoopLeft(e) >= LoopLeft(e)'
    BY <2>1, <2>2, <2>3
  <2>. QED
    BY <2>1, <2>2, <2>3, <2>4
<1>25. ASSUME NEW d \in Devices, Leave(d) PROVE WindsDown
  <2>1. /\ loop[d] = "none" /\ bus[d] = "gone" /\ Handed(d) /\ ~Handed(d)' /\ acc # "ended"
        /\ \A e \in Devices \ {d} : Handed(e)' = Handed(e)
    BY <1>25 DEF Leave
  <2>2. UNCHANGED <<bus, loop, more, held, refs, main, calls, thread, acc>>
    BY <1>25 DEF Leave, busVars, serviceVars, loopVars
  <2>. HIDE DEF Handed
  <2>3. LoopLeft(d) = 16 + 2 * More /\ LoopLeft(d)' = 15 + 2 * More
    BY <2>1, <2>2
  <2>4. \A e \in Devices : LoopLeft(e) >= LoopLeft(e)'
    BY <2>1, <2>2, <2>3
  <2>. QED
    BY <2>1, <2>2, <2>3, <2>4
<1>26. ASSUME NEW d \in Devices, Complete(d) PROVE WindsDown
  BY <1>26 DEF Complete, busVars, serviceVars, accVars, loopVars
<1>27. ASSUME NEW d \in Devices, CancelRead(d) PROVE WindsDown
  BY <1>27 DEF CancelRead, busVars, serviceVars, accVars, loopVars
<1>28. ASSUME NEW d \in Devices, Reap(d) PROVE WindsDown
  BY <1>28 DEF Reap, busVars, serviceVars, accVars, loopVars
<1>29. ASSUME NEW d \in Devices, Continue(d) PROVE WindsDown
  BY <1>29, MoreAssumption DEF Continue, Unseen, busVars, serviceVars, accVars, loopVars
<1>. QED
  BY <1>1, <1>2, <1>3, <1>4, <1>5, <1>6, <1>7, <1>8, <1>9, <1>10, <1>11, <1>12, <1>13, <1>14, <1>15, <1>16, <1>17, <1>18, <1>19, <1>20, <1>21, <1>22, <1>23, <1>24, <1>25, <1>26, <1>27, <1>28, <1>29
     DEF Next, Coroutines, Accepting, Reading, Leaving, Handling, Reaping, Stopping

-----------------------------------------------------------------------------
(* Theorems                                                                *)

\* The program starts in the invariant.
LEMMA InitIInv == Init => IInv
<1>. SUFFICES ASSUME Init PROVE IInv
  OBVIOUS
<1>. USE DEF Init
<1>1. TypeOK
  BY DEF TypeOK, Places
<1>2. RefsInv /\ ExitInv /\ HeldInv /\ DriverInv /\ StoredInv /\ MainInv
  BY DEF RefsInv, ExitInv, HeldInv, DriverInv, StoredInv, MainInv
<1>3. ReachInv /\ HoldersInv
  BY DEF ReachInv, HoldersInv
<1>. QED
  BY <1>1, <1>2, <1>3 DEF IInv

\* The invariant in every reachable state.
THEOREM ProgramInv == SafeSpec => []IInv
<1>1. IInv /\ [Next]_vars => IInv'
  <2>. SUFFICES ASSUME IInv, [Next]_vars PROVE IInv'
    OBVIOUS
  <2>1. CASE Next
    BY <2>1, TypeKept, RefsKept, ExitKept, HeldKept, DriverKept, StoredKept, MainKept,
       ReachKept, HoldersKept DEF IInv
  <2>2. CASE UNCHANGED vars
    BY <2>2 DEF IInv, TypeOK, RefsInv, ExitInv, HeldInv, DriverInv, StoredInv, MainInv,
                ReachInv, HoldersInv, vars, busVars, serviceVars, accVars, loopVars
  <2>. QED
    BY <2>1, <2>2
<1>. QED
  BY <1>1, InitIInv, PTL DEF SafeSpec

(***************************************************************************)
(* No read and no accept() waits for a handler whose thread has ended, for *)
(* any number of devices that come and go before, during and after a stop. *)
(***************************************************************************)
THEOREM PendingIsServedTheorem == SafeSpec => []PendingIsServed
<1>1. IInv => PendingIsServed
  BY DEF IInv, TypeOK, ExitInv, PendingIsServed
<1>. QED
  BY <1>1, ProgramInv, PTL

\* When main returns, no device is left without the driver that it came with.
THEOREM DriverRestoredTheorem == SafeSpec => []DriverRestored
<1>1. IInv => DriverRestored
  BY DEF IInv, TypeOK, HeldInv, DriverInv, MainInv, DriverRestored, Present
<1>. QED
  BY <1>1, ProgramInv, PTL

(***************************************************************************)
(* After the stop nothing starts over, in a program with any number of     *)
(* devices: with finitely many, it takes a bounded number of steps more.   *)
(***************************************************************************)
THEOREM StopWindsDownTheorem == SafeSpec => StopWindsDown
<1>1. IInv /\ [Next]_vars => [stop => WindsDown]_vars
  BY StepWindsDown
<1>. QED
  BY <1>1, ProgramInv, PTL DEF SafeSpec, StopWindsDown

(***************************************************************************)
(* And it does not stop half-way: unless the stop was missed, a read hangs *)
(* or the program crashed, there is a step to take until main has ended.   *)
(***************************************************************************)
THEOREM NobodyStuckTheorem == SafeSpec => []NobodyStuck
<1>1. IInv => NobodyStuck
  <2>. SUFFICES ASSUME IInv, stop, ~race, ~Hung, main # "ended",
                       calls = {}, acc \in {"waiting", "ended"},
                       \A d \in Devices : loop[d] \in {"none", "reading", "callback", "ended"},
                       ~(thread = "running" /\ \E d \in Devices :
                            loop[d] = "callback" \/ (loop[d] = "reading" /\ d \in cancelled)),
                       ~(thread = "running" /\ refs = {})
                PROVE  \/ /\ main = "joining" /\ acc = "ended"
                          /\ \A d \in Devices : loop[d] \in {"none", "ended"}
                       \/ main = "closing" /\ thread = "exited"
    BY DEF NobodyStuck, LoopEnds, Hung
  <2>1. acc = "ended"
    BY DEF IInv, ReachInv
  <2>2. ASSUME NEW d \in Devices, loop[d] \in {"reading", "callback"} PROVE FALSE
    <3>1. loop[d] = "callback" \/ d \in cancelled
      BY <2>2 DEF IInv, ReachInv
    <3>2. thread = "running"
      BY <2>2 DEF IInv, TypeOK, ExitInv
    <3>. QED
      BY <2>2, <3>1, <3>2
  <2>3. \A d \in Devices : loop[d] \in {"none", "ended"}
    BY <2>2
  <2>4. refs = {}
    BY <2>1, <2>3 DEF IInv, HoldersInv
  <2>5. thread = "exited"
    BY <2>4 DEF IInv, TypeOK
  <2>. QED
    BY <2>1, <2>3, <2>5 DEF IInv, TypeOK
<1>. QED
  BY <1>1, ProgramInv, PTL
=============================================================================
