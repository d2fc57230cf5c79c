------------------------ MODULE HandlerServiceProofs ------------------------
(***************************************************************************)
(* Safety of the handler service for every number of callers and every     *)
(* choice of handlers.                                                     *)
(***************************************************************************)
EXTENDS HandlerService, FiniteSetTheorems, TLAPS

\* Where callers are.
CallInv ==
    /\ \A c \in Callers : pc[c] = "ref" => op[c] = "get"
    /\ \A c \in Callers : op[c] = "get" /\ pc[c] # "idle" => c \notin held
    /\ \A c \in Callers : op[c] = "get" /\ pc[c] = "start" => kind # "none"
    /\ \A c \in Callers : pc[c] \in {"emplace", "replace", "fresh"} => usbCtx
    /\ \A c \in Callers : pc[c] = "join" /\ op[c] # "stop" => usbCtx
    /\ kind = "none" => thread = "none" /\ ~started
    /\ kind # "none" => usbCtx

\* Unless a start() failed, m_started is set once: the handler that was
\* started is the one that runs, and it was not referenced before.
RefInv ==
    "failure" \notin irregular =>
        /\ ~started => held = {} /\ counter = 0 /\ thread = "none"
        /\ \A c \in Callers : pc[c] = "ref" => started
        /\ covered # {} => thread = "running" /\ kind = "refcounted"
        /\ thread = "running" /\ kind = "refcounted" => counter = Cardinality(held)

Installing(c) == \/ pc[c] \in {"init", "emplace", "replace", "fresh"}
                 \/ pc[c] = "join" /\ op[c] # "stop"

\* An orderly set-up is done by one caller, before there is a handler.
OrderInv ==
    irregular = {} =>
        /\ \A c \in Callers : Installing(c) => kind = "none" /\ op[c] # "emplace"
        /\ \A c, d \in Callers : Installing(c) /\ Installing(d) => c = d
        /\ kind # "none" /\ ~started => \E c \in Callers : pc[c] = "start"
        /\ kind = "refcounted" => counter = Cardinality(held)
        /\ thread = "running" => threadCtx

IInv == TypeOK /\ CallInv /\ RefInv /\ OrderInv

-----------------------------------------------------------------------------
(* Counting                                                                *)

\* The holders are callers: there are fewer than m_counter counts.
LEMMA HeldCount ==
    ASSUME TypeOK
    PROVE  /\ IsFiniteSet(held) /\ Cardinality(held) \in Nat
           /\ Cardinality(held) < CounterMod
<1>1. held \subseteq Callers
  BY DEF TypeOK
<1>2. IsFiniteSet(held) /\ Cardinality(held) <= Cardinality(Callers)
  BY <1>1, CallersAssumption, FS_Subset
<1>3. Cardinality(held) \in Nat /\ Cardinality(Callers) \in Nat
  BY <1>2, CallersAssumption, FS_CardinalityType
<1>. QED
  BY <1>2, <1>3, CallersAssumption, CounterModAssumption

\* One more reference.
LEMMA CountUp ==
    ASSUME TypeOK, NEW c \in Callers, c \notin held
    PROVE  Cardinality(held \cup {c}) = (Cardinality(held) + 1) % CounterMod
<1>1. held \cup {c} \subseteq Callers
  BY DEF TypeOK
<1>2. Cardinality(held \cup {c}) <= Cardinality(Callers)
  BY <1>1, CallersAssumption, FS_Subset
<1>3. Cardinality(held \cup {c}) = Cardinality(held) + 1
  BY HeldCount, FS_AddElement
<1>4. Cardinality(Callers) \in Nat
  BY CallersAssumption, FS_CardinalityType
<1>. QED
  BY <1>2, <1>3, <1>4, HeldCount, CallersAssumption, CounterModAssumption

\* One reference less.
LEMMA CountDown ==
    ASSUME TypeOK, NEW c \in held
    PROVE  Cardinality(held \ {c}) = (Cardinality(held) + CounterMod - 1) % CounterMod
<1>1. Cardinality(held \ {c}) = Cardinality(held) - 1
  BY HeldCount, FS_RemoveElement
<1>2. Cardinality(held) # 0
  BY HeldCount, FS_EmptySet
<1>3. \A m \in Nat \ {0}, k \in Nat : k # 0 /\ k < m => (k + m - 1) % m = k - 1
  <2>. SUFFICES ASSUME NEW m \in Nat \ {0}, NEW k \in Nat, k # 0, k < m
                PROVE  (k + m - 1) % m = k - 1
    OBVIOUS
  <2>1. (k - 1) \in 0..m - 1 /\ k + m - 1 = 1 * m + (k - 1)
    OBVIOUS
  <2>. QED
    BY <2>1
<1>. QED
  BY <1>1, <1>2, <1>3, HeldCount, CounterModAssumption

-----------------------------------------------------------------------------
(* The inductive invariant                                                 *)

\* There is no handler, no holder and no caller at first.
LEMMA InitIInv == Init => IInv
<1>. SUFFICES ASSUME Init PROVE IInv
  OBVIOUS
<1>1. TypeOK
  <2>1. 0 \in 0..CounterMod - 1
    BY CounterModAssumption
  <2>2. /\ pc \in [Callers -> {"idle", "init", "emplace", "join", "replace",
                              "fresh", "start", "ref"}]
        /\ op \in [Callers -> {"none", "make", "get", "emplace", "stop"}]
        /\ want \in [Callers -> Kinds \cup {"refcounted"}]
    BY DEF Init
  <2>. QED
    BY <2>1, <2>2, Zenon DEF Init, TypeOK
<1>2. CallInv /\ RefInv
  BY DEF Init, CallInv, RefInv
<1>3. OrderInv
  BY FS_EmptySet DEF Init, OrderInv, Installing
<1>. QED
  BY <1>1, <1>2, <1>3 DEF IInv

\* A reference is taken after the start, by a caller that has none.
LEMMA TakeRefStep ==
    ASSUME IInv, NEW c \in Callers, TakeRef(c)
    PROVE  IInv'
<1>. USE DEF IInv, TakeRef, Goto, ctxVars
<1>1. TypeOK'
  BY CounterModAssumption DEF TypeOK, RefCount
<1>2. CallInv'
  BY DEF TypeOK, CallInv
<1>3. c \notin held
  BY DEF CallInv
<1>4. counter = Cardinality(held) /\ kind = "refcounted" => counter' = Cardinality(held')
  BY <1>3, CountUp DEF RefCount
<1>5. RefInv'
  BY <1>4 DEF TypeOK, RefInv
<1>6. OrderInv'
  BY <1>4 DEF TypeOK, OrderInv, Installing
<1>. QED
  BY <1>1, <1>2, <1>5, <1>6

\* A reference is given back by a caller that has one.
LEMMA DropRefStep ==
    ASSUME IInv, NEW c \in Callers, DropRef(c)
    PROVE  IInv'
<1>. USE DEF IInv
<1>1. TypeOK'
  BY CounterModAssumption DEF TypeOK, DropRef, UnrefCount, callerVars, ctxVars
<1>2. CallInv'
  BY DEF CallInv, DropRef, callerVars, ctxVars
<1>3. counter = Cardinality(held) /\ kind = "refcounted" => counter' = Cardinality(held')
  BY CountDown DEF DropRef, UnrefCount
<1>4. RefInv'
  BY <1>3 DEF TypeOK, RefInv, DropRef, callerVars
<1>5. OrderInv'
  BY <1>3 DEF OrderInv, Installing, DropRef, callerVars, ctxVars
<1>. QED
  BY <1>1, <1>2, <1>4, <1>5

(***************************************************************************)
(* A set-up that is none of the irregular ones begins with every caller    *)
(* idle; then a handler that exists was started, and there is none.        *)
(***************************************************************************)
LEMMA BeginInstallStep ==
    ASSUME IInv, NEW c \in Callers, NEW o \in {"make", "get", "emplace"},
           NEW k \in Kinds \cup {"refcounted"}, NEW l \in {"init", "emplace"},
           BeginInstall(c, o, k, l),
           o = "get" => l = "init" /\ c \notin held /\ ~started,
           l = "emplace" => kind # "none",
           o = "emplace" => kind # "none"
    PROVE  IInv'
<1>. USE DEF IInv
<1>. /\ pc[c] = "idle" /\ pc' = [pc EXCEPT ![c] = l]
     /\ op' = [op EXCEPT ![c] = o] /\ want' = [want EXCEPT ![c] = k]
     /\ UNCHANGED <<held, kind, counter, thread, usbCtx, threadCtx, started, down,
                    covered, stopping>>
     /\ irregular' = irregular \cup Irregularities(o)
  BY DEF BeginInstall, Begin, Goto, handlerVars, ctxVars
<1>1. TypeOK'
  BY DEF TypeOK, Irregularities
<1>2. CallInv'
  BY DEF TypeOK, CallInv
<1>3. RefInv'
  BY DEF TypeOK, RefInv
<1>4. ASSUME irregular' = {}
      PROVE  irregular = {} /\ Settled /\ kind = "none" /\ o # "emplace"
  <2>1. irregular = {} /\ Settled /\ (kind # "none" => o = "get")
    BY <1>4 DEF Irregularities
  <2>2. kind # "none" /\ ~started => FALSE
    BY <2>1 DEF OrderInv, Settled
  <2>. QED
    BY <2>1, <2>2
<1>5. OrderInv'
  <2>. SUFFICES ASSUME irregular' = {} PROVE OrderInv'
    BY DEF OrderInv
  <2>1. \A d \in Callers : Installing(d)' => d = c
    BY <1>4 DEF TypeOK, Installing, Settled
  <2>2. kind' = "none" /\ op'[c] = o /\ o # "emplace"
    BY <1>4 DEF TypeOK
  <2>3. thread' = "running" => threadCtx'
    BY <1>4 DEF OrderInv
  <2>. QED
    BY <2>1, <2>2, <2>3 DEF OrderInv
<1>. QED
  BY <1>1, <1>2, <1>3, <1>5

\* What begins without an installation leaves the handler alone.
LEMMA BeginStep ==
    ASSUME IInv, NEW c \in Callers, NEW o \in {"make", "get", "stop"},
           NEW k \in Kinds \cup {"refcounted"}, NEW l \in {"ref", "start", "join"},
           Begin(c, o, k, l), UNCHANGED irregular, stopping' \in BOOLEAN,
           l = "ref" => o = "get" /\ started,
           o = "get" => l = "ref" /\ c \notin held,
           l = "join" => o = "stop"
    PROVE  IInv'
<1>. USE DEF IInv
<1>. /\ pc[c] = "idle" /\ pc' = [pc EXCEPT ![c] = l]
     /\ op' = [op EXCEPT ![c] = o] /\ want' = [want EXCEPT ![c] = k]
     /\ UNCHANGED <<held, kind, counter, thread, usbCtx, threadCtx, started, down,
                    covered, irregular>>
  BY DEF Begin, Goto, handlerVars, ctxVars
<1>1. TypeOK'
  BY DEF TypeOK
<1>2. CallInv'
  BY DEF TypeOK, CallInv
<1>3. RefInv'
  BY DEF TypeOK, RefInv
<1>4. OrderInv'
  BY DEF TypeOK, OrderInv, Installing
<1>. QED
  BY <1>1, <1>2, <1>3, <1>4

\* Every operation begins in one of those ways.
LEMMA OperationsStep ==
    ASSUME IInv, NEW c \in Callers, Operations(c)
    PROVE  IInv'
<1>1. CASE MakeContext(c) \/ MakeContextWithOptions(c)
  BY <1>1, BeginInstallStep DEF MakeContext, MakeContextWithOptions
<1>2. CASE GetService(c)
  <2>1. CASE started
    BY <1>2, <2>1, BeginStep DEF GetService, IInv, TypeOK
  <2>2. CASE ~started
    BY <1>2, <2>2, BeginInstallStep DEF GetService
  <2>. QED
    BY <2>1, <2>2
<1>3. CASE EmplaceHandler(c)
  BY <1>3, BeginInstallStep DEF EmplaceHandler
<1>4. CASE Start(c)
  BY <1>4, BeginStep DEF Start, IInv, TypeOK
<1>5. CASE Shutdown(c)
  BY <1>5, BeginStep DEF Shutdown
<1>6. CASE RequestStop(c)
  <2>. /\ UNCHANGED <<pc, op, want, held, kind, counter, thread, usbCtx, threadCtx,
                      started, down, covered, irregular>>
       /\ stopping' = TRUE
    BY <1>6 DEF RequestStop, callerVars, handlerVars, ctxVars
  <2>. QED
    BY DEF IInv, TypeOK, CallInv, RefInv, OrderInv, Installing
<1>. QED
  BY <1>1, <1>2, <1>3, <1>4, <1>5, <1>6 DEF Operations

\* The first context is made before there is a thread.
LEMMA InitContextStep ==
    ASSUME IInv, NEW c \in Callers, InitContext(c) \/ InitFails(c)
    PROVE  IInv'
<1>. USE DEF IInv, InitContext, InitFails, Goto, handlerVars, ctxVars
<1>1. TypeOK'
  BY DEF TypeOK
<1>2. CallInv'
  BY DEF TypeOK, CallInv
<1>3. RefInv'
  BY DEF TypeOK, RefInv
<1>4. OrderInv'
  BY DEF TypeOK, CallInv, OrderInv, Installing
<1>. QED
  BY <1>1, <1>2, <1>3, <1>4

\* A stored handler is asked to stop: never in an orderly set-up.
LEMMA StopStoredStep ==
    ASSUME IInv, NEW c \in Callers, StopStored(c)
    PROVE  IInv'
<1>. USE DEF IInv, StopStored, Goto, handlerVars, ctxVars
<1>1. TypeOK'
  BY DEF TypeOK
<1>2. CallInv'
  BY DEF TypeOK, CallInv
<1>3. RefInv'
  BY DEF TypeOK, RefInv
<1>4. OrderInv'
  BY DEF TypeOK, OrderInv, Installing
<1>. QED
  BY <1>1, <1>2, <1>3, <1>4

\* A thread that is joined has ended.
LEMMA JoinStep ==
    ASSUME IInv, NEW c \in Callers, Join(c)
    PROVE  IInv'
<1>. USE DEF IInv, Join, Goto, ctxVars
<1>1. TypeOK'
  BY DEF TypeOK
<1>2. CallInv'
  BY DEF TypeOK, CallInv
<1>3. RefInv'
  BY DEF TypeOK, RefInv
<1>4. OrderInv'
  BY DEF TypeOK, OrderInv, Installing
<1>. QED
  BY <1>1, <1>2, <1>3, <1>4

\* A handler is stored when no thread runs, and in an orderly set-up when
\* nobody holds a reference: it starts to count at none.
LEMMA ReplaceStep ==
    ASSUME IInv, NEW c \in Callers, Replace(c)
    PROVE  IInv'
<1>. USE DEF IInv, Replace, Goto, ctxVars
<1>1. TypeOK'
  <2>1. 0 \in 0..CounterMod - 1
    BY CounterModAssumption
  <2>. QED
    BY <2>1, KindsAssumption DEF TypeOK
<1>2. want[c] # "none"
  BY KindsAssumption DEF TypeOK
<1>3. CallInv'
  BY <1>2 DEF TypeOK, CallInv
<1>4. RefInv'
  BY DEF TypeOK, RefInv
<1>5. irregular = {} => held = {}
  BY DEF CallInv, RefInv, OrderInv, Installing
<1>6. OrderInv'
  BY <1>5, FS_EmptySet DEF TypeOK, OrderInv, Installing
<1>. QED
  BY <1>1, <1>3, <1>4, <1>6

\* The handler is started once, with a context and before it is referenced.
LEMMA StartStoredStep ==
    ASSUME IInv, NEW c \in Callers, StartStored(c)
    PROVE  IInv'
<1>. USE DEF IInv, StartStored, Launch, Goto
<1>1. TypeOK'
  BY DEF TypeOK
<1>2. CallInv'
  BY DEF TypeOK, CallInv
<1>3. RefInv'
  BY FS_EmptySet DEF TypeOK, CallInv, RefInv
<1>4. OrderInv'
  BY DEF TypeOK, CallInv, OrderInv, Installing
<1>. QED
  BY <1>1, <1>2, <1>3, <1>4

\* A thread that cannot be created is an irregularity.
LEMMA StartFailsStep ==
    ASSUME IInv, NEW c \in Callers, StartFails(c)
    PROVE  IInv'
<1>. USE DEF IInv, StartFails, Goto, handlerVars, ctxVars
<1>1. TypeOK'
  BY DEF TypeOK
<1>2. CallInv'
  BY DEF TypeOK, CallInv
<1>3. RefInv' /\ OrderInv'
  BY DEF RefInv, OrderInv
<1>. QED
  BY <1>1, <1>2, <1>3

\* The loop of a counting handler ends when nobody refers to it.
LEMMA HandlerExitsStep ==
    ASSUME IInv, HandlerExits
    PROVE  IInv'
<1>. USE DEF IInv, HandlerExits, callerVars, ctxVars
<1>1. TypeOK' /\ CallInv'
  BY DEF TypeOK, CallInv
<1>2. kind = "refcounted" /\ "failure" \notin irregular => held = {}
  BY HeldCount, FS_EmptySet DEF RefInv, LoopEnds
<1>3. RefInv'
  BY <1>2 DEF TypeOK, RefInv
<1>4. OrderInv'
  BY DEF TypeOK, CallInv, OrderInv, Installing
<1>. QED
  BY <1>1, <1>3, <1>4

\* Doing nothing changes nothing.
LEMMA StutterStep == IInv /\ UNCHANGED vars => IInv'
BY DEF IInv, TypeOK, CallInv, RefInv, OrderInv, Installing, vars, callerVars,
       handlerVars, ctxVars

\* The invariant is inductive: one case for each action.
LEMMA NextIInv == IInv /\ [Next]_vars => IInv'
<1>. SUFFICES ASSUME IInv, [Next]_vars PROVE IInv'
  OBVIOUS
<1>1. ASSUME NEW c \in Callers, Steps(c)
      PROVE  IInv'
  BY <1>1, InitContextStep, StopStoredStep, JoinStep, ReplaceStep, StartStoredStep,
     StartFailsStep, TakeRefStep DEF Steps
<1>2. ASSUME NEW c \in Callers, DropRef(c) \/ Operations(c)
      PROVE  IInv'
  BY <1>2, DropRefStep, OperationsStep
<1>3. CASE HandlerExits
  BY <1>3, HandlerExitsStep
<1>4. CASE Finished \/ UNCHANGED vars
  BY <1>4, StutterStep DEF Finished
<1>. QED
  BY <1>1, <1>2, <1>3, <1>4 DEF Next

-----------------------------------------------------------------------------
(* Theorems                                                                *)

\* The inductive invariant of the handler service.
THEOREM Invariance == SafeSpec => []IInv
BY InitIInv, NextIInv, PTL DEF SafeSpec

(***************************************************************************)
(* A reference on a running, counting handler keeps its thread running,    *)
(* for any number of callers (event_handler_ref's reason to exist).        *)
(***************************************************************************)
THEOREM ReferencesHold == SafeSpec => []ReferencedHandlerRuns
<1>1. IInv => ReferencedHandlerRuns
  BY DEF IInv, RefInv, ReferencedHandlerRuns
<1>. QED
  BY <1>1, Invariance, PTL

\* After an orderly set-up m_counter is the number of references.
THEOREM CountCorrect == SafeSpec => []RefCountExact
<1>1. IInv => RefCountExact
  BY DEF IInv, OrderInv, RefCountExact
<1>. QED
  BY <1>1, Invariance, PTL

\* After an orderly set-up the thread polls a context that exists.
THEOREM ContextLives == SafeSpec => []LiveContext
<1>1. IInv => LiveContext
  BY DEF IInv, OrderInv, LiveContext
<1>. QED
  BY <1>1, Invariance, PTL

\* As long as the set-up is orderly, a handler that was started runs until a stop
\* is requested: nobody replaces it, so nobody renews the stop source.
StartInv == irregular = {} /\ started /\ ~stopping => thread = "running"

\* Every step keeps to it.
LEMMA StartInvStep ==
    ASSUME IInv, StartInv, [Next]_vars
    PROVE  StartInv'
<1>. USE DEF StartInv, callerVars, handlerVars, ctxVars
<1>1. ASSUME NEW c \in Callers, Operations(c) PROVE StartInv'
  BY <1>1 DEF Operations, MakeContext, MakeContextWithOptions, GetService, EmplaceHandler,
              Start, RequestStop, Shutdown, BeginInstall, Begin
<1>2. ASSUME NEW c \in Callers, InitFails(c) \/ InitContext(c) \/ StopStored(c)
      PROVE  StartInv'
  BY <1>2 DEF InitFails, InitContext, StopStored
<1>3. ASSUME NEW c \in Callers, Join(c) PROVE StartInv'
  BY <1>3 DEF Join
<1>4. ASSUME NEW c \in Callers, Replace(c) PROVE StartInv'
  <2>1. irregular = {} => kind = "none"
    BY <1>4 DEF Replace, IInv, OrderInv, Installing
  <2>2. kind = "none" => ~started
    BY DEF IInv, CallInv
  <2>. QED
    BY <1>4, <2>1, <2>2 DEF Replace
<1>5. ASSUME NEW c \in Callers, StartStored(c) \/ StartFails(c) PROVE StartInv'
  BY <1>5 DEF StartStored, StartFails, Launch
<1>6. ASSUME NEW c \in Callers, TakeRef(c) \/ DropRef(c) PROVE StartInv'
  BY <1>6 DEF TakeRef, DropRef
<1>7. CASE HandlerExits
  BY <1>7 DEF HandlerExits, LoopEnds
<1>8. CASE UNCHANGED vars
  BY <1>8 DEF vars
<1>. QED
  BY <1>1, <1>2, <1>3, <1>4, <1>5, <1>6, <1>7, <1>8 DEF Next, Steps, Finished

(***************************************************************************)
(* StartStarts: after an orderly set-up start() leaves the stored handler  *)
(* running, whether it launches it or finds m_started set.                 *)
(***************************************************************************)
THEOREM StartLeavesRunning == SafeSpec => StartStarts
<1>. DEFINE Starts == \A c \in Callers :
                        pc[c] = "start" /\ pc'[c] # "start" /\ kind # "none" /\ ~stopping
                            /\ irregular' = {}
                          => thread' = "running"
<1>1. Init => StartInv
  BY DEF Init, StartInv
<1>2. IInv /\ StartInv /\ [Next]_vars => StartInv'
  BY StartInvStep
<1>3. IInv /\ StartInv /\ [Next]_vars => [Starts]_vars
  <2>. SUFFICES ASSUME IInv, StartInv, Next, NEW c \in Callers,
                       pc[c] = "start", pc'[c] # "start", kind # "none", ~stopping,
                       irregular' = {}
                PROVE  thread' = "running"
    BY DEF vars
  <2>1. pc \in [Callers -> {"idle", "init", "emplace", "join", "replace",
                            "fresh", "start", "ref"}]
    BY DEF IInv, TypeOK
  <2>2. StartStored(c) \/ StartFails(c)
    <3>1. ASSUME NEW d \in Callers, Operations(d) PROVE FALSE
      BY <2>1, <3>1 DEF Operations, MakeContext, MakeContextWithOptions, GetService,
            EmplaceHandler, Start, RequestStop, Shutdown, BeginInstall, Begin, Goto, callerVars
    <3>2. ASSUME NEW d \in Callers, DropRef(d) PROVE FALSE
      BY <3>2 DEF DropRef, callerVars
    <3>3. ASSUME NEW d \in Callers, Steps(d) PROVE StartStored(c) \/ StartFails(c)
      BY <2>1, <3>3 DEF Steps, InitFails, InitContext, StopStored, Join, Replace,
            StartStored, StartFails, TakeRef, Goto
    <3>4. ~HandlerExits /\ ~Finished
      BY DEF HandlerExits, Finished, vars, callerVars
    <3>. QED
      BY <3>1, <3>2, <3>3, <3>4 DEF Next
  <2>3. ~StartFails(c)
    BY DEF StartFails
  <2>. QED
    BY <2>2, <2>3 DEF StartStored, Launch, StartInv
<1>. QED
  BY <1>1, <1>2, <1>3, Invariance, PTL DEF SafeSpec, StartStarts
=============================================================================
