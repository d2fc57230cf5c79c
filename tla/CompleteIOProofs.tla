-------------------------- MODULE CompleteIOProofs --------------------------
(***************************************************************************)
(* Safety of the complete I/O operation for every number of transfers and  *)
(* buffers, every size of a buffer and every single transfer limit.  The   *)
(* steps that it shares with PartialIO are proved there.                   *)
(***************************************************************************)
EXTENDS CompleteIO, PartialIOProofs, WellFoundedInduction

\* The offset of a transfer in flight, or about to be submitted, is behind the
\* bytes that its buffer has, and what it asks for is what the buffer lacks.
AimedAt(t) ==
    /\ prg[t].ptr = fill[held[t]]
    /\ prg[t].ptr + length[t] <= size[held[t]]
    /\ length[t] <= Limit
    /\ prg[t].ptr <= prg[t].total
    /\ prg[t].expected = size[held[t]]

\* A callback's transfer has moved some more.
Landed(t) ==
    /\ prg[t].ptr + cb.result.actual = fill[held[t]]
    /\ fill[held[t]] <= size[held[t]]
    /\ prg[t].ptr <= prg[t].total
    /\ prg[t].expected = size[held[t]]

FillInv ==
    /\ co = "called" => \A b \in Buffers : fill[b] = 0
    /\ co = "suspended" =>
        /\ \A b \in Buffers : b >= buf_current => fill[b] = 0
        /\ \A t \in Owed : AimedAt(t)
        /\ \A t \in InCallback : Landed(t)

\* With a buffer per transfer a transfer's total is of its one buffer.
RoundInv ==
    /\ co # "idle" => used = Min2(bufs, N)
    /\ bufs <= N /\ co = "suspended" =>
        /\ buf_current > bufs
        /\ \A t \in Working : prg[t].total = prg[t].ptr
    /\ bufs <= N /\ co \in {"suspended", "resumed"} =>
        \A b \in done : fill[b] = size[b]

CInv == CompleteTypeOK /\ RInv /\ FillInv /\ RoundInv

-----------------------------------------------------------------------------
(* The steps of PartialIO                                                  *)

\* Before the first operation nothing was moved.
LEMMA InitCInv == CompleteInit => CInv
<1>. SUFFICES ASSUME CompleteInit PROVE CInv
  OBVIOUS
<1>1. RInv
  BY InitRInv DEF CompleteInit
<1>2. CompleteTypeOK
  <2>1. NoProgress \in [ptr : Nat, expected : Nat, total : Nat]
    BY DEF NoProgress
  <2>. QED
    BY <1>1, <2>1, LimitAssumption DEF CompleteInit, CompleteTypeOK, RInv, IInv
<1>3. FillInv /\ RoundInv
  BY DEF CompleteInit, Init, FillInv, RoundInv
<1>. QED
  BY <1>1, <1>2, <1>3 DEF CInv

\* The steps taken over from PartialIO keep its invariants.
LEMMA PartialSteps ==
    ASSUME RInv,
           \/ \E m \in 0..MaxBuffers : CompleteSubmit(m)
           \/ CompleteSuspend \/ AsPartial
           \/ \E t \in Transfers, c \in Completions : CompleteReap(t, c)
           \/ UNCHANGED completeVars
    PROVE  RInv'
<1>1. [Next]_vars
  BY DEF CompleteSubmit, CompleteSuspend, AsPartial, CompleteReap, completeVars, Next,
     Coroutine, Callback
<1>. QED
  BY <1>1, NextRInv

\* Buffers, as CompleteTypeOK knows them.
LEMMA BuffersTyped ==
    ASSUME CInv
    PROVE  /\ \A b \in Buffers : size[b] \in Nat /\ fill[b] \in Nat
           /\ \A t \in Working : held[t] \in Buffers /\ held[t] < buf_current /\ t \in Transfers
           /\ \A t \in Working : \A u \in Working \ {t} : held[u] # held[t]
           /\ \A t \in Transfers : /\ prg[t].ptr \in Nat /\ prg[t].total \in Nat
                                   /\ prg[t].expected \in Nat /\ length[t] \in 0..Limit
           /\ buf_current \in Nat /\ bufs \in 0..MaxBuffers /\ MaxBuffers \in Nat
           /\ Owed \subseteq Working /\ InCallback \subseteq Working
<1>1. /\ \A b \in Buffers : size[b] \in Nat /\ fill[b] \in Nat
      /\ \A t \in Transfers : /\ prg[t].ptr \in Nat /\ prg[t].total \in Nat
                              /\ prg[t].expected \in Nat /\ length[t] \in 0..Limit
  <2>1. CompleteTypeOK
    BY DEF CInv
  <2>2. ASSUME NEW t \in Transfers
        PROVE  /\ prg[t].ptr \in Nat /\ prg[t].total \in Nat
               /\ prg[t].expected \in Nat /\ length[t] \in 0..Limit
    <3>1. /\ prg[t] \in [ptr : Nat, expected : Nat, total : Nat]
          /\ length[t] \in 0..Limit
      BY <2>1 DEF CompleteTypeOK
    <3>. QED
      BY <3>1
  <2>3. ASSUME NEW b \in Buffers
        PROVE  size[b] \in Nat /\ fill[b] \in Nat
    <3>1. size[b] \in Sizes \cup {0} /\ fill[b] \in Nat
      BY <2>1 DEF CompleteTypeOK
    <3>2. Sizes \cup {0} \subseteq Nat
      BY SizesAssumption
    <3>. QED
      BY <3>1, <3>2, Zenon
  <2>. QED
    BY <2>2, <2>3
<1>2. buf_current \in 1..MaxBuffers + 1 /\ bufs \in 0..MaxBuffers /\ MaxBuffers \in Nat
  BY MaxBuffersAssumption DEF CInv, RInv, IInv, TypeOK
<1>3. Working \subseteq Transfers /\ (co # "suspended" => Working = {})
  BY WorkingTyped DEF CInv, RInv
<1>4. ASSUME NEW t \in Working
      PROVE  /\ held[t] \in Buffers /\ held[t] < buf_current
             /\ \A u \in Working \ {t} : held[u] # held[t]
  <2>1. co = "suspended"
    BY <1>3
  <2>2. held[t] \in 1..buf_current - 1 /\ \A u \in Working \ {t} : held[u] # held[t]
    BY <2>1 DEF CInv, RInv, OrderInv, BufferInv
  <2>. QED
    BY <1>2, <2>2 DEF Buffers
<1>. QED
  BY <1>1, <1>2, <1>3, <1>4 DEF Working

\* Nothing is moved, and no transfer is worked on that was not.
LEMMA FillKept ==
    ASSUME CInv, UNCHANGED <<sizeVars, buf_current, held>>,
           Owed' \subseteq Owed,
           \/ cb' = NoCallback
           \/ cb # NoCallback /\ cb'.tfer = cb.tfer /\ cb'.result = cb.result,
           co' \in {"called", "suspended"} => co' = co
    PROVE  FillInv'
<1>1. UNCHANGED <<size, prg, length, fill, buf_current, held>>
  BY DEF sizeVars
<1>2. \A t \in InCallback' : t \in InCallback /\ cb'.result = cb.result
  BY DEF InCallback
<1>. QED
  BY <1>1, <1>2 DEF CInv, FillInv, AimedAt, Landed

\* Steps that give no buffer out and finish none.
LEMMA RoundKept ==
    ASSUME CInv, UNCHANGED <<sizeVars, used, bufs, buf_current, held, done>>,
           Working' \subseteq Working,
           co' # "idle" => co # "idle",
           co' = "suspended" => co = "suspended",
           co' = "resumed" => co # "called" \/ done = {}
    PROVE  RoundInv'
<1>1. UNCHANGED <<size, prg, length, fill>>
  BY DEF sizeVars
<1>2. co # "idle" => co \in {"called", "suspended", "resumed"}
  BY DEF CInv, RInv, IInv, TypeOK
<1>. QED
  BY <1>1, <1>2 DEF CInv, RoundInv

\* submit() starts with empty buffers.
LEMMA SubmitFills ==
    ASSUME CInv, NEW m \in 0..MaxBuffers, CompleteSubmit(m)
    PROVE  CompleteTypeOK' /\ FillInv' /\ RoundInv'
<1>1. PICK s \in [1..m -> Sizes] : size' = [b \in Buffers |-> IF b <= m THEN s[b] ELSE 0]
  BY DEF CompleteSubmit
<1>2. /\ prg' = [t \in Transfers |-> NoProgress] /\ fill' = [b \in Buffers |-> 0]
      /\ length' = length /\ co' = "called" /\ used' = Min2(m, N) /\ bufs' = m
  BY DEF CompleteSubmit, Submit
<1>3. size' \in [Buffers -> Sizes \cup {0}]
  BY <1>1, MaxBuffersAssumption DEF Buffers
<1>4. NoProgress \in [ptr : Nat, expected : Nat, total : Nat]
  BY DEF NoProgress
<1>5. RInv'
  BY PartialSteps DEF CInv
<1>. QED
  BY <1>2, <1>3, <1>4, <1>5 DEF CInv, CompleteTypeOK, FillInv, RoundInv, RInv, IInv

\* await_suspend() aims each transfer at the start of a buffer of its own.
LEMMA SuspendFills ==
    ASSUME CInv, CompleteSuspend
    PROVE  CompleteTypeOK' /\ FillInv' /\ RoundInv'
<1>1. /\ co = "called" /\ co' = "suspended" /\ next' = 1 /\ buf_current' = used + 1
      /\ held' = [t \in Transfers |-> IF t <= used THEN t ELSE held[t]]
      /\ UNCHANGED <<used, bufs, cb, done, flight, size, fill>>
      /\ prg' = [t \in Transfers |->
                   IF t <= used THEN [NoProgress EXCEPT !.expected = size[t]] ELSE prg[t]]
      /\ length' = [t \in Transfers |->
                      IF t <= used THEN Min2(size[t], Limit) ELSE length[t]]
  BY DEF CompleteSuspend, AwaitSuspend, usbVars, opVars, ghostVars
<1>2. /\ used \in 0..N /\ used <= bufs /\ bufs \in 0..MaxBuffers /\ MaxBuffers \in Nat
      /\ N \in Nat /\ Limit \in Nat /\ done = {} /\ flight = {} /\ cb = NoCallback
      /\ used = Min2(bufs, N)
      /\ \A t \in 1..used : t \in Transfers /\ t \in Buffers
  <2>1. /\ used \in 0..N /\ used <= bufs /\ bufs \in 0..MaxBuffers /\ MaxBuffers \in Nat
        /\ N \in Nat /\ Limit \in Nat /\ done = {} /\ flight = {} /\ cb = NoCallback
        /\ used = Min2(bufs, N)
    BY <1>1, MaxBuffersAssumption, NAssumption, LimitAssumption
    DEF CInv, RInv, IInv, TypeOK, PhaseInv, LoopInv, OrderInv, BufferInv, RoundInv
  <2>. QED
    BY <2>1 DEF Transfers, Buffers
<1>3. /\ \A t \in 1..used : size[t] \in Nat /\ fill[t] = 0
      /\ \A t \in 1..used : /\ Min2(size[t], Limit) \in 0..Limit
                            /\ Min2(size[t], Limit) <= size[t]
  <2>1. \A t \in 1..used : size[t] \in Nat /\ fill[t] = 0
    BY <1>1, <1>2, BuffersTyped DEF CInv, FillInv
  <2>. QED
    BY <1>2, <2>1 DEF Min2
<1>4. \A t \in Transfers : t <= used => t \in 1..used
  BY <1>2 DEF Transfers
<1>5. \A t \in 1..used :
        /\ held'[t] = t /\ length'[t] = Min2(size[t], Limit)
        /\ prg'[t] = [ptr |-> 0, expected |-> size[t], total |-> 0]
        /\ prg'[t].ptr = 0 /\ prg'[t].expected = size[t] /\ prg'[t].total = 0
  <2>. SUFFICES ASSUME NEW t \in 1..used
                PROVE  /\ held'[t] = t /\ length'[t] = Min2(size[t], Limit)
                       /\ prg'[t] = [ptr |-> 0, expected |-> size[t], total |-> 0]
                       /\ prg'[t].ptr = 0 /\ prg'[t].expected = size[t]
                       /\ prg'[t].total = 0
    OBVIOUS
  <2>1. t \in Transfers /\ t <= used
    BY <1>2
  <2>2. prg'[t] = [NoProgress EXCEPT !.expected = size[t]]
    BY <1>1, <2>1
  <2>3. [NoProgress EXCEPT !.expected = size[t]]
            = [ptr |-> 0, expected |-> size[t], total |-> 0]
    BY DEF NoProgress
  <2>. QED
    BY <1>1, <2>1, <2>2, <2>3
<1>6. CompleteTypeOK'
  <2>1. prg' \in [Transfers -> [ptr : Nat, expected : Nat, total : Nat]]
    <3>. SUFFICES ASSUME NEW t \in Transfers
                  PROVE  prg'[t] \in [ptr : Nat, expected : Nat, total : Nat]
      BY <1>1
    <3>1. CASE t <= used
      <4>1. prg'[t] = [ptr |-> 0, expected |-> size[t], total |-> 0] /\ size[t] \in Nat
        BY <1>3, <1>4, <1>5, <3>1
      <4>. QED
        BY <4>1
    <3>2. CASE ~(t <= used)
      BY <1>1, <3>2 DEF CInv, CompleteTypeOK
    <3>. QED
      BY <3>1, <3>2
  <2>2. length' \in [Transfers -> 0..Limit]
    <3>. SUFFICES ASSUME NEW t \in Transfers PROVE length'[t] \in 0..Limit
      BY <1>1
    <3>1. CASE t <= used
      BY <1>3, <1>4, <1>5, <3>1
    <3>2. CASE ~(t <= used)
      BY <1>1, <3>2 DEF CInv, CompleteTypeOK
    <3>. QED
      BY <3>1, <3>2
  <2>3. TypeOK'
    BY PartialSteps DEF CInv, RInv, IInv
  <2>. QED
    BY <1>1, <2>1, <2>2, <2>3 DEF CInv, CompleteTypeOK
<1>7. Owed' = 1..used /\ InCallback' = {} /\ Working' = 1..used
  BY <1>1, <1>2 DEF Owed, Unsubmitted, InCallback, Working
<1>8. FillInv'
  <2>1. \A t \in Owed' : AimedAt(t)'
    <3>. SUFFICES ASSUME NEW t \in 1..used PROVE AimedAt(t)'
      BY <1>7
    <3>1. /\ prg'[t].ptr = 0 /\ prg'[t].expected = size[t] /\ prg'[t].total = 0
      BY <1>5
    <3>2. /\ held'[t] = t /\ size' = size /\ fill'[t] = 0
          /\ length'[t] \in 0..Limit /\ length'[t] <= size[t]
      BY <1>1, <1>3, <1>5
    <3>3. size[t] \in Nat /\ Limit \in Nat
      BY <1>2, <1>3
    <3>. QED
      BY <3>1, <3>2, <3>3 DEF AimedAt
  <2>2. \A b \in Buffers : fill'[b] = 0
    BY <1>1 DEF CInv, FillInv
  <2>. QED
    BY <1>1, <1>7, <2>1, <2>2 DEF FillInv
<1>9. RoundInv'
  <2>1. \A t \in 1..used : prg'[t].total = 0 /\ prg'[t].ptr = 0
    BY <1>5
  <2>2. bufs <= N => used + 1 > bufs
    BY <1>2 DEF Min2
  <2>. QED
    BY <1>1, <1>2, <1>7, <2>1, <2>2 DEF RoundInv
<1>. QED
  BY <1>6, <1>8, <1>9

\* The steps that PartialIO takes as they are.
LEMMA AsPartialFills ==
    ASSUME CInv, AsPartial \/ UNCHANGED completeVars
    PROVE  CompleteTypeOK' /\ FillInv' /\ RoundInv'
<1>1. sizeVars' = sizeVars
  BY DEF AsPartial, completeVars
<1>2. CompleteTypeOK'
  <2>1. TypeOK'
    BY PartialSteps DEF CInv, RInv, IInv
  <2>. QED
    BY <1>1, <2>1 DEF CInv, CompleteTypeOK, sizeVars
<1>3. UNCHANGED <<used, bufs, buf_current, held, done>>
  BY DEF AsPartial, AwaitReady, AwaitStopped, Resume, Return, SubmissionLoop, LoopSubmit,
     LoopSubmitFails, LoopRecordError, CallbackErrored, CallbackLive, RequestStop,
     CancelNext, CancelTransfer, completeVars, vars, opVars, ghostVars
<1>4. CASE AwaitReady \/ AwaitStopped \/ Resume \/ Return
  <2>1. /\ co' \notin {"called", "suspended"} /\ Working' = {}
        /\ co' # "idle" => co # "idle"
        /\ co' = "resumed" => co # "called" \/ done = {}
    <3>1. /\ co' \notin {"called", "suspended"} /\ (co' # "idle" => co # "idle")
          /\ co' = "resumed" => co # "called" \/ done = {}
      BY <1>4 DEF AwaitReady, AwaitStopped, Resume, Return, CInv, RInv, OrderInv, BufferInv
    <3>2. flight' = {} /\ cb' = NoCallback
      BY <3>1, PartialSteps DEF CInv, RInv, IInv, PhaseInv
    <3>. QED
      BY <3>1, <3>2 DEF Working, Owed, Unsubmitted, InCallback
  <2>2. FillInv'
    BY <2>1 DEF FillInv
  <2>3. RoundInv'
    BY <1>1, <1>3, <2>1, RoundKept
  <2>. QED
    BY <1>2, <2>2, <2>3
<1>5. CASE ~(AwaitReady \/ AwaitStopped \/ Resume \/ Return)
  <2>1. co' = co
    BY <1>5 DEF AsPartial, SubmissionLoop, LoopSubmit, LoopSubmitFails, LoopRecordError,
       CallbackErrored, CallbackLive, RequestStop, CancelNext, CancelTransfer, completeVars,
       vars
  <2>2. Owed' \subseteq Owed
    <3>1. CASE LoopSubmit
      BY <3>1, NAssumption DEF LoopSubmit, UsbSubmit, opVars, CInv, RInv, IInv, TypeOK,
         PhaseInv, LoopInv, Owed, Unsubmitted
    <3>2. CASE ~LoopSubmit
      BY <1>5, <3>2 DEF AsPartial, SubmissionLoop, LoopSubmitFails, LoopRecordError,
         CallbackErrored, CallbackLive, RequestStop, CancelNext, CancelTransfer, UsbCancel,
         Owed, Unsubmitted, completeVars, vars, usbVars, opVars, loopVars
    <3>. QED
      BY <3>1, <3>2
  <2>3. \/ cb' = NoCallback
        \/ cb # NoCallback /\ cb'.tfer = cb.tfer /\ cb'.result = cb.result
    <3>1. CASE CallbackErrored \/ CallbackLive
      BY <3>1, CallbackTyped
      DEF CallbackErrored, CallbackLive, ResumeOnZero, NoCallback, CInv, RInv, IInv
    <3>2. CASE ~(CallbackErrored \/ CallbackLive)
      BY <1>5, <3>2 DEF AsPartial, SubmissionLoop, LoopSubmit, LoopSubmitFails,
         LoopRecordError, RequestStop, CancelNext, CancelTransfer, completeVars, vars
    <3>. QED
      BY <3>1, <3>2
  <2>4. InCallback' \subseteq InCallback
    BY <2>3 DEF InCallback
  <2>5. Working' \subseteq Working
    BY <2>2, <2>4 DEF Working
  <2>6. FillInv'
    BY <1>1, <1>3, <2>1, <2>2, <2>3, FillKept
  <2>7. RoundInv'
    BY <1>1, <1>3, <2>1, <2>5, RoundKept
  <2>. QED
    BY <1>2, <2>6, <2>7
<1>. QED
  BY <1>4, <1>5

\* A transfer comes back with no more bytes than it was asked for.
LEMMA ReapFills ==
    ASSUME CInv, NEW t \in Transfers, NEW c \in Completions, CompleteReap(t, c)
    PROVE  CompleteTypeOK' /\ FillInv' /\ RoundInv'
<1>1. /\ t \in flight /\ c.actual <= length[t] /\ cb' # NoCallback
      /\ cb'.tfer = t /\ cb'.result = c /\ flight' = flight \ {t}
      /\ fill' = [fill EXCEPT ![held[t]] = @ + c.actual]
      /\ UNCHANGED <<co, next, used, bufs, buf_current, held, done, size, prg, length>>
  BY DEF CompleteReap, Reap, UsbReap, NoCallback, loopVars, opVars
<1>2. c.actual \in Nat
  BY CompletionsAssumption DEF Completion
<1>3. /\ co = "suspended" /\ t \in Owed /\ t \in Working /\ t \notin Unsubmitted
  <2>1. co = "suspended" /\ next \in Nat /\ used \in Nat /\ t < next
    BY <1>1, NAssumption DEF CInv, RInv, IInv, TypeOK, PhaseInv, LoopInv
  <2>. QED
    BY <1>1, <2>1 DEF Owed, Unsubmitted, Working, Transfers
<1>4. Owed' = Owed \ {t} /\ InCallback' = {t} /\ Working' = Working
  BY <1>1, <1>3 DEF Owed, Unsubmitted, InCallback, Working, CInv, RInv, IInv, PhaseInv,
     CompleteReap, Reap
<1>5. /\ held[t] \in Buffers /\ held[t] < buf_current /\ held[t] \notin done
      /\ buf_current \in Nat /\ fill[held[t]] \in Nat /\ size[held[t]] \in Nat
      /\ \A u \in Working \ {t} : held[u] # held[t]
      /\ prg[t].ptr \in Nat /\ length[t] \in Nat /\ Limit \in Nat
  BY <1>3, BuffersTyped, LimitAssumption DEF CInv, RInv, DoneInv
<1>6. /\ fill' \in [Buffers -> Nat]
      /\ fill'[held[t]] = fill[held[t]] + c.actual
      /\ \A b \in Buffers : b # held[t] => fill'[b] = fill[b]
  BY <1>1, <1>2, <1>5 DEF CInv, CompleteTypeOK
<1>7. CompleteTypeOK'
  <2>1. TypeOK'
    BY PartialSteps DEF CInv, RInv, IInv
  <2>. QED
    BY <1>1, <1>6, <2>1 DEF CInv, CompleteTypeOK
<1>8. AimedAt(t)
  BY <1>3 DEF CInv, FillInv
<1>9. Landed(t)'
  <2>1. /\ prg[t].ptr + c.actual = fill[held[t]] + c.actual
        /\ fill[held[t]] + c.actual <= size[held[t]]
    BY <1>1, <1>2, <1>5, <1>8 DEF AimedAt
  <2>. QED
    BY <1>1, <1>6, <1>8, <2>1 DEF AimedAt, Landed
<1>10. ASSUME NEW u \in Owed' PROVE AimedAt(u)'
  <2>1. u \in Owed /\ u \in Working \ {t}
    BY <1>4 DEF Working
  <2>2. fill'[held[u]] = fill[held[u]] /\ AimedAt(u)
    BY <1>3, <1>5, <1>6, <2>1, BuffersTyped DEF CInv, FillInv
  <2>. QED
    BY <1>1, <2>2 DEF AimedAt
<1>11. FillInv'
  <2>1. \A b \in Buffers : b >= buf_current => fill'[b] = 0
    <3>1. \A b \in Buffers : b >= buf_current => b # held[t]
      BY <1>5, BuffersTyped DEF Buffers
    <3>. QED
      BY <1>3, <1>6, <3>1 DEF CInv, FillInv
  <2>. QED
    BY <1>1, <1>3, <1>4, <1>9, <1>10, <2>1 DEF FillInv
<1>12. RoundInv'
  <2>1. \A b \in done : fill[b] = size[b] => fill'[b] = size[b]
    <3>1. \A b \in done : b \in Buffers /\ b # held[t]
      BY <1>3, <1>5, MaxBuffersAssumption
      DEF CInv, RInv, IInv, TypeOK, OrderInv, BufferInv, Buffers
    <3>. QED
      BY <1>6, <3>1
  <2>. QED
    BY <1>1, <1>3, <1>4, <2>1 DEF CInv, RoundInv
<1>. QED
  BY <1>7, <1>11, <1>12

-----------------------------------------------------------------------------
(* Callbacks                                                               *)

\* What a running callback knows of its transfer.
LEMMA CallbackFacts ==
    ASSUME CInv, cb # NoCallback
    PROVE  /\ co = "suspended" /\ cb.tfer \in Transfers /\ cb.tfer \in Working
           /\ held[cb.tfer] \in Buffers /\ held[cb.tfer] < buf_current
           /\ held[cb.tfer] \notin done
           /\ prg[cb.tfer].ptr \in Nat /\ prg[cb.tfer].total \in Nat
           /\ prg[cb.tfer].expected \in Nat /\ Subtotal \in Nat
           /\ fill[held[cb.tfer]] \in Nat /\ size[held[cb.tfer]] \in Nat
           /\ Landed(cb.tfer) /\ cb.tfer \notin Owed
<1>1. /\ co = "suspended" /\ cb.tfer \in Working /\ cb.tfer \in Transfers
      /\ held[cb.tfer] \notin done
  BY CallbackBuffer DEF CInv
<1>2. Subtotal \in Nat
  BY CallbackTyped DEF CInv, RInv, IInv, Subtotal
<1>3. Landed(cb.tfer)
  BY <1>1 DEF CInv, FillInv, InCallback
<1>4. cb.tfer \notin Owed
  <2>1. cb.tfer < next /\ cb.tfer \notin flight /\ next \in Nat /\ used \in Nat
    BY NAssumption DEF CInv, RInv, IInv, TypeOK, LoopInv
  <2>. QED
    BY <1>1, <2>1 DEF Owed, Unsubmitted, Transfers
<1>. QED
  BY <1>1, <1>2, <1>3, <1>4, BuffersTyped

\* The counted progress.
LEMMA CountedFields ==
    ASSUME CInv, cb # NoCallback
    PROVE  /\ Counted.ptr = prg[cb.tfer].ptr /\ Counted.expected = prg[cb.tfer].expected
           /\ Counted.total = prg[cb.tfer].total + Subtotal
           /\ Counted \in [ptr : Nat, expected : Nat, total : Nat]
<1>1. prg[cb.tfer] \in [ptr : Nat, expected : Nat, total : Nat]
  BY CallbackFacts DEF CInv, CompleteTypeOK
<1>2. prg[cb.tfer].total + Subtotal \in Nat
  BY CallbackFacts
<1>. QED
  BY <1>1, <1>2 DEF Counted

\* Nothing but the callback's transfer is aimed anew.
Elsewhere ==
    \A u \in Transfers \ {cb.tfer} :
        prg'[u] = prg[u] /\ length'[u] = length[u] /\ held'[u] = held[u]

\* A callback ends: its transfer is not worked on any more.
LEMMA RetireFills ==
    ASSUME CInv, Retires, Elsewhere, UNCHANGED <<size, fill>>,
           buf_current' \in Nat, buf_current <= buf_current',
           done' \subseteq done \cup {held[cb.tfer]},
           bufs <= N /\ held[cb.tfer] \in done' =>
               fill[held[cb.tfer]] = size[held[cb.tfer]]
    PROVE  FillInv' /\ RoundInv'
<1>1. /\ cb # NoCallback /\ cb' = NoCallback
      /\ UNCHANGED <<co, flight, next, used, bufs>>
  BY DEF Retires
<1>2. /\ Working' = Working \ {cb.tfer} /\ Owed' = Owed /\ InCallback' = {}
      /\ co = "suspended" /\ cb.tfer \notin Owed
  <2>1. Working' = Working \ {cb.tfer} /\ co = "suspended" /\ cb.tfer \notin Owed
    BY <1>1, Retired, CallbackFacts DEF CInv, RInv
  <2>. QED
    BY <1>1, <2>1 DEF Owed, Unsubmitted, InCallback
<1>3. buf_current \in Nat /\ bufs \in Nat /\ Working \subseteq Transfers /\ Owed \subseteq Working
  BY BuffersTyped
<1>4. FillInv'
  <2>1. ASSUME NEW u \in Owed' PROVE AimedAt(u)'
    <3>1. u \in Transfers \ {cb.tfer} /\ AimedAt(u)
      BY <1>2, <1>3 DEF CInv, FillInv
    <3>. QED
      BY <3>1 DEF Elsewhere, AimedAt
  <2>2. \A b \in Buffers : b >= buf_current' => fill'[b] = 0
    <3>1. \A b \in Buffers : b >= buf_current' => b >= buf_current
      BY <1>3, MaxBuffersAssumption DEF Buffers
    <3>. QED
      BY <1>2, <3>1 DEF CInv, FillInv
  <2>. QED
    BY <1>1, <1>2, <2>1, <2>2 DEF FillInv
<1>5. RoundInv'
  <2>1. \A u \in Working' : u \in Working /\ prg'[u] = prg[u]
    BY <1>2, <1>3 DEF Elsewhere
  <2>2. bufs <= N => buf_current' > bufs /\ \A u \in Working' : prg'[u].total = prg'[u].ptr
    BY <1>2, <1>3, <2>1 DEF CInv, RoundInv
  <2>3. bufs <= N => \A b \in done' : fill[b] = size[b]
    BY <1>2 DEF CInv, RoundInv
  <2>. QED
    BY <1>1, <1>2, <2>2, <2>3 DEF CInv, RoundInv
<1>. QED
  BY <1>4, <1>5

\* A callback goes on: its transfer is aimed at what a buffer lacks.
LEMMA RecurFills ==
    ASSUME CInv, Recurs, Elsewhere, UNCHANGED <<size, fill>>,
           buf_current' \in Nat, buf_current <= buf_current',
           NEW t \in Transfers, t = cb.tfer, AimedAt(t)',
           bufs <= N => done' = done /\ prg'[cb.tfer].total = prg'[cb.tfer].ptr
    PROVE  FillInv' /\ RoundInv'
<1>1. /\ cb # NoCallback /\ cb' = NoCallback /\ flight' = flight \cup {cb.tfer}
      /\ UNCHANGED <<co, next, used, bufs>>
  BY DEF Recurs
<1>2. /\ Owed' = Owed \cup {cb.tfer} /\ InCallback' = {} /\ Working' = Working
      /\ co = "suspended" /\ cb.tfer \notin Owed
  <2>1. co = "suspended" /\ cb.tfer \notin Owed
    BY <1>1, CallbackFacts
  <2>. QED
    BY <1>1, <2>1 DEF Owed, Unsubmitted, InCallback, Working
<1>3. buf_current \in Nat /\ bufs \in Nat /\ Working \subseteq Transfers /\ Owed \subseteq Working
  BY BuffersTyped
<1>4. FillInv'
  <2>1. ASSUME NEW u \in Owed PROVE AimedAt(u)'
    <3>1. u \in Transfers \ {cb.tfer} /\ AimedAt(u)
      BY <1>2, <1>3 DEF CInv, FillInv
    <3>. QED
      BY <3>1 DEF Elsewhere, AimedAt
  <2>2. \A b \in Buffers : b >= buf_current' => fill'[b] = 0
    <3>1. \A b \in Buffers : b >= buf_current' => b >= buf_current
      BY <1>3, MaxBuffersAssumption DEF Buffers
    <3>. QED
      BY <1>2, <3>1 DEF CInv, FillInv
  <2>3. \A u \in Owed' : AimedAt(u)'
    BY <1>2, <2>1
  <2>. QED
    BY <1>1, <1>2, <2>2, <2>3 DEF FillInv
<1>5. RoundInv'
  <2>1. \A u \in Working \ {cb.tfer} : prg'[u] = prg[u]
    BY <1>3 DEF Elsewhere
  <2>2. bufs <= N => buf_current' > bufs /\ \A u \in Working' : prg'[u].total = prg'[u].ptr
    BY <1>2, <1>3, <2>1 DEF CInv, RoundInv
  <2>3. bufs <= N => \A b \in done' : fill[b] = size[b]
    BY <1>2 DEF CInv, RoundInv
  <2>. QED
    BY <1>1, <1>2, <2>2, <2>3 DEF CInv, RoundInv
<1>. QED
  BY <1>4, <1>5

-----------------------------------------------------------------------------
(* The steps of a callback                                                 *)

\* Types of what a callback writes.
LEMMA ProgressTyped ==
    ASSUME CInv, cb # NoCallback, TypeOK', UNCHANGED <<size, fill>>,
           NEW p \in [ptr : Nat, expected : Nat, total : Nat],
           prg' = [prg EXCEPT ![cb.tfer] = p],
           length' = length \/ \E l \in 0..Limit : length' = [length EXCEPT ![cb.tfer] = l]
    PROVE  CompleteTypeOK' /\ \A u \in Transfers \ {cb.tfer} :
                                 prg'[u] = prg[u] /\ length'[u] = length[u]
<1>1. /\ prg' \in [Transfers -> [ptr : Nat, expected : Nat, total : Nat]]
      /\ \A u \in Transfers \ {cb.tfer} : prg'[u] = prg[u]
  BY DEF CInv, CompleteTypeOK
<1>2. /\ length' \in [Transfers -> 0..Limit]
      /\ \A u \in Transfers \ {cb.tfer} : length'[u] = length[u]
  BY DEF CInv, CompleteTypeOK
<1>. QED
  BY <1>1, <1>2 DEF CInv, CompleteTypeOK

\* A callback that fails leaves its buffer as it is.
LEMMA FailedFills ==
    ASSUME CInv, CompleteFailed
    PROVE  CInv'
<1>1. /\ cb # NoCallback /\ Retires /\ Keeps /\ done' = done
      /\ UNCHANGED <<size, length, fill, buf_current, held>>
      /\ prg' = [prg EXCEPT ![cb.tfer] = Counted]
  BY DEF CompleteFailed, ResumeOnZero, NoCallback, Retires, Keeps, usbVars, loopVars, opVars,
     ghostVars
<1>2. DataTyped' /\ (TransferType = "bulk" => ec' # "none")
  <2>1. ec' \in {"none", "cancelled", "error", "submit"} /\ (TransferType = "bulk" => ec' # "none")
    BY <1>1, CallbackTyped
    DEF CompleteFailed, FailureCode, TransferStatus, Statuses, CInv, RInv, IInv
  <2>. QED
    BY <2>1, MaxBuffersAssumption
    DEF CompleteFailed, DataTyped, ghostVars, CInv, RInv, IInv, TypeOK
<1>3. RInv'
  <2>1. IInv'
    BY <1>1, <1>2, CallbackEnds DEF CompleteFailed, CInv, RInv
  <2>2. OrderInv'
    BY <1>1, <1>2, FailedBuffers DEF CInv, RInv
  <2>3. DoneInv'
    BY <1>1, Retired, DoneKept DEF Retires, CInv, RInv
  <2>. QED
    BY <2>1, <2>2, <2>3 DEF RInv
<1>4. CompleteTypeOK' /\ Elsewhere
  BY <1>1, <1>3, CountedFields, ProgressTyped DEF Elsewhere, RInv, IInv
<1>5. FillInv' /\ RoundInv'
  BY <1>1, <1>4, BuffersTyped, CallbackFacts, RetireFills
<1>. QED
  BY <1>3, <1>4, <1>5 DEF CInv

\* With a buffer per transfer, a buffer that counts as full is full.
LEMMA FullIsFull ==
    ASSUME CInv, cb # NoCallback, BufferFull, bufs <= N
    PROVE  fill[held[cb.tfer]] = size[held[cb.tfer]]
<1>1. prg[cb.tfer].total = prg[cb.tfer].ptr
  BY CallbackFacts DEF CInv, RoundInv
<1>2. prg[cb.tfer].total + Subtotal >= prg[cb.tfer].expected
  BY CountedFields DEF BufferFull
<1>3. /\ prg[cb.tfer].ptr + Subtotal = fill[held[cb.tfer]]
      /\ fill[held[cb.tfer]] <= size[held[cb.tfer]]
      /\ prg[cb.tfer].expected = size[held[cb.tfer]]
  BY CallbackFacts DEF Landed, Subtotal
<1>. QED
  BY <1>1, <1>2, <1>3, CallbackFacts

\* A callback without a next buffer ends.
LEMMA DrainedFills ==
    ASSUME CInv, CompleteDrained
    PROVE  CInv'
<1>1. /\ cb # NoCallback /\ Retires /\ Counts /\ Keeps /\ BufferFull
      /\ buf_current > bufs /\ UNCHANGED <<loop, ec>>
      /\ UNCHANGED <<size, length, fill, buf_current, held>>
      /\ prg' = [prg EXCEPT ![cb.tfer] = Counted]
      /\ done' = done \cup {held[cb.tfer]}
  BY DEF CompleteDrained, ResumeOnZero, NoCallback, Retires, Counts, Keeps, usbVars, loopVars,
     opVars
<1>2. DataTyped'
  <2>1. TypeOK /\ held[cb.tfer] \in 0..MaxBuffers
    BY <1>1, MaxBuffersAssumption, CallbackFacts DEF Buffers, CInv, RInv, IInv
  <2>2. done' \subseteq 0..MaxBuffers
    BY <1>1, <2>1 DEF TypeOK
  <2>. QED
    BY <1>1, <2>1, <2>2 DEF CompleteDrained, DataTyped, TypeOK
<1>3. RInv'
  <2>1. IInv'
    BY <1>1, <1>2, CallbackEnds DEF CompleteDrained, CInv, RInv
  <2>2. OrderInv'
    BY <1>1, LastBuffers DEF CInv, RInv
  <2>3. DoneInv'
    BY <1>1, CountedDone DEF CInv
  <2>. QED
    BY <2>1, <2>2, <2>3 DEF RInv
<1>4. CompleteTypeOK' /\ Elsewhere
  BY <1>1, <1>3, CountedFields, ProgressTyped DEF Elsewhere, RInv, IInv
<1>5. FillInv' /\ RoundInv'
  BY <1>1, <1>4, BuffersTyped, CallbackFacts, FullIsFull, RetireFills
<1>. QED
  BY <1>3, <1>4, <1>5 DEF CInv

\* The next buffer is taken: it is empty, and asked for from its start.
LEMMA TakeFacts ==
    ASSUME CInv, cb # NoCallback, TakeBuffer, UNCHANGED <<size, fill>>,
           NEW t \in Transfers, t = cb.tfer
    PROVE  /\ Takes /\ Counts /\ ~(bufs <= N) /\ AimedAt(t)'
           /\ buf_current' \in 1..MaxBuffers + 1 /\ buf_current <= buf_current'
           /\ held' \in [Transfers -> 0..MaxBuffers] /\ done' \subseteq 0..MaxBuffers
           /\ done' \subseteq done \cup {held[t]}
           /\ \A u \in Transfers \ {t} : held'[u] = held[u]
           /\ \E p \in [ptr : Nat, expected : Nat, total : Nat] : prg' = [prg EXCEPT ![t] = p]
           /\ \E l \in 0..Limit : length' = [length EXCEPT ![t] = l]
<1>. DEFINE b == buf_current
            p == [Counted EXCEPT !.ptr = 0, !.expected = size[b]]
            l == Min2(size[b], Limit)
<1>1. /\ b <= bufs /\ b' = b + 1 /\ held' = [held EXCEPT ![t] = b]
      /\ prg' = [prg EXCEPT ![t] = p] /\ length' = [length EXCEPT ![t] = l]
      /\ done' = done \cup {held[t]}
  BY DEF TakeBuffer
<1>2. /\ b \in Nat \ {0} /\ bufs \in 0..MaxBuffers /\ MaxBuffers \in Nat
      /\ Limit \in Nat /\ N \in Nat
  BY MaxBuffersAssumption, LimitAssumption, NAssumption DEF CInv, RInv, IInv, TypeOK
<1>3. b \in Buffers /\ b \in 0..MaxBuffers /\ b' \in 1..MaxBuffers + 1 /\ b <= b'
  BY <1>1, <1>2 DEF Buffers
<1>4. size[b] \in Nat /\ fill[b] = 0
  BY <1>2, <1>3, BuffersTyped, CallbackFacts DEF CInv, FillInv
<1>5. l \in 0..Limit /\ l <= size[b]
  BY <1>2, <1>4 DEF Min2
<1>6. /\ p \in [ptr : Nat, expected : Nat, total : Nat]
      /\ p.ptr = 0 /\ p.expected = size[b] /\ p.total \in Nat
  BY <1>4, CountedFields
<1>7. /\ prg'[t] = p /\ length'[t] = l /\ held'[t] = b
      /\ held' \in [Transfers -> 0..MaxBuffers]
      /\ \A u \in Transfers \ {t} : held'[u] = held[u]
  BY <1>1, <1>3 DEF CInv, CompleteTypeOK, TypeOK
<1>8. done' \subseteq 0..MaxBuffers
  <2>1. held[t] \in 0..MaxBuffers
    BY DEF CInv, CompleteTypeOK, TypeOK
  <2>. QED
    BY <1>1, <2>1 DEF CInv, CompleteTypeOK, TypeOK
<1>9. AimedAt(t)'
  <2>1. /\ prg'[t].ptr = fill'[held'[t]] /\ prg'[t].ptr <= prg'[t].total
        /\ prg'[t].expected = size'[held'[t]]
    BY <1>4, <1>6, <1>7
  <2>2. prg'[t].ptr + length'[t] <= size'[held'[t]] /\ length'[t] <= Limit
    <3>. HIDE DEF p, l
    <3>. QED
      BY <1>2, <1>4, <1>5, <1>6, <1>7
  <2>. QED
    BY <2>1, <2>2 DEF AimedAt
<1>10. ~(bufs <= N)
  <2>1. bufs <= N => b > bufs
    BY CallbackFacts DEF CInv, RoundInv
  <2>. QED
    BY <1>1, <1>2, <2>1
<1>. HIDE DEF p, l
<1>11. Takes /\ Counts
  BY <1>1 DEF Takes, Counts
<1>. QED
  BY <1>1, <1>3, <1>5, <1>6, <1>7, <1>8, <1>9, <1>10, <1>11

\* The buffer is not full: the rest of it is asked for.
LEMMA ContinueFacts ==
    ASSUME CInv, cb # NoCallback, ContinueBuffer, UNCHANGED <<size, fill>>,
           NEW t \in Transfers, t = cb.tfer
    PROVE  /\ Keeps /\ done' = done /\ AimedAt(t)' /\ UNCHANGED <<buf_current, held>>
           /\ bufs <= N => prg'[t].total = prg'[t].ptr
           /\ \E p \in [ptr : Nat, expected : Nat, total : Nat] : prg' = [prg EXCEPT ![t] = p]
           /\ \E l \in 0..Limit : length' = [length EXCEPT ![t] = l]
<1>. DEFINE p == [Counted EXCEPT !.ptr = @ + Subtotal]
            l == Min2(Counted.expected - Counted.total, Limit)
<1>1. /\ prg' = [prg EXCEPT ![t] = p] /\ length' = [length EXCEPT ![t] = l]
      /\ ~BufferFull /\ Keeps /\ UNCHANGED <<held, buf_current, done>>
  BY DEF ContinueBuffer, Keeps
<1>2. /\ Counted.ptr = prg[t].ptr /\ Counted.expected = prg[t].expected
      /\ Counted.total = prg[t].total + Subtotal
      /\ Counted \in [ptr : Nat, expected : Nat, total : Nat]
      /\ Counted.ptr + Subtotal \in Nat /\ Limit \in Nat
      /\ prg[t].ptr \in Nat /\ prg[t].total \in Nat /\ prg[t].expected \in Nat
      /\ Subtotal \in Nat
  BY CountedFields, CallbackFacts, LimitAssumption
<1>3. /\ p \in [ptr : Nat, expected : Nat, total : Nat]
      /\ p.ptr = prg[t].ptr + Subtotal /\ p.expected = prg[t].expected
      /\ p.total = prg[t].total + Subtotal
  <2>. HIDE DEF Counted
  <2>. QED
    BY <1>2
<1>4. prg[t].total + Subtotal < prg[t].expected
  BY <1>1, <1>2 DEF BufferFull
<1>5. l \in 0..Limit /\ l <= prg[t].expected - (prg[t].total + Subtotal)
  BY <1>2, <1>4 DEF Min2
<1>6. prg'[t] = p /\ length'[t] = l
  BY <1>1 DEF CInv, CompleteTypeOK
<1>7. /\ prg[t].ptr + Subtotal = fill[held[t]] /\ prg[t].ptr <= prg[t].total
      /\ prg[t].expected = size[held[t]]
  BY CallbackFacts DEF Landed, Subtotal
<1>. HIDE DEF p, l
<1>8. AimedAt(t)'
  <2>1. /\ prg'[t].ptr = fill'[held'[t]] /\ prg'[t].expected = size'[held'[t]]
    BY <1>1, <1>3, <1>6, <1>7
  <2>2. prg'[t].ptr <= prg'[t].total
    BY <1>2, <1>3, <1>6, <1>7
  <2>3. prg'[t].ptr + length'[t] <= size'[held'[t]] /\ length'[t] <= Limit
    BY <1>1, <1>2, <1>3, <1>4, <1>5, <1>6, <1>7
  <2>. QED
    BY <2>1, <2>2, <2>3 DEF AimedAt
<1>9. bufs <= N => prg'[t].total = prg'[t].ptr
  BY <1>2, <1>3, <1>6, CallbackFacts DEF CInv, RoundInv
<1>. QED
  BY <1>1, <1>3, <1>5, <1>8, <1>9

\* A callback that resubmits its transfer, or is refused.
LEMMA ResubmitFills ==
    ASSUME CInv, CompleteResubmit
    PROVE  CInv'
<1>1. /\ cb # NoCallback /\ cb' = NoCallback
      /\ TakeBuffer \/ ContinueBuffer
      /\ SubmitAgain \/ SubmitAgainFails
      /\ UNCHANGED <<size, fill, co, loop, next, used, bufs, total, stop, canc, moved>>
  BY DEF CompleteResubmit, SubmitAgain, SubmitAgainFails, ResumeOnZero, NoCallback, loopVars,
     opVars, stopVars
<1>. DEFINE t == cb.tfer
<1>2. PICK u \in Transfers : u = t
  BY <1>1, CallbackFacts
<1>3. /\ AimedAt(u)' /\ buf_current' \in 1..MaxBuffers + 1 /\ buf_current <= buf_current'
      /\ held' \in [Transfers -> 0..MaxBuffers] /\ done' \subseteq 0..MaxBuffers
      /\ done' \subseteq done \cup {held[u]}
      /\ \A v \in Transfers \ {u} : held'[v] = held[v]
      /\ \E p \in [ptr : Nat, expected : Nat, total : Nat] : prg' = [prg EXCEPT ![u] = p]
      /\ \E l \in 0..Limit : length' = [length EXCEPT ![u] = l]
      /\ bufs <= N => done' = done /\ prg'[u].total = prg'[u].ptr
      /\ (Takes /\ Counts) \/ (Keeps /\ done' = done /\ UNCHANGED <<buf_current, held>>)
  <2>1. CASE TakeBuffer
    BY <1>1, <1>2, <2>1, TakeFacts
  <2>2. CASE ContinueBuffer
    <3>1. /\ Keeps /\ done' = done /\ AimedAt(u)' /\ UNCHANGED <<buf_current, held>>
          /\ bufs <= N => prg'[u].total = prg'[u].ptr
          /\ \E p \in [ptr : Nat, expected : Nat, total : Nat] :
                prg' = [prg EXCEPT ![u] = p]
          /\ \E l \in 0..Limit : length' = [length EXCEPT ![u] = l]
      BY <1>1, <1>2, <2>2, ContinueFacts
    <3>2. /\ buf_current' \in 1..MaxBuffers + 1 /\ buf_current <= buf_current'
          /\ held' \in [Transfers -> 0..MaxBuffers] /\ done' \subseteq 0..MaxBuffers
          /\ \A v \in Transfers \ {u} : held'[v] = held[v]
      BY <3>1, MaxBuffersAssumption DEF CInv, CompleteTypeOK, TypeOK
    <3>. QED
      BY <3>1, <3>2
  <2>. QED
    BY <1>1, <2>1, <2>2
<1>4. DataTyped'
  <2>1. TypeOK /\ ec' \in {"none", "cancelled", "error", "submit"}
    BY <1>1 DEF SubmitAgain, SubmitAgainFails, CInv, CompleteTypeOK, TypeOK
  <2>. QED
    BY <1>1, <1>3, <2>1 DEF DataTyped, TypeOK
<1>5. ASSUME RInv', Retires \/ Recurs PROVE CInv'
  <2>1. PICK p \in [ptr : Nat, expected : Nat, total : Nat] : prg' = [prg EXCEPT ![t] = p]
    BY <1>2, <1>3
  <2>2. \E l \in 0..Limit : length' = [length EXCEPT ![t] = l]
    BY <1>2, <1>3
  <2>3. CompleteTypeOK' /\ Elsewhere
    BY <1>1, <1>2, <1>3, <1>5, <2>1, <2>2, ProgressTyped DEF Elsewhere, RInv, IInv
  <2>4. buf_current' \in Nat
    BY <1>3, MaxBuffersAssumption
  <2>5. FillInv' /\ RoundInv'
    <3>1. CASE Retires
      <4>1. bufs <= N => held[t] \notin done'
        BY <1>1, <1>3, CallbackFacts
      <4>. QED
        BY <1>1, <1>2, <1>3, <2>3, <2>4, <3>1, <4>1, RetireFills
    <3>2. CASE Recurs
      BY <1>1, <1>2, <1>3, <2>3, <2>4, <3>2, RecurFills
    <3>. QED
      BY <1>5, <3>1, <3>2
  <2>. QED
    BY <1>5, <2>3, <2>5 DEF CInv
<1>6. CASE SubmitAgain
  <2>1. Recurs
    BY <1>1, <1>6 DEF SubmitAgain, UsbSubmit, Recurs
  <2>2. IInv'
    BY <1>1, <1>4, <1>6, CallbackGoesOn DEF SubmitAgain, CInv, RInv, loopVars, opVars, stopVars
  <2>3. CASE Takes /\ Counts
    <3>1. OrderInv' /\ DoneInv'
      BY <2>1, <2>3, NextBuffers, CountedDone DEF CInv, RInv
    <3>. QED
      BY <1>5, <2>1, <2>2, <3>1 DEF RInv
  <2>4. CASE Keeps /\ done' = done /\ UNCHANGED <<buf_current, held>>
    <3>1. Working' = Working
      BY <1>1, <1>6, CallbackFacts
      DEF SubmitAgain, UsbSubmit, Working, Owed, Unsubmitted, InCallback
    <3>2. OrderInv'
      BY <1>1, <1>6, <2>4, <3>1, Quiet DEF SubmitAgain, CInv, RInv
    <3>3. DoneInv'
      BY <1>1, <2>4, <3>1, DoneKept DEF CInv, RInv
    <3>. QED
      BY <1>5, <2>1, <2>2, <3>2, <3>3 DEF RInv
  <2>. QED
    BY <1>3, <2>3, <2>4
<1>7. CASE SubmitAgainFails
  <2>1. Retires /\ ec' = "submit"
    BY <1>1, <1>7 DEF SubmitAgainFails, Retires, usbVars
  <2>2. IInv'
    BY <1>1, <1>4, <1>7, CallbackEnds
    DEF SubmitAgainFails, CInv, RInv, loopVars, opVars, stopVars
  <2>3. CASE Takes /\ Counts
    <3>1. OrderInv' /\ DoneInv'
      BY <2>1, <2>3, RefusedBuffers, CountedDone DEF CInv, RInv
    <3>. QED
      BY <1>5, <2>1, <2>2, <3>1 DEF RInv
  <2>4. CASE Keeps /\ done' = done /\ UNCHANGED <<buf_current, held>>
    <3>1. OrderInv'
      BY <2>1, <2>4, FailedBuffers DEF CInv, RInv
    <3>2. DoneInv'
      BY <1>1, <2>1, <2>4, Retired, DoneKept DEF Retires, CInv, RInv
    <3>. QED
      BY <1>5, <2>1, <2>2, <3>1, <3>2 DEF RInv
  <2>. QED
    BY <1>3, <2>3, <2>4
<1>. QED
  BY <1>1, <1>6, <1>7

-----------------------------------------------------------------------------
(* The theorems                                                            *)

(***************************************************************************)
(* Every step of the complete operation keeps the invariant: buffers are   *)
(* given out once, each transfer aims at what its buffer lacks, and with a *)
(* buffer per transfer the bytes counted are those of the one buffer.      *)
(***************************************************************************)
THEOREM CompleteInvariance == CompleteSafeSpec => []CInv
<1>1. CInv /\ [CompleteNext]_completeVars => CInv'
  <2>. SUFFICES ASSUME CInv, [CompleteNext]_completeVars PROVE CInv'
    OBVIOUS
  <2>1. CASE \E m \in 0..MaxBuffers : CompleteSubmit(m)
    BY <2>1, PartialSteps, SubmitFills DEF CInv
  <2>2. CASE CompleteSuspend
    BY <2>2, PartialSteps, SuspendFills DEF CInv
  <2>3. CASE AsPartial \/ UNCHANGED completeVars
    BY <2>3, PartialSteps, AsPartialFills DEF CInv
  <2>4. CASE \E t \in Transfers, c \in Completions : CompleteReap(t, c)
    BY <2>4, PartialSteps, ReapFills DEF CInv
  <2>5. CASE CompleteFailed \/ CompleteDrained \/ CompleteResubmit
    BY <2>5, FailedFills, DrainedFills, ResubmitFills
  <2>. QED
    BY <2>1, <2>2, <2>3, <2>4, <2>5 DEF CompleteNext
<1>. QED
  BY <1>1, InitCInv, PTL DEF CompleteSafeSpec

(***************************************************************************)
(* complete_submit() resumes its caller with nothing in flight, no         *)
(* callback running and the submission loop over, as submit() does.        *)
(***************************************************************************)
THEOREM CompleteResumedInQuiet == CompleteSafeSpec => []QuiescentAtResume
<1>1. CInv => QuiescentAtResume
  BY PostedMeansQuiet DEF CInv, RInv
<1>. QED
  BY <1>1, CompleteInvariance, PTL

(***************************************************************************)
(* A transfer in flight writes right behind the bytes its buffer already   *)
(* has, and neither past the buffer's end nor past single_transfer_limit.  *)
(***************************************************************************)
THEOREM InBoundsTheorem == CompleteSafeSpec => []InBounds
<1>1. CInv => InBounds
  <2>. SUFFICES ASSUME CInv, NEW t \in flight
                PROVE  /\ prg[t].ptr = fill[held[t]]
                       /\ prg[t].ptr + length[t] <= size[held[t]]
                       /\ length[t] <= Limit
    BY DEF InBounds
  <2>1. co = "suspended" /\ t \in Owed
    BY DEF CInv, RInv, IInv, PhaseInv, Owed
  <2>. QED
    BY <2>1 DEF CInv, FillInv, AimedAt
<1>. QED
  BY <1>1, CompleteInvariance, PTL

(***************************************************************************)
(* With a buffer for each transfer, a bulk operation that succeeds has     *)
(* filled every buffer to its end.                                         *)
(***************************************************************************)
THEOREM SingleRoundTheorem ==
    CompleteSafeSpec => [](TransferType = "bulk" => SingleRoundFills)
<1>1. CInv => (TransferType = "bulk" => SingleRoundFills)
  BY DEF CInv, RInv, OrderInv, SuccessInv, SuccessMeansAll, RoundInv, SingleRoundFills
<1>. QED
  BY <1>1, CompleteInvariance, PTL

-----------------------------------------------------------------------------
(* The sum that await_resume() returns                                     *)

(***************************************************************************)
(* Once a callback found an error, its bytes are not counted any more.     *)
(* Until then the transfers' totals, and what the running callback is      *)
(* about to add, are all that the device moved.  An isochronous transfer   *)
(* may replace an error by its packet's success: a callback that has       *)
(* looked at ec has to keep the sum whatever ec is now.                    *)
(***************************************************************************)
SumInv ==
    /\ co = "called" => \A t \in Transfers : prg[t].total = 0
    /\ ec = "none" \/ cb.pc = "live" => ReturnedTotal + Unseen = moved

Totals == [t \in Transfers |-> prg[t].total]

\* f adds up the first n values of g.
AddsUp(n, f, g) ==
    /\ f \in [0..n -> Nat] /\ f[0] = 0
    /\ \A t \in 1..n : f[t] = f[t - 1] + g[t]

\* The least element of a set of numbers: what the inductions below rest on.
LEMMA Least ==
    ASSUME NEW S, S \subseteq Nat, S # {}
    PROVE  \E n \in S : \A m \in S : n <= m
<1>. DEFINE R == {p \in Nat \X Nat : p[1] < p[2]}
<1>1. IsWellFoundedOn(R, Nat)
  BY NatLessThanWellFounded DEF OpToRel
<1>2. PICK n \in S : \A m \in S : ~(<<m, n>> \in R)
  <2>. HIDE DEF R
  <2>. QED
    BY <1>1, WFMin
<1>3. ASSUME NEW m \in S, m < n PROVE FALSE
  <2>1. <<m, n>> \in R
    BY <1>3
  <2>. QED
    BY <1>2, <2>1
<1>. QED
  BY <1>3

\* There are partial sums.
LEMMA SumsExist ==
    ASSUME NEW g \in [Transfers -> Nat]
    PROVE  \E f : AddsUp(N, f, g)
<1>. DEFINE Bad == {n \in 0..N : ~ \E f : AddsUp(n, f, g)}
<1>. SUFFICES ASSUME Bad # {} PROVE FALSE
  BY NAssumption
<1>1. PICK n \in Bad : \A m \in Bad : n <= m
  <2>1. Bad \subseteq Nat
    BY NAssumption
  <2>. HIDE DEF Bad
  <2>. QED
    BY <2>1, Least
<1>2. n # 0
  <2>. DEFINE z == [t \in 0..0 |-> 0]
  <2>1. AddsUp(0, z, g)
    BY DEF AddsUp
  <2>. QED
    BY <2>1
<1>3. n \in 1..N /\ n - 1 \in 0..N /\ n - 1 \notin Bad
  BY <1>1, <1>2, NAssumption
<1>4. PICK f : AddsUp(n - 1, f, g)
  BY <1>3
<1>. DEFINE h == [t \in 0..n |-> IF t = n THEN f[n - 1] + g[n] ELSE f[t]]
<1>5. AddsUp(n, h, g)
  <2>1. f[n - 1] \in Nat /\ g[n] \in Nat
    BY <1>3, <1>4, NAssumption DEF AddsUp, Transfers
  <2>2. \A t \in 0..n : h[t] \in Nat
    BY <1>3, <1>4, <2>1, NAssumption DEF AddsUp
  <2>3. h[0] = 0
    BY <1>3, <1>4, NAssumption DEF AddsUp
  <2>4. ASSUME NEW t \in 1..n PROVE h[t] = h[t - 1] + g[t]
    <3>1. CASE t = n
      BY <1>3, <1>4, <3>1, NAssumption
    <3>2. CASE t # n
      BY <1>3, <1>4, <3>2, NAssumption DEF AddsUp
    <3>. QED
      BY <3>1, <3>2
  <2>. QED
    BY <2>2, <2>3, <2>4 DEF AddsUp
<1>. QED
  BY <1>1, <1>5

\* Subtotals are partial sums of the totals.
LEMMA SubtotalsAdd == CompleteTypeOK => AddsUp(N, Subtotals, Totals)
<1>. SUFFICES ASSUME CompleteTypeOK PROVE AddsUp(N, Subtotals, Totals)
  OBVIOUS
<1>1. Totals \in [Transfers -> Nat]
  <2>. SUFFICES ASSUME NEW t \in Transfers PROVE prg[t].total \in Nat
    BY DEF Totals
  <2>1. prg[t] \in [ptr : Nat, expected : Nat, total : Nat]
    BY DEF CompleteTypeOK
  <2>. QED
    BY <2>1
<1>. DEFINE P(f) == f = [t \in 0..N |-> IF t = 0 THEN 0 ELSE f[t - 1] + prg[t].total]
<1>2. \E f : P(f)
  <2>1. PICK f : AddsUp(N, f, Totals)
    BY <1>1, SumsExist
  <2>2. P(f)
    BY <2>1, NAssumption DEF AddsUp, Totals, Transfers
  <2>. QED
    BY <2>2
<1>3. P(Subtotals)
  <2>1. Subtotals = CHOOSE f : P(f)
    BY DEF Subtotals
  <2>. HIDE DEF P
  <2>2. P(CHOOSE f : P(f))
    BY <1>2
  <2>. QED
    BY <2>1, <2>2
<1>4. Subtotals = [t \in 0..N |-> IF t = 0 THEN 0 ELSE Subtotals[t - 1] + prg[t].total]
  BY <1>3
<1>. HIDE DEF P
<1>5. Subtotals[0] = 0
  BY <1>4, NAssumption
<1>6. \A t \in 1..N : Subtotals[t] = Subtotals[t - 1] + Totals[t]
  BY <1>4, NAssumption DEF Totals, Transfers
<1>7. \A n \in 0..N : Subtotals[n] \in Nat
  <2>. DEFINE Bad == {n \in 0..N : Subtotals[n] \notin Nat}
  <2>. SUFFICES ASSUME Bad # {} PROVE FALSE
    OBVIOUS
  <2>1. PICK n \in Bad : \A m \in Bad : n <= m
    <3>1. Bad \subseteq Nat
      BY NAssumption
    <3>. HIDE DEF Bad
    <3>. QED
      BY <3>1, Least
  <2>2. n # 0
    BY <1>5
  <2>3. n \in 1..N /\ n - 1 \in 0..N /\ Subtotals[n - 1] \in Nat
    BY <2>1, <2>2, NAssumption
  <2>4. Subtotals[n] = Subtotals[n - 1] + Totals[n]
    BY <1>6, <2>3
  <2>5. Totals[n] \in Nat
    BY <1>1, <2>3 DEF Transfers
  <2>. QED
    BY <2>3, <2>4, <2>5
<1>. QED
  BY <1>4, <1>5, <1>6, <1>7 DEF AddsUp

\* The same of the next state.
LEMMA SubtotalsAddNext == CompleteTypeOK' => AddsUp(N, Subtotals', Totals')
<1>1. (CompleteTypeOK => AddsUp(N, Subtotals, Totals))'
  BY SubtotalsAdd, PTL
<1>. QED
  BY <1>1 DEF AddsUp

\* A sum grows by what one of its summands grows.
LEMMA SumGrows ==
    ASSUME NEW f, NEW g \in [Transfers -> Nat], AddsUp(N, f, g),
           NEW f2, NEW g2 \in [Transfers -> Nat], AddsUp(N, f2, g2),
           NEW u \in Transfers, NEW d \in Nat, g2[u] = g[u] + d,
           \A t \in Transfers \ {u} : g2[t] = g[t]
    PROVE  f2[N] = f[N] + d
<1>. DEFINE more(n) == IF n < u THEN 0 ELSE d
            Bad == {n \in 0..N : f2[n] # f[n] + more(n)}
<1>0. u \in 1..N /\ N \in Nat
  BY NAssumption DEF Transfers
<1>1. Bad = {}
  <2>. SUFFICES ASSUME Bad # {} PROVE FALSE
    OBVIOUS
  <2>1. PICK n \in Bad : \A m \in Bad : n <= m
    <3>1. Bad \subseteq Nat
      BY <1>0
    <3>. HIDE DEF Bad
    <3>. QED
      BY <3>1, Least
  <2>2. n # 0
    BY <1>0, <2>1 DEF AddsUp
  <2>3. n \in 1..N /\ n - 1 \in 0..N /\ n - 1 \notin Bad
    BY <1>0, <2>1, <2>2
  <2>4. f2[n - 1] = f[n - 1] + more(n - 1)
    BY <2>3
  <2>5. f2[n] = f2[n - 1] + g2[n] /\ f[n] = f[n - 1] + g[n]
    BY <2>3 DEF AddsUp
  <2>6. /\ f[n - 1] \in Nat /\ f2[n - 1] \in Nat /\ g[n] \in Nat /\ g2[n] \in Nat
    BY <2>3 DEF AddsUp, Transfers
  <2>7. g2[n] = IF n = u THEN g[n] + d ELSE g[n]
    BY <2>3 DEF Transfers
  <2>8. f2[n] = f[n] + more(n)
    BY <1>0, <2>3, <2>4, <2>5, <2>6, <2>7
  <2>. QED
    BY <2>1, <2>8
<1>. QED
  BY <1>0, <1>1

\* Nothing adds up to nothing.
LEMMA SumOfZeros ==
    ASSUME NEW f, NEW g, AddsUp(N, f, g), \A t \in Transfers : g[t] = 0
    PROVE  f[N] = 0
<1>. DEFINE Bad == {n \in 0..N : f[n] # 0}
<1>1. Bad = {}
  <2>. SUFFICES ASSUME Bad # {} PROVE FALSE
    OBVIOUS
  <2>1. PICK n \in Bad : \A m \in Bad : n <= m
    <3>1. Bad \subseteq Nat
      BY NAssumption
    <3>. HIDE DEF Bad
    <3>. QED
      BY <3>1, Least
  <2>2. n # 0
    BY <2>1 DEF AddsUp
  <2>3. n \in 1..N /\ n - 1 \in 0..N /\ f[n - 1] = 0
    BY <2>1, <2>2, NAssumption
  <2>4. f[n] = f[n - 1] + g[n] /\ g[n] = 0
    BY <2>3 DEF AddsUp, Transfers
  <2>. QED
    BY <2>1, <2>3, <2>4
<1>. QED
  BY <1>1, NAssumption

\* The sums before and after a step that counts d more bytes of a transfer.
LEMMA Counting ==
    ASSUME CompleteTypeOK, CompleteTypeOK', NEW u \in Transfers, NEW d \in Nat,
           prg'[u].total = prg[u].total + d,
           \A t \in Transfers \ {u} : prg'[t] = prg[t]
    PROVE  ReturnedTotal' = ReturnedTotal + d
<1>1. AddsUp(N, Subtotals, Totals) /\ AddsUp(N, Subtotals', Totals')
  BY SubtotalsAdd, SubtotalsAddNext
<1>2. Totals \in [Transfers -> Nat] /\ Totals' \in [Transfers -> Nat]
  <2>1. ASSUME NEW t \in Transfers PROVE prg[t].total \in Nat /\ prg'[t].total \in Nat
    <3>1. /\ prg[t] \in [ptr : Nat, expected : Nat, total : Nat]
          /\ prg'[t] \in [ptr : Nat, expected : Nat, total : Nat]
      BY DEF CompleteTypeOK
    <3>. QED
      BY <3>1
  <2>. QED
    BY <2>1 DEF Totals
<1>3. /\ Totals'[u] = Totals[u] + d
      /\ \A t \in Transfers \ {u} : Totals'[t] = Totals[t]
  BY DEF Totals
<1>. QED
  BY <1>1, <1>2, <1>3, SumGrows DEF ReturnedTotal

\* While nothing was counted, there is nothing to return.
LEMMA NothingCounted ==
    ASSUME CompleteTypeOK', \A t \in Transfers : prg'[t].total = 0
    PROVE  ReturnedTotal' = 0
<1>1. \A t \in Transfers : Totals'[t] = 0
  BY DEF Totals
<1>. QED
  BY <1>1, SubtotalsAddNext, SumOfZeros DEF ReturnedTotal

\* The same totals have the same sum.
LEMMA SameTotals ==
    ASSUME CompleteTypeOK, CompleteTypeOK',
           \A t \in Transfers : prg'[t].total = prg[t].total
    PROVE  ReturnedTotal' = ReturnedTotal /\ ReturnedTotal \in Nat
<1>1. AddsUp(N, Subtotals, Totals) /\ AddsUp(N, Subtotals', Totals')
  BY SubtotalsAdd, SubtotalsAddNext
<1>2. Totals' = Totals
  BY DEF Totals
<1>3. ReturnedTotal \in Nat /\ ReturnedTotal' \in Nat
  BY <1>1, NAssumption DEF AddsUp, ReturnedTotal
<1>. DEFINE z == [t \in Transfers |-> 0]
<1>4. CASE Transfers = {}
  <2>1. N = 0
    BY <1>4, NAssumption DEF Transfers
  <2>. QED
    BY <1>1, <1>3, <2>1 DEF AddsUp, ReturnedTotal
<1>5. CASE Transfers # {}
  <2>1. PICK u \in Transfers : TRUE
    BY <1>5
  <2>2. Totals \in [Transfers -> Nat]
    <3>1. ASSUME NEW t \in Transfers PROVE prg[t].total \in Nat
      <4>1. prg[t] \in [ptr : Nat, expected : Nat, total : Nat]
        BY DEF CompleteTypeOK
      <4>. QED
        BY <4>1
    <3>. QED
      BY <3>1 DEF Totals
  <2>3. Totals[u] = Totals[u] + 0
    BY <2>1, <2>2
  <2>4. Subtotals'[N] = Subtotals[N] + 0
    BY <1>1, <1>2, <2>1, <2>2, <2>3, SumGrows
  <2>. QED
    BY <1>3, <2>4 DEF ReturnedTotal
<1>. QED
  BY <1>4, <1>5

\* A callback's transfer is counted: what was unseen is in the sum.
LEMMA CallbackSum ==
    ASSUME CInv, CInv', SumInv, cb.pc = "live", cb # NoCallback, cb' = NoCallback,
           moved' = moved, co' = co,
           prg'[cb.tfer].total = prg[cb.tfer].total + Subtotal,
           \A u \in Transfers \ {cb.tfer} : prg'[u] = prg[u]
    PROVE  SumInv'
<1>1. co = "suspended" /\ cb.tfer \in Transfers /\ Subtotal \in Nat /\ Unseen = Subtotal
  BY CallbackFacts DEF Unseen, Subtotal
<1>2. ReturnedTotal' = ReturnedTotal + Subtotal
  BY <1>1, Counting DEF CInv
<1>3. ReturnedTotal + Subtotal = moved /\ Unseen' = 0
  BY <1>1 DEF SumInv, Unseen
<1>4. moved' \in Nat
  BY DEF CInv, RInv, IInv, TypeOK
<1>. QED
  BY <1>1, <1>2, <1>3, <1>4 DEF SumInv

\* No byte is counted, moved or overlooked.
LEMMA SumKept ==
    ASSUME CInv, CInv', SumInv, UNCHANGED <<prg, moved>>,
           ec' = "none" \/ cb'.pc = "live" => Unseen' = Unseen /\ (ec = "none" \/ cb.pc = "live"),
           co' = "called" => co = "called"
    PROVE  SumInv'
<1>1. ReturnedTotal' = ReturnedTotal
  BY SameTotals DEF CInv
<1>. QED
  BY <1>1 DEF SumInv

\* Before the first operation nothing was counted.
LEMMA InitSumInv == CompleteInit => SumInv
<1>. SUFFICES ASSUME CompleteInit PROVE SumInv
  OBVIOUS
<1>1. \A t \in Transfers : Totals[t] = 0
  BY DEF CompleteInit, NoProgress, Totals
<1>2. AddsUp(N, Subtotals, Totals)
  BY InitCInv, SubtotalsAdd DEF CInv
<1>3. ReturnedTotal = 0 /\ moved = 0 /\ Unseen = 0 /\ co = "idle"
  BY <1>1, <1>2, SumOfZeros DEF ReturnedTotal, CompleteInit, Init, Unseen
<1>. QED
  BY <1>3 DEF SumInv

\* Every step keeps the sum.
LEMMA NextSumInv ==
    ASSUME CInv, CInv', SumInv, [CompleteNext]_completeVars
    PROVE  SumInv'
<1>0. CompleteTypeOK /\ CompleteTypeOK' /\ NoCallback.pc = "none"
  BY DEF CInv, NoCallback
<1>1. ASSUME NEW m \in 0..MaxBuffers, CompleteSubmit(m) PROVE SumInv'
  <2>1. /\ \A t \in Transfers : prg'[t].total = 0
        /\ moved' = 0 /\ cb' = NoCallback
    BY <1>1 DEF CompleteSubmit, Submit, NoProgress, CInv, RInv, IInv, PhaseInv
  <2>2. ReturnedTotal' = 0 /\ Unseen' = 0
    BY <1>0, <2>1, NothingCounted DEF Unseen
  <2>. QED
    BY <2>1, <2>2 DEF SumInv
<1>2. CASE CompleteSuspend
  <2>1. /\ co = "called" /\ co' = "suspended" /\ UNCHANGED <<cb, ec, moved>>
        /\ prg' = [t \in Transfers |->
                     IF t <= used THEN [NoProgress EXCEPT !.expected = size[t]] ELSE prg[t]]
    BY <1>2 DEF CompleteSuspend, AwaitSuspend, ghostVars
  <2>2. ASSUME NEW t \in Transfers PROVE prg'[t].total = prg[t].total
    <3>1. prg[t].total = 0
      BY <2>1 DEF SumInv
    <3>2. [NoProgress EXCEPT !.expected = size[t]].total = 0
      BY DEF NoProgress
    <3>. QED
      BY <2>1, <3>1, <3>2
  <2>3. ReturnedTotal' = ReturnedTotal /\ Unseen' = Unseen
    BY <1>0, <2>1, <2>2, SameTotals DEF Unseen
  <2>. QED
    BY <2>1, <2>3 DEF SumInv
<1>3. CASE AsPartial \/ UNCHANGED completeVars
  <2>1. UNCHANGED <<prg, moved>> /\ (co' = "called" => co = "called")
    BY <1>3 DEF AsPartial, AwaitReady, AwaitStopped, Resume, Return, SubmissionLoop,
       LoopSubmit, LoopSubmitFails, LoopRecordError, CallbackErrored, CallbackLive,
       RequestStop, CancelNext, CancelTransfer, completeVars, vars, sizeVars, ghostVars
  <2>2. CASE CallbackErrored
    BY <1>0, <2>1, <2>2, SumKept DEF CallbackErrored, ResumeOnZero
  <2>3. CASE CallbackLive
    <3>1. cb # NoCallback /\ ec = "none" /\ ec' = ec
      BY <1>0, <2>3 DEF CallbackLive, awaitVars
    <3>2. cb' # NoCallback /\ cb'.result = cb.result
      BY <1>0, <2>3, <3>1, CallbackTyped DEF CallbackLive, NoCallback, CInv, CompleteTypeOK
    <3>3. Unseen' = Unseen
      BY <3>1, <3>2 DEF Unseen
    <3>. QED
      BY <2>1, <3>1, <3>3, SumKept
  <2>4. CASE ~(CallbackErrored \/ CallbackLive)
    <3>1. cb' = cb /\ (ec' = "none" => ec = "none")
      BY <1>3, <2>4 DEF AsPartial, AwaitReady, AwaitStopped, Resume, Return, SubmissionLoop,
         LoopSubmit, LoopSubmitFails, LoopRecordError, RequestStop, CancelNext,
         CancelTransfer, completeVars, vars, awaitVars
    <3>2. Unseen' = Unseen
      BY <3>1 DEF Unseen
    <3>. QED
      BY <2>1, <3>1, <3>2, SumKept
  <2>. QED
    BY <2>2, <2>3, <2>4
<1>4. ASSUME NEW t \in Transfers, NEW c \in Completions, CompleteReap(t, c) PROVE SumInv'
  <2>1. /\ cb = NoCallback /\ cb' = [pc |-> "entered", tfer |-> t, result |-> c]
        /\ UNCHANGED <<co, ec, prg>> /\ moved' = moved + c.actual
    BY <1>4 DEF CompleteReap, Reap
  <2>2. cb' # NoCallback /\ cb'.pc = "entered" /\ cb'.result = c
    BY <2>1 DEF NoCallback
  <2>3. Unseen = 0 /\ Unseen' = c.actual
    BY <2>1, <2>2 DEF Unseen
  <2>4. ReturnedTotal' = ReturnedTotal /\ ReturnedTotal \in Nat
    BY <1>0, <2>1, SameTotals
  <2>5. c.actual \in Nat /\ moved \in Nat
    BY <1>0, CompletionsAssumption DEF Completion, CompleteTypeOK, TypeOK
  <2>. QED
    BY <2>1, <2>2, <2>3, <2>4, <2>5 DEF SumInv
<1>5. CASE CompleteFailed \/ CompleteDrained
  <2>1. /\ cb.pc = "live" /\ cb # NoCallback /\ cb' = NoCallback /\ moved' = moved /\ co' = co
        /\ prg' = [prg EXCEPT ![cb.tfer] = Counted]
    BY <1>0, <1>5 DEF CompleteFailed, CompleteDrained, ResumeOnZero, ghostVars
  <2>2. /\ prg'[cb.tfer].total = prg[cb.tfer].total + Subtotal
        /\ \A u \in Transfers \ {cb.tfer} : prg'[u] = prg[u]
    BY <1>0, <2>1, CallbackFacts, CountedFields DEF CompleteTypeOK
  <2>. QED
    BY <2>1, <2>2, CallbackSum
<1>6. CASE CompleteResubmit
  <2>1. /\ cb.pc = "live" /\ cb # NoCallback /\ cb' = NoCallback /\ moved' = moved /\ co' = co
    BY <1>0, <1>6 DEF CompleteResubmit, SubmitAgain, SubmitAgainFails, ResumeOnZero
  <2>2. PICK p : prg' = [prg EXCEPT ![cb.tfer] = p] /\ p.total = Counted.total
    <3>1. Counted \in [ptr : Nat, expected : Nat, total : Nat]
      BY <2>1, CountedFields
    <3>2. CASE TakeBuffer
      <4>1. [Counted EXCEPT !.ptr = 0, !.expected = size[buf_current]].total = Counted.total
        BY <3>1
      <4>. QED
        BY <3>2, <4>1 DEF TakeBuffer
    <3>3. CASE ContinueBuffer
      <4>1. [Counted EXCEPT !.ptr = @ + Subtotal].total = Counted.total
        BY <3>1
      <4>. QED
        BY <3>3, <4>1 DEF ContinueBuffer
    <3>. QED
      BY <1>6, <3>2, <3>3 DEF CompleteResubmit
  <2>3. /\ prg'[cb.tfer].total = prg[cb.tfer].total + Subtotal
        /\ \A u \in Transfers \ {cb.tfer} : prg'[u] = prg[u]
    BY <1>0, <2>1, <2>2, CallbackFacts, CountedFields DEF CompleteTypeOK
  <2>. QED
    BY <2>1, <2>3, CallbackSum
<1>. QED
  BY <1>1, <1>2, <1>3, <1>4, <1>5, <1>6 DEF CompleteNext

(***************************************************************************)
(* A success of complete_submit() returns every byte that the device       *)
(* moved, whatever the transfers were cut into.                            *)
(***************************************************************************)
THEOREM ReportsAllTheorem == CompleteSafeSpec => []ReportsAllBytes
<1>1. CompleteInit => SumInv
  BY InitSumInv
<1>2. CInv /\ CInv' /\ SumInv /\ [CompleteNext]_completeVars => SumInv'
  BY NextSumInv
<1>3. CInv /\ SumInv => ReportsAllBytes
  <2>. SUFFICES ASSUME CInv, SumInv, co = "resumed", ec = "none"
                PROVE  ReturnedTotal = moved
    BY DEF ReportsAllBytes
  <2>1. Unseen = 0
    BY DEF CInv, RInv, IInv, PhaseInv, Unseen
  <2>2. ReturnedTotal \in Nat
    BY SubtotalsAdd, NAssumption DEF CInv, AddsUp, ReturnedTotal
  <2>. QED
    BY <2>1, <2>2 DEF SumInv
<1>. QED
  BY <1>1, <1>2, <1>3, CompleteInvariance, PTL DEF CompleteSafeSpec

(***************************************************************************)
(* What await_resume() reports of a bulk operation: on success the bytes   *)
(* that the device moved, and with a buffer per transfer full buffers.     *)
(***************************************************************************)
THEOREM ReportTheorem ==
    ASSUME TransferType = "bulk"
    PROVE  CompleteSafeSpec => []ReportSound
<1>1. ReportsAllBytes /\ SingleRoundFills => ReportSound
  BY DEF ReportSound
<1>. QED
  BY <1>1, ReportsAllTheorem, SingleRoundTheorem, PTL

-----------------------------------------------------------------------------
(* What is left to do                                                      *)

\* What a callback that brought bytes may still ask for.
Credit == IF cb # NoCallback /\ cb.result.actual > 0 THEN 3 ELSE 0

\* Without a callback nothing is credited.
LEMMA CreditOfNone ==
    /\ Credit \in {0, 3} /\ CompleteWork = Work + Credit
    /\ cb = NoCallback => Credit = 0
    /\ (cb = NoCallback => Credit = 0)'
BY DEF Credit, CompleteWork

\* While the coroutine is suspended the work is a number.
LEMMA CompleteWorkIsNat ==
    CInv /\ co = "suspended" => CompleteWork \in Nat /\ Work \in Nat
<1>. SUFFICES ASSUME CInv, co = "suspended"
              PROVE  CompleteWork \in Nat /\ Work \in Nat
  OBVIOUS
<1>1. Work \in Nat
  BY WorkIsNat DEF CInv, RInv, OrderInv
<1>. QED
  BY <1>1, CreditOfNone

\* Work that goes down while no callback is credited anew.
LEMMA LessInAll ==
    ASSUME CInv, co = "suspended", CInv', co' = "suspended",
           Work > Work', Credit' <= Credit
    PROVE  CompleteWork > CompleteWork'
<1>1. Work \in Nat /\ Work' \in Nat
  <2>1. (CInv /\ co = "suspended" => CompleteWork \in Nat /\ Work \in Nat)'
    BY CompleteWorkIsNat, PTL
  <2>. QED
    BY <2>1, CompleteWorkIsNat
<1>2. Credit \in {0, 3} /\ Credit' \in {0, 3}
  BY DEF Credit
<1>3. CompleteWork = Work + Credit /\ CompleteWork' = Work' + Credit'
  BY DEF Credit, CompleteWork
<1>4. ASSUME NEW w \in Nat, NEW v \in Nat, NEW c \in {0, 3}, NEW d \in {0, 3},
             w > v, d <= c
      PROVE  w + c > v + d
  BY <1>4
<1>. QED
  BY <1>1, <1>2, <1>3, <1>4

\* A transfer that moved bytes fills its buffer up, not over its end.
LEMMA ReapedBytesFill ==
    ASSUME CInv, NEW t \in Transfers, NEW c \in Completions, CompleteReap(t, c),
           c.actual # 0
    PROVE  FillsUp
<1>. DEFINE b == held[t]
<1>1. /\ t \in flight /\ c.actual <= length[t]
      /\ fill' = [fill EXCEPT ![b] = @ + c.actual]
  BY DEF CompleteReap, Reap, UsbReap
<1>2. c.actual \in Nat
  BY CompletionsAssumption DEF Completion
<1>3. co = "suspended" /\ t \in Owed /\ t \in Working
  <2>1. co = "suspended"
    BY <1>1 DEF CInv, RInv, IInv, PhaseInv
  <2>. QED
    BY <1>1, <2>1 DEF Owed, Working
<1>4. /\ b \in Buffers /\ fill[b] \in Nat /\ size[b] \in Nat
      /\ prg[t].ptr \in Nat /\ length[t] \in Nat
  BY <1>3, BuffersTyped
<1>5. prg[t].ptr = fill[b] /\ prg[t].ptr + length[t] <= size[b]
  BY <1>3 DEF CInv, FillInv, AimedAt
<1>6. /\ fill'[b] = fill[b] + c.actual
      /\ \A x \in Buffers \ {b} : fill'[x] = fill[x]
  BY <1>1, <1>4 DEF CInv, CompleteTypeOK
<1>. HIDE DEF b
<1>7. fill'[b] > fill[b] /\ fill'[b] <= size[b]
  BY <1>1, <1>2, <1>4, <1>5, <1>6
<1>. QED
  BY <1>4, <1>6, <1>7 DEF FillsUp

\* One that moved none only ends.
LEMMA ReapedNothing ==
    ASSUME CInv, CInv', NEW t \in Transfers, NEW c \in Completions, CompleteReap(t, c),
           c.actual = 0
    PROVE  fill' = fill /\ CompleteWork > CompleteWork'
<1>1. /\ Reap(t, c) /\ cb = NoCallback /\ cb'.result = c /\ co' = co /\ t \in flight
      /\ fill' = [fill EXCEPT ![held[t]] = @ + c.actual]
  BY DEF CompleteReap, Reap, UsbReap
<1>2. co = "suspended" /\ t \in Working
  <2>1. co = "suspended"
    BY <1>1 DEF CInv, RInv, IInv, PhaseInv
  <2>. QED
    BY <1>1, <2>1 DEF Owed, Working
<1>3. fill' = fill
  <2>1. held[t] \in Buffers /\ fill[held[t]] \in Nat
    BY <1>2, BuffersTyped
  <2>2. fill[held[t]] + c.actual = fill[held[t]]
    BY <2>1
  <2>3. fill' = [fill EXCEPT ![held[t]] = fill[held[t]]]
    BY <1>1, <2>2
  <2>4. fill \in [Buffers -> Nat]
    BY DEF CInv, CompleteTypeOK
  <2>. QED
    BY <2>3, <2>4
<1>4. Work > Work'
  BY <1>1, <1>2, ReapLess DEF CInv, RInv, OrderInv
<1>5. Credit = 0 /\ Credit' = 0
  BY <1>1 DEF Credit
<1>6. Credit' <= Credit
  BY <1>5
<1>. QED
  BY <1>1, <1>2, <1>3, <1>4, <1>6, LessInAll

\* A callback that ends, perhaps with a buffer that it took in vain.
LEMMA CompleteEndsLess ==
    ASSUME CInv, co = "suspended",
           CompleteFailed \/ CompleteDrained \/ (CompleteResubmit /\ SubmitAgainFails)
    PROVE  Work > Work' /\ fill' = fill /\ cb' = NoCallback
<1>1. /\ UNCHANGED <<used, next, bufs, flight, loop, fill>>
      /\ buf_current' \in {buf_current, buf_current + 1}
      /\ cb.pc = "live" /\ cb' = NoCallback
  BY DEF CompleteFailed, CompleteDrained, CompleteResubmit, SubmitAgainFails, TakeBuffer,
     ContinueBuffer, ResumeOnZero, usbVars, loopVars, opVars
<1>2. LoopWork' = LoopWork /\ CallbackWork = 1 /\ CallbackWork' = 0
  BY <1>1, NoCallbackTyped DEF LoopWork, CallbackWork
<1>3. used \in Int /\ next \in Int /\ bufs \in Int /\ buf_current \in Int
  BY NAssumption, MaxBuffersAssumption DEF CInv, RInv, IInv, TypeOK
<1>4. Cardinality(flight) \in Int /\ LoopWork \in Int
  BY WorkParts DEF CInv, RInv, OrderInv
<1>5. Work > Work'
  BY <1>1, <1>2, <1>3, <1>4 DEF Work
<1>. QED
  BY <1>1, <1>5

\* A transfer sent again: one more in flight, for a buffer, or for the bytes
\* that it brought, or in vain.
LEMMA SentAgain ==
    ASSUME CInv, CInv', co = "suspended", co' = "suspended", CompleteResubmit, SubmitAgain
    PROVE  fill' = fill /\ (CompleteWork > CompleteWork' \/ SentInVain)
<1>1. /\ UNCHANGED <<used, next, bufs, loop, fill>>
      /\ cb.pc = "live" /\ cb' = NoCallback
      /\ cb.tfer \notin flight /\ flight' = flight \cup {cb.tfer}
      /\ TakeBuffer \/ ContinueBuffer
  BY DEF CompleteResubmit, SubmitAgain, UsbSubmit, loopVars, opVars
<1>2. Cardinality(flight') = Cardinality(flight) + 1
  BY <1>1, FlightFinite, FS_AddElement DEF CInv, RInv, IInv
<1>3. LoopWork' = LoopWork /\ CallbackWork = 1 /\ CallbackWork' = 0
  BY <1>1, NoCallbackTyped DEF LoopWork, CallbackWork
<1>4. used \in Int /\ next \in Int /\ bufs \in Int /\ buf_current \in Int
  BY NAssumption, MaxBuffersAssumption DEF CInv, RInv, IInv, TypeOK
<1>5. Cardinality(flight) \in Int /\ LoopWork \in Int
  BY WorkParts DEF CInv, RInv, OrderInv
<1>6. Credit \in {0, 3} /\ Credit' = 0
  BY <1>1 DEF Credit
<1>7. CASE TakeBuffer
  <2>1. buf_current' = buf_current + 1
    BY <1>7 DEF TakeBuffer
  <2>2. Work > Work'
    BY <1>1, <1>2, <1>3, <1>4, <1>5, <2>1 DEF Work
  <2>3. Credit' <= Credit
    BY <1>6
  <2>. QED
    BY <1>1, <2>2, <2>3, LessInAll
<1>8. CASE ContinueBuffer /\ cb.result.actual # 0
  <2>1. buf_current' = buf_current
    BY <1>8 DEF ContinueBuffer
  <2>2. Work' = Work + 2
    BY <1>1, <1>2, <1>3, <1>4, <1>5, <2>1 DEF Work
  <2>3. cb # NoCallback /\ cb.result.actual \in Nat
    BY <1>1, NoCallbackTyped, CallbackFacts DEF Subtotal
  <2>4. Credit = 3
    BY <1>8, <2>3 DEF Credit
  <2>5. CompleteWork = Work + Credit /\ CompleteWork' = Work' + Credit'
    BY DEF Credit, CompleteWork
  <2>6. Work \in Nat
    BY CompleteWorkIsNat
  <2>. QED
    BY <1>1, <1>6, <2>2, <2>4, <2>5, <2>6
<1>9. CASE ContinueBuffer /\ cb.result.actual = 0
  BY <1>1, <1>9 DEF SentInVain
<1>. QED
  BY <1>1, <1>7, <1>8, <1>9

\* The steps taken over from PartialIO.
LEMMA AsPartialDwindles ==
    ASSUME CInv, CInv', co = "suspended", co' = "suspended",
           AsPartial \/ UNCHANGED completeVars
    PROVE  \/ fill' = fill /\ CompleteWork > CompleteWork'
           \/ Aside /\ UNCHANGED sizeVars
<1>1. UNCHANGED sizeVars /\ fill' = fill
  BY DEF AsPartial, completeVars, sizeVars
<1>2. IInv /\ BufferInv
  BY DEF CInv, RInv, OrderInv
<1>3. CASE SubmissionLoop
  <2>1. Work > Work'
    BY <1>2, <1>3, LoopSubmitLess, LoopEndsLess DEF SubmissionLoop
  <2>2. cb' = cb
    BY <1>3 DEF SubmissionLoop, LoopSubmit, LoopSubmitFails, LoopRecordError
  <2>3. Credit' <= Credit
    BY <2>2 DEF Credit
  <2>. QED
    BY <1>1, <2>1, <2>3, LessInAll
<1>4. CASE CallbackErrored \/ CallbackLive
  <2>1. Work > Work'
    BY <1>2, <1>4, CallbackLess
  <2>2. cb # NoCallback /\ (cb' = NoCallback \/ cb'.result = cb.result)
    BY <1>4, CallbackTyped, NoCallbackTyped
    DEF CallbackErrored, CallbackLive, ResumeOnZero, CInv, RInv, IInv
  <2>3. Credit' <= Credit
    BY <2>2 DEF Credit
  <2>. QED
    BY <1>1, <2>1, <2>3, LessInAll
<1>5. CASE RequestStop \/ CancelNext \/ \E t \in Transfers : CancelTransfer(t)
  BY <1>1, <1>5 DEF RequestStop, CancelNext, CancelTransfer, UsbCancel, usbVars, Aside
<1>6. CASE UNCHANGED completeVars
  BY <1>1, <1>6 DEF completeVars, vars, usbVars, Aside
<1>. QED
  BY <1>3, <1>4, <1>5, <1>6 DEF AsPartial, AwaitReady, AwaitStopped, Resume, Return

\* Every step of a suspended operation.
LEMMA CompleteStepDwindles ==
    ASSUME CInv, CInv', co = "suspended", co' = "suspended", [CompleteNext]_completeVars
    PROVE  \/ FillsUp
           \/ fill' = fill /\ (CompleteWork > CompleteWork' \/ SentInVain)
           \/ Aside /\ UNCHANGED sizeVars
<1>1. CASE AsPartial \/ UNCHANGED completeVars
  BY <1>1, AsPartialDwindles
<1>2. ASSUME NEW t \in Transfers, NEW c \in Completions, CompleteReap(t, c)
      PROVE  FillsUp \/ (fill' = fill /\ CompleteWork > CompleteWork')
  <2>1. CASE c.actual # 0
    BY <1>2, <2>1, ReapedBytesFill
  <2>2. CASE c.actual = 0
    BY <1>2, <2>2, ReapedNothing
  <2>. QED
    BY <2>1, <2>2
<1>3. CASE CompleteFailed \/ CompleteDrained \/ (CompleteResubmit /\ SubmitAgainFails)
  <2>1. Work > Work' /\ fill' = fill /\ cb' = NoCallback
    BY <1>3, CompleteEndsLess
  <2>2. Credit' <= Credit
    BY <2>1 DEF Credit
  <2>. QED
    BY <2>1, <2>2, LessInAll
<1>4. CASE CompleteResubmit /\ SubmitAgain
  BY <1>4, SentAgain
<1>5. ~CompleteSuspend /\ ~(\E m \in 0..MaxBuffers : CompleteSubmit(m))
  BY DEF CompleteSuspend, AwaitSuspend, CompleteSubmit, Submit
<1>6. CompleteResubmit => SubmitAgain \/ SubmitAgainFails
  BY DEF CompleteResubmit
<1>7. \/ AsPartial \/ UNCHANGED completeVars
      \/ \E t \in Transfers, c \in Completions : CompleteReap(t, c)
      \/ CompleteFailed \/ CompleteDrained
      \/ CompleteResubmit /\ (SubmitAgain \/ SubmitAgainFails)
  BY <1>5, <1>6 DEF CompleteNext
<1>. QED
  BY <1>1, <1>2, <1>3, <1>4, <1>7

(***************************************************************************)
(* For any buffers, sizes and limit, an operation whose transfers bring    *)
(* bytes cannot be sent again for ever: each step fills a buffer up, which *)
(* its size bounds, or leaves less to do.  This is the part of             *)
(* CompleteReturns that needs no fairness of the program.                  *)
(***************************************************************************)
THEOREM CompleteOperationDwindles == CompleteSafeSpec => CompleteDwindles
<1>1. CInv /\ CInv' /\ [CompleteNext]_completeVars => [CompleteWorksOn]_completeVars
  <2>. SUFFICES ASSUME CInv, CInv', [CompleteNext]_completeVars,
                       co = "suspended", co' = "suspended"
                PROVE  \/ FillsUp
                       \/ fill' = fill /\ CompleteWork > CompleteWork' /\ CompleteWork' >= 0
                       \/ fill' = fill /\ SentInVain
                       \/ Aside /\ UNCHANGED sizeVars
    BY DEF CompleteWorksOn
  <2>1. (CInv /\ co = "suspended" => CompleteWork \in Nat /\ Work \in Nat)'
    BY CompleteWorkIsNat, PTL
  <2>2. CompleteWork' >= 0
    BY <2>1
  <2>. QED
    BY <2>2, CompleteStepDwindles
<1>. QED
  BY <1>1, CompleteInvariance, PTL DEF CompleteSafeSpec, CompleteDwindles

-----------------------------------------------------------------------------
(* The complete operation implements TransferOp                            *)

\* A callback of its own ends like one of PartialIO, takes the next buffer, or
\* keeps its transfer and its buffer, which the caller does not see.
LEMMA CompleteCallbackRefines ==
    ASSUME CInv, TransferType = "bulk", CompleteFailed \/ CompleteDrained \/ CompleteResubmit
    PROVE  Op!Next \/ UNCHANGED Op!opvars
<1>1. RInv
  BY DEF CInv
<1>2. ASSUME Retires, \/ Counts /\ ec' \in {ec, "submit"}
                      \/ done' = done /\ ec' # "none"
      PROVE  Op!Next
  BY <1>1, <1>2, RetiresGivesBack DEF Op!Next
<1>3. CASE CompleteFailed
  <2>1. Retires /\ done' = done
    BY <1>3 DEF CompleteFailed, ResumeOnZero, NoCallback, Retires, usbVars, loopVars,
       opVars, ghostVars
  <2>2. ec' # "none"
    BY <1>1, <1>3, <2>1, CallbackTyped
    DEF CompleteFailed, FailureCode, TransferStatus, Statuses, RInv, IInv, Retires
  <2>. QED
    BY <1>2, <2>1, <2>2
<1>4. CASE CompleteDrained
  <2>1. Retires /\ Counts /\ ec' = ec
    BY <1>4 DEF CompleteDrained, ResumeOnZero, NoCallback, Retires, Counts, usbVars,
       loopVars, opVars
  <2>. QED
    BY <1>2, <2>1
<1>5. CASE CompleteResubmit /\ SubmitAgain
  <2>1. Recurs /\ UNCHANGED <<co, bufs, ec>>
    BY <1>5 DEF CompleteResubmit, SubmitAgain, UsbSubmit, NoCallback, Recurs, loopVars,
       opVars
  <2>2. CASE TakeBuffer
    <3>1. Takes /\ Counts
      BY <2>2 DEF TakeBuffer, Takes, Counts
    <3>. QED
      BY <1>1, <2>1, <3>1, RecursAdvances DEF Op!Next
  <2>3. CASE ContinueBuffer
    <3>1. Lent' = Lent /\ done' = done
      BY <2>1, <2>3 DEF ContinueBuffer, Recurs, Lent, InCallback
    <3>. QED
      BY <2>1, <3>1 DEF Op!opvars, Lent
  <2>. QED
    BY <1>5, <2>2, <2>3 DEF CompleteResubmit
<1>6. CASE CompleteResubmit /\ SubmitAgainFails
  <2>1. Retires /\ ec' = "submit"
    BY <1>6 DEF CompleteResubmit, SubmitAgainFails, ResumeOnZero, NoCallback, Retires,
       usbVars, loopVars, opVars
  <2>2. Counts \/ done' = done
    BY <1>6 DEF CompleteResubmit, TakeBuffer, ContinueBuffer, Counts
  <2>. QED
    BY <1>2, <2>1, <2>2
<1>. QED
  BY <1>3, <1>4, <1>5, <1>6 DEF CompleteResubmit

(***************************************************************************)
(* The complete operation promises its caller what the partial one does:   *)
(* no transfer is lent when the result is there, and a result without an   *)
(* error leaves no buffer that has not counted as full.  How often a       *)
(* buffer was continued is not seen.                                       *)
(***************************************************************************)
THEOREM CompleteRefinement ==
    ASSUME TransferType = "bulk"
    PROVE  CompleteSafeSpec => ImplementsTransferOp
<1>1. CInv /\ [CompleteNext]_completeVars => [Op!Next]_Op!opvars
  <2>. SUFFICES ASSUME CInv, [CompleteNext]_completeVars
                PROVE  Op!Next \/ UNCHANGED Op!opvars
    OBVIOUS
  <2>1. CASE CompleteFailed \/ CompleteDrained \/ CompleteResubmit
    BY <2>1, CompleteCallbackRefines
  <2>2. CASE ~(CompleteFailed \/ CompleteDrained \/ CompleteResubmit)
    <3>1. [Next]_vars
      BY <2>2 DEF CompleteNext, CompleteSubmit, CompleteSuspend, AsPartial, CompleteReap,
         completeVars, Next, Coroutine, Callback
    <3>. QED
      BY <3>1, StepRefines DEF CInv
  <2>. QED
    BY <2>1, <2>2
<1>2. CompleteInit => Op!Init
  BY InitRefines DEF CompleteInit
<1>. QED
  BY <1>1, <1>2, CompleteInvariance, PTL
  DEF CompleteSafeSpec, ImplementsTransferOp, Op!Spec
=============================================================================
