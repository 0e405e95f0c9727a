------------------------- MODULE ExecuteStreamProofs -------------------------
(***************************************************************************)
(* Proofs about ExecuteStream, for any set of requests and of contexts and *)
(* any bound on the length of an answer.  The inductive invariant IInv is  *)
(* preserved by every action, one lemma each; the safety properties follow *)
(* from it, and every step maps to a step of SseStream or to none.         *)
(***************************************************************************)
EXTENDS ExecuteStream, SequenceTheorems, TLAPS

\* What the handler writes is an event, and a message keeps the stream open.
LEMMA EventFacts ==
  /\ ErrorEvent \in Events
  /\ \A n \in Nat : Msg(n) \in Events /\ KeepOpen(Msg(n)) /\ Msg(n) # ErrorEvent
BY DEF ErrorEvent, Msg, Events, NewProgressEvent, KeepOpen

\* Init establishes the inductive invariant.
LEMMA InitEstablishes == Init => IInv
<1> SUFFICES ASSUME Init PROVE IInv
  OBVIOUS
<1>1. TypeOK
  BY StreamAssumption DEF Init, TypeOK, GenStates, Endings, ErrorChanCap
<1>2. Lifecycle /\ ContextOwnership
  BY DEF Init, Lifecycle, ContextOwnership, Active
<1>3. WireShape
  BY DEF Init, WireShape, Delivered
<1>4. QED
  BY <1>1, <1>2, <1>3 DEF IInv

------------------------------------------------------------------------------
(* Every action preserves the inductive invariant.                         *)

LEMMA BeginPreserves ==
  ASSUME IInv, NEW r \in Requests, Begin(r)
  PROVE  IInv'
<1> USE StreamAssumption DEF genVars, httpVars, ctxVars
<1>1. TypeOK'
  BY DEF IInv, TypeOK, GenStates, Begin
<1>2. Lifecycle'
  BY DEF IInv, TypeOK, Lifecycle, Begin
<1>3. WireShape'
  BY DEF IInv, TypeOK, Lifecycle, WireShape, Delivered, Begin
<1>4. ContextOwnership'
  BY DEF IInv, TypeOK, ContextOwnership, Active, Begin
<1>5. QED
  BY <1>1, <1>2, <1>3, <1>4 DEF IInv

LEMMA ChunkPreserves ==
  ASSUME IInv, NEW r \in Requests, Chunk(r)
  PROVE  IInv'
<1> USE StreamAssumption DEF genVars, httpVars, ctxVars
<1>1. TypeOK'
  BY DEF IInv, TypeOK, GenStates, Chunk
<1>2. Lifecycle'
  BY DEF IInv, TypeOK, Lifecycle, Chunk
<1>3. WireShape'
  BY DEF IInv, TypeOK, Lifecycle, WireShape, Delivered, Chunk
<1>4. ContextOwnership'
  BY DEF IInv, TypeOK, ContextOwnership, Active, Chunk
<1>5. QED
  BY <1>1, <1>2, <1>3, <1>4 DEF IInv

LEMMA AnswerReturnedPreserves ==
  ASSUME IInv, NEW r \in Requests, AnswerReturned(r)
  PROVE  IInv'
<1> USE StreamAssumption DEF genVars, httpVars, ctxVars
<1>1. TypeOK'
  BY DEF IInv, TypeOK, GenStates, AnswerReturned
<1>2. Lifecycle'
  BY DEF IInv, TypeOK, Lifecycle, AnswerReturned
<1>3. WireShape'
  BY DEF IInv, TypeOK, Lifecycle, WireShape, Delivered, AnswerReturned
<1>4. ContextOwnership'
  BY DEF IInv, TypeOK, ContextOwnership, Active, AnswerReturned
<1>5. QED
  BY <1>1, <1>2, <1>3, <1>4 DEF IInv

LEMMA CallFailedPreserves ==
  ASSUME IInv, NEW r \in Requests, CallFailed(r)
  PROVE  IInv'
<1> USE StreamAssumption DEF genVars, httpVars, ctxVars
<1>1. TypeOK'
  BY DEF IInv, TypeOK, GenStates, CallFailed
<1>2. Lifecycle'
  BY DEF IInv, TypeOK, Lifecycle, CallFailed
<1>3. WireShape'
  BY DEF IInv, TypeOK, Lifecycle, WireShape, Delivered, CallFailed
<1>4. ContextOwnership'
  BY DEF IInv, TypeOK, ContextOwnership, Active, CallFailed
<1>5. QED
  BY <1>1, <1>2, <1>3, <1>4 DEF IInv

LEMMA PushErrorPreserves ==
  ASSUME IInv, NEW r \in Requests, PushError(r)
  PROVE  IInv'
<1> USE StreamAssumption DEF genVars, httpVars, ctxVars
<1>1. TypeOK'
  <2>1. errorChan' \in [Requests -> 0..ErrorChanCap]
    <3>1. errorChan \in [Requests -> {0, 1}] /\ errorChan[r] = 0
      BY DEF IInv, TypeOK, PushError, ErrorChanCap
    <3>2. errorChan' \in [Requests -> {0, 1}]
      BY <3>1 DEF PushError
    <3>3. QED
      BY <3>2 DEF ErrorChanCap
  <2>2. QED
    BY <2>1 DEF IInv, TypeOK, GenStates, PushError
<1>2. Lifecycle'
  BY DEF IInv, TypeOK, Lifecycle, PushError
<1>3. WireShape'
  BY DEF IInv, TypeOK, Lifecycle, WireShape, Delivered, PushError
<1>4. ContextOwnership'
  BY DEF IInv, TypeOK, ContextOwnership, Active, PushError
<1>5. QED
  BY <1>1, <1>2, <1>3, <1>4 DEF IInv

LEMMA CloseClientChanPreserves ==
  ASSUME IInv, NEW r \in Requests, CloseClientChan(r)
  PROVE  IInv'
<1> USE StreamAssumption DEF genVars, httpVars, ctxVars
<1>1. TypeOK'
  BY DEF IInv, TypeOK, GenStates, CloseClientChan
<1>2. Lifecycle'
  BY DEF IInv, TypeOK, Lifecycle, CloseClientChan
<1>3. WireShape'
  BY DEF IInv, TypeOK, Lifecycle, WireShape, Delivered, CloseClientChan
<1>4. ContextOwnership'
  BY DEF IInv, TypeOK, ContextOwnership, Active, CloseClientChan
<1>5. QED
  BY <1>1, <1>2, <1>3, <1>4 DEF IInv

LEMMA EnterStepPreserves ==
  ASSUME IInv, NEW r \in Requests, EnterStep(r)
  PROVE  IInv'
<1> USE StreamAssumption DEF genVars, httpVars, ctxVars
<1>1. TypeOK'
  BY DEF IInv, TypeOK, EnterStep
<1>2. Lifecycle'
  BY DEF IInv, TypeOK, Lifecycle, EnterStep
<1>3. WireShape'
  BY DEF IInv, TypeOK, Lifecycle, WireShape, Delivered, EnterStep
<1>4. ContextOwnership'
  BY DEF IInv, TypeOK, ContextOwnership, Active, EnterStep
<1>5. QED
  BY <1>1, <1>2, <1>3, <1>4 DEF IInv

LEMMA NoticeDisconnectPreserves ==
  ASSUME IInv, NEW r \in Requests, NoticeDisconnect(r)
  PROVE  IInv'
<1> USE StreamAssumption DEF genVars, httpVars, ctxVars
<1>1. TypeOK'
  BY DEF IInv, TypeOK, ContextOwnership, Active, Endings, Return, NoticeDisconnect
<1>2. Lifecycle'
  BY DEF IInv, TypeOK, Lifecycle, Return, NoticeDisconnect
<1>3. WireShape'
  BY DEF IInv, TypeOK, Lifecycle, WireShape, Delivered, Return, NoticeDisconnect
<1>4. ContextOwnership'
  BY DEF IInv, TypeOK, ContextOwnership, Active, Return, NoticeDisconnect
<1>5. QED
  BY <1>1, <1>2, <1>3, <1>4 DEF IInv

LEMMA ReceiveMsgPreserves ==
  ASSUME IInv, NEW r \in Requests, ReceiveMsg(r)
  PROVE  IInv'
<1> USE StreamAssumption DEF genVars, httpVars, ctxVars
<1>1. /\ handler[r] = "select" /\ gen[r] = "sending"
      /\ wire' = [wire EXCEPT ![r] = Append(@, Msg(produced[r]))]
      /\ handler' = [handler EXCEPT ![r] = "loop"]
      /\ timer' = [timer EXCEPT ![r] = "off"]
      /\ gen' = [gen EXCEPT ![r] = "calling"]
      /\ UNCHANGED <<ending, ctxVars, genErr, produced, clientChan, errorChan, client>>
  BY EventFacts DEF ReceiveMsg, IInv, TypeOK
<1>2. TypeOK'
  <2>1. wire' \in [Requests -> Seq(Events)]
    <3>1. Msg(produced[r]) \in Events /\ wire[r] \in Seq(Events)
      BY EventFacts DEF IInv, TypeOK
    <3>2. Append(wire[r], Msg(produced[r])) \in Seq(Events)
      BY <3>1
    <3>3. QED
      BY <1>1, <3>2 DEF IInv, TypeOK
  <2>2. QED
    BY <1>1, <2>1 DEF IInv, TypeOK, GenStates
<1>3. Lifecycle'
  BY <1>1 DEF IInv, TypeOK, Lifecycle
<1>4. WireShape'
  <2>1. /\ wire[r] \in Seq(Events) /\ produced[r] \in Nat
        /\ ending[r] = "open"
        /\ Delivered(r) = Len(wire[r]) /\ produced[r] = Len(wire[r]) + 1
    BY <1>1 DEF IInv, TypeOK, Lifecycle, WireShape, Delivered
  <2>2. \A i \in 1..Len(wire[r]) : wire[r][i] = Msg(i)
    BY <2>1 DEF IInv, WireShape
  <2>3. /\ wire'[r] = Append(wire[r], Msg(produced[r]))
        /\ Delivered(r)' = Len(wire'[r])
    BY <1>1, <2>1 DEF IInv, TypeOK, Delivered
  <2>4. Len(wire'[r]) = Len(wire[r]) + 1
    BY <2>1, <2>3
  <2>5. \A i \in 1..Len(wire'[r]) : wire'[r][i] = Msg(i)
    BY <2>1, <2>2, <2>3, <2>4
  <2>6. \A q \in Requests : q # r =>
          /\ wire'[q] = wire[q] /\ gen'[q] = gen[q]
          /\ produced'[q] = produced[q] /\ Delivered(q)' = Delivered(q)
    BY <1>1 DEF IInv, TypeOK, Delivered
  <2>7. /\ gen'[r] = "calling" /\ produced'[r] = produced[r]
        /\ Delivered(r)' = produced'[r]
    BY <1>1, <2>1, <2>3, <2>4 DEF IInv, TypeOK
  <2>8. ASSUME NEW q \in Requests, q # r
        PROVE  /\ Delivered(q)' = IF gen'[q] = "sending" THEN produced'[q] - 1
                                                         ELSE produced'[q]
               /\ \A i \in 1..Len(wire'[q]) :
                    wire'[q][i] = IF i <= Delivered(q)' THEN Msg(i) ELSE ErrorEvent
               /\ gen'[q] = "sending" => produced'[q] > 0
               /\ gen'[q] = "none" => produced'[q] = 0
    BY <2>6, <2>8 DEF IInv, WireShape
  <2>9. QED
    BY <2>1, <2>3, <2>5, <2>7, <2>8, SMTT(20) DEF WireShape
<1>5. ContextOwnership'
  BY <1>1 DEF IInv, TypeOK, ContextOwnership, Active
<1>6. QED
  BY <1>2, <1>3, <1>4, <1>5 DEF IInv

LEMMA ReceiveClosedPreserves ==
  ASSUME IInv, NEW r \in Requests, ReceiveClosed(r)
  PROVE  IInv'
<1> USE StreamAssumption DEF genVars, httpVars, ctxVars
<1>1. TypeOK'
  BY DEF IInv, TypeOK, ContextOwnership, Active, Endings, Return, ReceiveClosed
<1>2. Lifecycle'
  BY DEF IInv, TypeOK, Lifecycle, Return, ReceiveClosed
<1>3. WireShape'
  BY DEF IInv, TypeOK, Lifecycle, WireShape, Delivered, Return, ReceiveClosed
<1>4. ContextOwnership'
  BY DEF IInv, TypeOK, ContextOwnership, Active, Return, ReceiveClosed
<1>5. QED
  BY <1>1, <1>2, <1>3, <1>4 DEF IInv

LEMMA ReceiveErrorPreserves ==
  ASSUME IInv, NEW r \in Requests, ReceiveError(r)
  PROVE  IInv'
<1> USE StreamAssumption DEF genVars, httpVars, ctxVars
<1>1. TypeOK'
  BY EventFacts DEF IInv, TypeOK, ContextOwnership, Active, Endings, ErrorChanCap, Return, ReceiveError
<1>2. Lifecycle'
  BY DEF IInv, TypeOK, Lifecycle, Return, ReceiveError
<1>3. WireShape'
  BY DEF IInv, TypeOK, Lifecycle, WireShape, Delivered, Return, ReceiveError
<1>4. ContextOwnership'
  BY DEF IInv, TypeOK, ContextOwnership, Active, Return, ReceiveError
<1>5. QED
  BY <1>1, <1>2, <1>3, <1>4 DEF IInv

LEMMA ReceiveTimeoutPreserves ==
  ASSUME IInv, NEW r \in Requests, ReceiveTimeout(r)
  PROVE  IInv'
<1> USE StreamAssumption DEF genVars, httpVars, ctxVars
<1>1. TypeOK'
  BY EventFacts DEF IInv, TypeOK, ContextOwnership, Active, Endings, Return, ReceiveTimeout
<1>2. Lifecycle'
  BY DEF IInv, TypeOK, Lifecycle, Return, ReceiveTimeout
<1>3. WireShape'
  BY DEF IInv, TypeOK, Lifecycle, WireShape, Delivered, Return, ReceiveTimeout
<1>4. ContextOwnership'
  BY DEF IInv, TypeOK, ContextOwnership, Active, Return, ReceiveTimeout
<1>5. QED
  BY <1>1, <1>2, <1>3, <1>4 DEF IInv

LEMMA TimerFiresPreserves ==
  ASSUME IInv, NEW r \in Requests, TimerFires(r)
  PROVE  IInv'
<1> USE StreamAssumption DEF genVars, httpVars, ctxVars
<1>1. TypeOK'
  BY DEF IInv, TypeOK, TimerFires
<1>2. Lifecycle'
  BY DEF IInv, TypeOK, Lifecycle, TimerFires
<1>3. WireShape'
  BY DEF IInv, TypeOK, Lifecycle, WireShape, Delivered, TimerFires
<1>4. ContextOwnership'
  BY DEF IInv, TypeOK, ContextOwnership, Active, TimerFires
<1>5. QED
  BY <1>1, <1>2, <1>3, <1>4 DEF IInv

LEMMA ClientLeavesPreserves ==
  ASSUME IInv, NEW r \in Requests, ClientLeaves(r)
  PROVE  IInv'
<1> USE StreamAssumption DEF genVars, httpVars, ctxVars
<1>1. TypeOK'
  BY DEF IInv, TypeOK, ClientLeaves
<1>2. Lifecycle'
  BY DEF IInv, TypeOK, Lifecycle, ClientLeaves
<1>3. WireShape'
  BY DEF IInv, TypeOK, Lifecycle, WireShape, Delivered, ClientLeaves
<1>4. ContextOwnership'
  BY DEF IInv, TypeOK, ContextOwnership, Active, ClientLeaves
<1>5. QED
  BY <1>1, <1>2, <1>3, <1>4 DEF IInv

\* IInv is inductive.
LEMMA NextPreserves == IInv /\ [Next]_vars => IInv'
<1> SUFFICES ASSUME IInv, [Next]_vars PROVE IInv'
  OBVIOUS
<1>1. ASSUME NEW r \in Requests, Begin(r) PROVE IInv'
  BY <1>1, BeginPreserves
<1>2. ASSUME NEW r \in Requests, LLMStep(r) PROVE IInv'
  BY <1>2, ChunkPreserves, AnswerReturnedPreserves, CallFailedPreserves DEF LLMStep
<1>3. ASSUME NEW r \in Requests, GenExit(r) PROVE IInv'
  BY <1>3, PushErrorPreserves, CloseClientChanPreserves DEF GenExit
<1>4. ASSUME NEW r \in Requests, HandlerStep(r) PROVE IInv'
  BY <1>4, EnterStepPreserves, NoticeDisconnectPreserves, ReceiveMsgPreserves,
     ReceiveClosedPreserves, ReceiveErrorPreserves, ReceiveTimeoutPreserves
     DEF HandlerStep
<1>5. ASSUME NEW r \in Requests, TimerFires(r) PROVE IInv'
  BY <1>5, TimerFiresPreserves
<1>6. ASSUME NEW r \in Requests, ClientLeaves(r) PROVE IInv'
  BY <1>6, ClientLeavesPreserves
<1>7. CASE UNCHANGED vars
  BY <1>7 DEF vars, genVars, httpVars, ctxVars, IInv, TypeOK, Lifecycle,
              WireShape, Delivered, ContextOwnership, Active
<1>8. QED
  BY <1>1, <1>2, <1>3, <1>4, <1>5, <1>6, <1>7 DEF Next

\* The inductive invariant holds in every reachable state.
THEOREM Invariance == Spec => []IInv
<1>1. QED
  BY InitEstablishes, NextPreserves, PTL DEF Spec

------------------------------------------------------------------------------
(* The safety properties.                                                  *)

\* Every variable keeps its type: in particular the error channel never
\* holds more than its one slot, and only contexts return to the pool.
THEOREM TypeCorrect == Spec => []TypeOK
<1>1. IInv => TypeOK
  BY DEF IInv
<1>2. QED
  BY <1>1, Invariance, PTL

\* The response carries the chunks the LLM client produced, in order and
\* without a gap.
THEOREM ChunksDelivered == Spec => []ChunksInOrder
<1>1. IInv => ChunksInOrder
  <2> SUFFICES ASSUME IInv, NEW r \in Requests
               PROVE  /\ \A i \in DOMAIN wire[r] : KeepOpen(wire[r][i]) => wire[r][i].chunk = i
                      /\ Delivered(r) = IF gen[r] = "sending" THEN produced[r] - 1
                                                              ELSE produced[r]
    BY DEF ChunksInOrder
  <2>1. ASSUME NEW i \in DOMAIN wire[r], KeepOpen(wire[r][i])
        PROVE  wire[r][i].chunk = i
    <3>1. i \in 1..Len(wire[r])
      BY DEF IInv, TypeOK
    <3>2. wire[r][i] = Msg(i) \/ wire[r][i] = ErrorEvent
      BY <3>1 DEF IInv, WireShape
    <3>3. QED
      BY <2>1, <3>2 DEF KeepOpen, Msg, ErrorEvent, NewProgressEvent
  <2>2. QED
    BY <2>1 DEF IInv, WireShape
<1>2. QED
  BY <1>1, Invariance, PTL

\* An error event is the last event of a response whose handler returned.
THEOREM ErrorEndsResponse == Spec => []ErrorIsLast
<1>1. IInv => ErrorIsLast
  <2> SUFFICES ASSUME IInv, NEW r \in Requests, NEW i \in DOMAIN wire[r],
                      wire[r][i] = ErrorEvent
               PROVE  i = Len(wire[r]) /\ handler[r] = "done"
    BY DEF ErrorIsLast
  <2>1. i \in 1..Len(wire[r]) /\ ~(i <= Delivered(r))
    <3>1. i \in 1..Len(wire[r])
      BY DEF IInv, TypeOK
    <3>2. i <= Delivered(r) => wire[r][i] = Msg(i)
      BY <3>1 DEF IInv, WireShape
    <3>3. i \in Nat
      BY <3>1
    <3>4. QED
      BY <3>1, <3>2, <3>3, EventFacts
  <2>2. QED
    BY <2>1 DEF IInv, TypeOK, Endings, Lifecycle, Delivered
<1>2. QED
  BY <1>1, Invariance, PTL

\* A response that ends with the message channel closed lacks no chunk.
THEOREM EofComplete == Spec => []EofIsComplete
<1>1. IInv => EofIsComplete
  BY DEF IInv, Lifecycle, WireShape, Delivered, EofIsComplete
<1>2. QED
  BY <1>1, Invariance, PTL

\* Only an abandoned stream leaves its generator inside the LLM call.
THEOREM NoOrphanCall == Spec => []OutlivesOnlyIfAbandoned
<1>1. IInv => OutlivesOnlyIfAbandoned
  BY DEF IInv, TypeOK, Endings, Lifecycle, OutlivesOnlyIfAbandoned, InCall, Abandoned
<1>2. QED
  BY <1>1, Invariance, PTL

\* A call shares its gin context with another request only after its own
\* stream was abandoned.
THEOREM ContextExclusive == Spec => []ContextNotShared
<1>1. IInv => ContextNotShared
  BY DEF IInv, TypeOK, Endings, Lifecycle, ContextOwnership, ContextNotShared,
         InCall, Active, Abandoned
<1>2. QED
  BY <1>1, Invariance, PTL

------------------------------------------------------------------------------
(* Nobody waits for ever.                                                  *)

\* A handler enters its select with a running timer, and nothing but leaving
\* the select stops the timer.
LEMMA TimerStays ==
  ASSUME IInv, [Next]_vars, \A r \in Requests : handler[r] = "select" => timer[r] # "off"
  PROVE  \A r \in Requests : handler'[r] = "select" => timer'[r] # "off"
<1> USE DEF genVars, httpVars, ctxVars
<1>1. CASE UNCHANGED vars
  BY <1>1 DEF vars
<1>2. ASSUME NEW q \in Requests, Begin(q) \/ LLMStep(q) \/ GenExit(q) \/ ClientLeaves(q)
      PROVE  timer' = timer /\ \A r \in Requests : handler'[r] = "select" => handler[r] = "select"
  BY <1>2 DEF IInv, TypeOK, Begin, LLMStep, Chunk, AnswerReturned, CallFailed,
              GenExit, PushError, CloseClientChan, ClientLeaves
<1>3. ASSUME NEW q \in Requests, TimerFires(q)
      PROVE  handler' = handler /\ \A r \in Requests : timer[r] # "off" => timer'[r] # "off"
  BY <1>3 DEF IInv, TypeOK, TimerFires
<1>4. ASSUME NEW q \in Requests, HandlerStep(q)
      PROVE  /\ handler'[q] = "select" => timer'[q] # "off"
             /\ \A r \in Requests \ {q} : handler'[r] = handler[r] /\ timer'[r] = timer[r]
  BY <1>4 DEF IInv, TypeOK, HandlerStep, EnterStep, NoticeDisconnect, ReceiveMsg,
              ReceiveClosed, ReceiveError, ReceiveTimeout, Return
<1>5. QED
  BY <1>1, <1>2, <1>3, <1>4 DEF Next

\* Every select is bounded by a timer that runs or has fired, and a failed
\* generator finds room for its error whether or not its handler is there.
THEOREM NobodyIsStuck == Spec => []NobodyStuck
<1> DEFINE Timed == \A r \in Requests : handler[r] = "select" => timer[r] # "off"
<1>1. Init => Timed
  BY DEF Init
<1>2. IInv /\ Timed /\ [Next]_vars => Timed'
  BY TimerStays
<1>3. IInv /\ Timed => NobodyStuck
  <2> SUFFICES ASSUME IInv, Timed, NEW r \in Requests, gen[r] = "failed"
               PROVE  errorChan[r] < ErrorChanCap
    BY DEF NobodyStuck
  <2>1. errorChan[r] = 0
    BY DEF IInv, Lifecycle
  <2>2. QED
    BY <2>1 DEF ErrorChanCap
<1> HIDE DEF Timed
<1>4. QED
  BY <1>1, <1>2, <1>3, Invariance, PTL DEF Spec

\* A response has room for the error behind every chunk an answer may have.
Room == \A r \in Requests : Len(wire[r]) \in 0 .. MaxChunks + 1 /\ Stage(r) \in 0 .. 3

LEMMA HasRoom == IInv => Room
<1> SUFFICES ASSUME IInv, NEW r \in Requests
             PROVE  Len(wire[r]) \in 0 .. MaxChunks + 1 /\ Stage(r) \in 0 .. 3
  BY DEF Room
<1>1. wire[r] \in Seq(Events) /\ produced[r] \in 0 .. MaxChunks /\ MaxChunks \in Nat
  BY StreamAssumption DEF IInv, TypeOK
<1>2. Len(wire[r]) \in Nat
  BY <1>1
<1>3. Delivered(r) <= MaxChunks
  BY <1>1 DEF IInv, WireShape
<1>4. Len(wire[r]) <= MaxChunks + 1
  BY <1>1, <1>2, <1>3 DEF Delivered
<1>5. QED
  BY <1>1, <1>2, <1>4 DEF Stage

\* What a step of a handler does to the distance, according to what it writes.
LEMMA Nearer ==
  ASSUME NEW m \in Nat, NEW l \in 0 .. m + 1, NEW k \in 0 .. m + 1,
         NEW s \in 0 .. 3, NEW t \in 0 .. 3,
         \/ k = l /\ t < s
         \/ k = l + 1 /\ t <= s + 1
  PROVE  /\ 2 * (m + 1 - k) + t \in 0 .. 2 * (m + 1 - l) + s
         /\ 2 * (m + 1 - k) + t < 2 * (m + 1 - l) + s
OBVIOUS

\* A handler comes nearer to its end with each of its steps.
LEMMA HandlerNearer ==
  ASSUME IInv, Room, Room', NEW r \in Requests, Begin(r) \/ HandlerStep(r)
  PROVE  Distance(r)' \in 0 .. Distance(r) /\ Distance(r)' < Distance(r)
<1> USE DEF genVars, httpVars, ctxVars
<1>1. \/ Len(wire'[r]) = Len(wire[r]) /\ Stage(r)' < Stage(r)
      \/ Len(wire'[r]) = Len(wire[r]) + 1 /\ Stage(r)' <= Stage(r) + 1
  <2>1. CASE Begin(r) \/ EnterStep(r) \/ NoticeDisconnect(r) \/ ReceiveClosed(r)
    BY <2>1 DEF IInv, TypeOK, Begin, EnterStep, NoticeDisconnect, ReceiveClosed, Return, Stage
  <2>2. CASE ReceiveMsg(r)
    <3>1. /\ wire' = [wire EXCEPT ![r] = Append(@, Msg(produced[r]))]
          /\ handler' = [handler EXCEPT ![r] = "loop"] /\ handler[r] = "select"
      BY <2>2, EventFacts DEF ReceiveMsg, IInv, TypeOK
    <3>2. wire'[r] = Append(wire[r], Msg(produced[r])) /\ wire[r] \in Seq(Events)
      BY <3>1 DEF IInv, TypeOK
    <3>3. Len(wire'[r]) = Len(wire[r]) + 1
      BY <3>2
    <3>4. Stage(r)' = 2 /\ Stage(r) = 1
      BY <3>1 DEF IInv, TypeOK, Stage
    <3>5. QED
      BY <3>3, <3>4
  <2>3. CASE ReceiveError(r) \/ ReceiveTimeout(r)
    <3>1. /\ wire' = [wire EXCEPT ![r] = Append(@, ErrorEvent)]
          /\ handler' = [handler EXCEPT ![r] = "done"] /\ handler[r] = "select"
      BY <2>3 DEF ReceiveError, ReceiveTimeout, Return
    <3>2. wire'[r] = Append(wire[r], ErrorEvent) /\ wire[r] \in Seq(Events)
      BY <3>1 DEF IInv, TypeOK
    <3>3. Len(wire'[r]) = Len(wire[r]) + 1
      BY <3>2
    <3>4. Stage(r)' = 0 /\ Stage(r) = 1
      BY <3>1 DEF IInv, TypeOK, Stage
    <3>5. QED
      BY <3>3, <3>4
  <2>4. QED
    BY <2>1, <2>2, <2>3 DEF HandlerStep
<1>2. /\ Len(wire[r]) \in 0 .. MaxChunks + 1 /\ Stage(r) \in 0 .. 3
      /\ Len(wire'[r]) \in 0 .. MaxChunks + 1 /\ Stage(r)' \in 0 .. 3
  BY DEF Room
<1>3. QED
  BY <1>1, <1>2, Nearer, StreamAssumption DEF Distance

\* No step takes a handler further from its end.
LEMMA StepAdvances ==
  ASSUME IInv, Room, Room', [Next]_vars, NEW r \in Requests
  PROVE  /\ Distance(r)' \in 0 .. Distance(r)
         /\ handler'[r] # handler[r] \/ wire'[r] # wire[r] => Distance(r)' < Distance(r)
<1> USE DEF genVars, httpVars, ctxVars
<1>1. ASSUME handler'[r] = handler[r], wire'[r] = wire[r]
      PROVE  Distance(r)' = Distance(r) /\ Distance(r)' \in 0 .. Distance(r)
  <2>1. Distance(r)' = Distance(r)
    BY <1>1 DEF Distance, Stage
  <2>2. MaxChunks + 1 - Len(wire[r]) \in Nat /\ Stage(r) \in Nat
    BY StreamAssumption DEF Room
  <2>3. Distance(r) \in Nat
    BY <2>2 DEF Distance
  <2>4. QED
    BY <2>1, <2>3
<1>2. CASE UNCHANGED vars
  BY <1>1, <1>2 DEF vars
<1>3. CASE Next
  <2>1. PICK q \in Requests : \/ LLMStep(q) \/ GenExit(q) \/ TimerFires(q) \/ ClientLeaves(q)
                              \/ Begin(q) \/ HandlerStep(q)
    BY <1>3 DEF Next
  <2>2. CASE LLMStep(q) \/ GenExit(q) \/ TimerFires(q) \/ ClientLeaves(q)
    <3>1. handler'[r] = handler[r] /\ wire'[r] = wire[r]
      BY <2>2 DEF LLMStep, Chunk, AnswerReturned, CallFailed, GenExit, PushError,
                  CloseClientChan, TimerFires, ClientLeaves
    <3>2. QED
      BY <1>1, <3>1
  <2>3. CASE q # r /\ (Begin(q) \/ HandlerStep(q))
    <3>1. handler'[r] = handler[r] /\ wire'[r] = wire[r]
      BY <2>3 DEF IInv, TypeOK, Begin, HandlerStep, EnterStep, NoticeDisconnect, ReceiveMsg,
                  ReceiveClosed, ReceiveError, ReceiveTimeout, Return
    <3>2. QED
      BY <1>1, <3>1
  <2>4. CASE q = r /\ (Begin(q) \/ HandlerStep(q))
    BY <2>4, HandlerNearer
  <2>5. QED
    BY <2>1, <2>2, <2>3, <2>4
<1>4. QED
  BY <1>2, <1>3

\* The ranking argument of HandlerReturns: every step of a handler brings it
\* nearer to its end, and no other step takes it back.
THEOREM StreamsAdvance == Spec => HandlerAdvances
<1>1. IInv /\ Room /\ Room' /\ [Next]_vars =>
        [\A r \in Requests :
           /\ Distance(r)' \in 0 .. Distance(r)
           /\ handler'[r] # handler[r] \/ wire'[r] # wire[r] => Distance(r)' < Distance(r)]_vars
  BY StepAdvances
<1>2. QED
  BY <1>1, HasRoom, Invariance, PTL DEF Spec, HandlerAdvances

------------------------------------------------------------------------------
(* The refinement.                                                         *)

\* A handler that moves from one active state to another, or does not move,
\* does not change the status of its stream.
LEMMA StatusStays ==
  ASSUME NEW r \in Requests, NEW s \in {"loop", "select"},
         IInv, Active(r),
         handler' = [handler EXCEPT ![r] = s]
  PROVE  status' = status
BY DEF status, Active, IInv, TypeOK

\* The handler of r returns: its stream, and no other, is closed.
LEMMA StatusCloses ==
  ASSUME NEW r \in Requests, IInv, Active(r),
         handler' = [handler EXCEPT ![r] = "done"]
  PROVE  status[r] = "open" /\ status' = [status EXCEPT ![r] = "closed"]
<1>1. status[r] = "open"
  BY DEF status, Active
<1>2. \A q \in Requests : status'[q] = IF q = r THEN "closed" ELSE status[q]
  BY DEF status, IInv, TypeOK
<1>3. QED
  BY <1>1, <1>2 DEF status

\* The abstract stream carries the same events.
LEMMA SameEvents ==
  /\ Promised!ErrorEvent = ErrorEvent
  /\ \A n : Promised!Msg(n) = Msg(n)
BY DEF ErrorEvent, Promised!ErrorEvent, Msg, Promised!Msg,
       NewProgressEvent, Promised!NewProgressEvent

\* Every step of the streaming execution is a step of the promised stream or
\* changes neither the response nor its status.
LEMMA StepRefines ==
  ASSUME IInv, [Next]_vars
  PROVE  [Promised!Next]_(Promised!vars)
<1> USE DEF genVars, httpVars, ctxVars, Promised!vars
<1>1. CASE UNCHANGED vars
  BY <1>1 DEF vars, status
<1>2. ASSUME NEW r \in Requests, Begin(r)
      PROVE  Promised!Next
  <2>1. /\ status[r] = "idle" /\ wire' = wire
        /\ \A q \in Requests : status'[q] = IF q = r THEN "open" ELSE status[q]
    BY <1>2 DEF Begin, status, IInv, TypeOK
  <2>2. status' = [status EXCEPT ![r] = "open"]
    BY <2>1 DEF status
  <2>3. QED
    BY <2>1, <2>2 DEF Promised!Next, Promised!Open
<1>3. ASSUME NEW r \in Requests, LLMStep(r) \/ GenExit(r) \/ TimerFires(r) \/ ClientLeaves(r)
      PROVE  UNCHANGED Promised!vars
  BY <1>3 DEF LLMStep, GenExit, Chunk, AnswerReturned, CallFailed, PushError,
              CloseClientChan, TimerFires, ClientLeaves, status
<1>4. ASSUME NEW r \in Requests, EnterStep(r)
      PROVE  UNCHANGED Promised!vars
  BY <1>4, StatusStays DEF EnterStep, Active
<1>5. ASSUME NEW r \in Requests, ReceiveMsg(r)
      PROVE  Promised!Next
  <2>1. /\ wire' = [wire EXCEPT ![r] = Append(@, Msg(produced[r]))]
        /\ handler' = [handler EXCEPT ![r] = "loop"]
        /\ handler[r] = "select" /\ gen[r] = "sending"
    BY <1>5, EventFacts DEF ReceiveMsg, IInv, TypeOK
  <2>2. produced[r] = Len(wire[r]) + 1
    <3>1. ending[r] = "open" /\ wire[r] \in Seq(Events) /\ produced[r] \in Nat
      BY <2>1, StreamAssumption DEF IInv, TypeOK, Lifecycle
    <3>2. Len(wire[r]) = produced[r] - 1
      BY <2>1, <3>1 DEF IInv, WireShape, Delivered
    <3>3. QED
      BY <3>1, <3>2
  <2>3. status' = status /\ status[r] = "open"
    BY <2>1, StatusStays DEF Active, status
  <2>4. QED
    BY <2>1, <2>2, <2>3, SameEvents DEF Promised!Next, Promised!Deliver
<1>6. ASSUME NEW r \in Requests, ReceiveClosed(r) \/ NoticeDisconnect(r)
      PROVE  Promised!Next
  <2>1. wire' = wire /\ Active(r) /\ handler' = [handler EXCEPT ![r] = "done"]
    BY <1>6 DEF ReceiveClosed, NoticeDisconnect, Return, Active
  <2>2. QED
    BY <2>1, StatusCloses DEF Promised!Next, Promised!Close
<1>7. ASSUME NEW r \in Requests, ReceiveError(r) \/ ReceiveTimeout(r)
      PROVE  Promised!Next
  <2>1. /\ wire' = [wire EXCEPT ![r] = Append(@, ErrorEvent)]
        /\ Active(r) /\ handler' = [handler EXCEPT ![r] = "done"]
    BY <1>7 DEF ReceiveError, ReceiveTimeout, Return, Active
  <2>2. QED
    BY <2>1, StatusCloses, SameEvents DEF Promised!Next, Promised!Fail
<1>8. QED
  BY <1>1, <1>2, <1>3, <1>4, <1>5, <1>6, <1>7 DEF Next, HandlerStep

\* The streaming execution implements the stream it promises: whatever the two
\* goroutines, the timers and the client do, the response is opened once, gets
\* the chunks in order, at most one error event, and nothing once closed.
THEOREM ImplementsPromise == Spec => PromisedSpec
<1>1. Init => Promised!Init
  BY DEF Init, Promised!Init, status
<1>2. IInv /\ [Next]_vars => [Promised!Next]_(Promised!vars)
  BY StepRefines
<1>3. QED
  BY <1>1, <1>2, Invariance, PTL DEF Spec, PromisedSpec, Promised!Spec
==============================================================================
