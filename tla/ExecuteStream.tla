---------------------------- MODULE ExecuteStream ----------------------------
(***************************************************************************)
(* The streaming half of PromptHandler.ExecutePrompt.  A request runs two  *)
(* goroutines: the handler, which sits in c.Stream and selects over the    *)
(* message channel, the error channel and a timer; and the generator,      *)
(* which runs service.GenerateTextAnswer and pushes the chunks of the      *)
(* answer through an unbuffered channel.  Requests share gin's pool of     *)
(* contexts: the handler gives its context back when it returns, and the   *)
(* generator keeps using it as its context.Context.                        *)
(*                                                                         *)
(* Time is abstracted: the timer of a select may fire at any moment after  *)
(* it was started.  A select with several ready cases takes any of them.   *)
(***************************************************************************)
EXTENDS SseEvents, Sequences

CONSTANTS Requests,    \* streaming executions the server receives
          Contexts,    \* gin contexts that exist
          NoContext,   \* no context was taken yet
          MaxChunks    \* chunks an answer has at most (maxTokens bounds it)

ASSUME StreamAssumption == /\ MaxChunks \in Nat
                           /\ NoContext \notin Contexts

VARIABLES
  handler,     \* where the handler of r is: "idle", "loop", "select", "done"
  gen,         \* where the generator of r is
  genErr,      \* GenerateTextAnswer returned an error
  produced,    \* chunks the LLM client passed to the streaming callback
  clientChan,  \* "open" or "closed": unbuffered, it never holds a message
  errorChan,   \* number of errors buffered in the error channel
  timer,       \* time.After of the current select: "off", "running", "fired"
  client,      \* "present", or "gone" once CloseNotify has signalled
  wire,        \* events written to the response
  ending,      \* how c.Stream ended, "open" until it did
  ctx,         \* the gin context of the request
  pool         \* the contexts in gin's pool

genVars  == <<gen, genErr, produced, clientChan>>
httpVars == <<client, wire, ending>>
ctxVars  == <<ctx, pool>>
vars == <<handler, genVars, errorChan, timer, httpVars, ctxVars>>

\* Fault: an unbuffered error channel.
NoErrorRoom == 0

\* errorChan := make(chan error, 1)
ErrorChanCap == 1

GenStates == {"none", "calling", "sending", "failed", "closing", "exited"}
Endings   == {"open", "eof", "final", "error", "timeout", "disconnect"}

TypeOK ==
  /\ handler \in [Requests -> {"idle", "loop", "select", "done"}]
  /\ gen \in [Requests -> GenStates]
  /\ genErr \in [Requests -> BOOLEAN]
  /\ produced \in [Requests -> 0..MaxChunks]
  /\ clientChan \in [Requests -> {"open", "closed"}]
  /\ errorChan \in [Requests -> 0..ErrorChanCap]
  /\ timer \in [Requests -> {"off", "running", "fired"}]
  /\ client \in [Requests -> {"present", "gone"}]
  /\ wire \in [Requests -> Seq(Events)]
  /\ ending \in [Requests -> Endings]
  /\ ctx \in [Requests -> Contexts \cup {NoContext}]
  /\ pool \subseteq Contexts

Init ==
  /\ handler    = [r \in Requests |-> "idle"]
  /\ gen        = [r \in Requests |-> "none"]
  /\ genErr     = [r \in Requests |-> FALSE]
  /\ produced   = [r \in Requests |-> 0]
  /\ clientChan = [r \in Requests |-> "open"]
  /\ errorChan  = [r \in Requests |-> 0]
  /\ timer      = [r \in Requests |-> "off"]
  /\ client     = [r \in Requests |-> "present"]
  /\ wire       = [r \in Requests |-> <<>>]
  /\ ending     = [r \in Requests |-> "open"]
  /\ ctx        = [r \in Requests |-> NoContext]
  /\ pool       = Contexts

------------------------------------------------------------------------------
\* Fault: the context is handed to a request but stays in the pool.
BeginKeepingPool(r) ==
  /\ handler[r] = "idle"
  /\ \E c \in pool : ctx' = [ctx EXCEPT ![r] = c]
  /\ handler' = [handler EXCEPT ![r] = "loop"]
  /\ gen' = [gen EXCEPT ![r] = "calling"]
  /\ UNCHANGED <<genErr, produced, clientChan, errorChan, timer, httpVars, pool>>

(* The request arrives: gin takes any context of its pool, the handler     *)
(* makes the channels, starts the generator and enters c.Stream.           *)
Begin(r) ==
  /\ handler[r] = "idle"
  /\ \E c \in pool : /\ ctx' = [ctx EXCEPT ![r] = c]
                     /\ pool' = pool \ {c}
  /\ handler' = [handler EXCEPT ![r] = "loop"]
  /\ gen' = [gen EXCEPT ![r] = "calling"]
  /\ UNCHANGED <<genErr, produced, clientChan, errorChan, timer, httpVars>>

------------------------------------------------------------------------------
(* The generator.                                                          *)

\* Fault: the callback does not wait for the handler (a select with default).
ChunkNotAwaited(r) ==
  /\ gen[r] = "calling"
  /\ produced[r] < MaxChunks
  /\ produced' = [produced EXCEPT ![r] = @ + 1]
  /\ \/ UNCHANGED gen
     \/ gen' = [gen EXCEPT ![r] = "sending"]
  /\ UNCHANGED <<handler, genErr, clientChan, errorChan, timer, httpVars, ctxVars>>

\* The LLM client calls the streaming callback with a chunk; the callback
\* blocks in clientChan <- event until the handler receives it.
Chunk(r) ==
  /\ gen[r] = "calling"
  /\ produced[r] < MaxChunks
  /\ produced' = [produced EXCEPT ![r] = @ + 1]
  /\ gen' = [gen EXCEPT ![r] = "sending"]
  /\ UNCHANGED <<handler, genErr, clientChan, errorChan, timer, httpVars, ctxVars>>

\* Fault: the answer is returned, and the channel closed, while the LLM client
\* still has a chunk to pass on.
AnswerReturnedEarly(r) ==
  /\ gen[r] \in {"calling", "sending"}
  /\ gen' = [gen EXCEPT ![r] = "closing"]
  /\ UNCHANGED <<handler, genErr, produced, clientChan, errorChan, timer, httpVars, ctxVars>>

\* GenerateTextAnswer returns the answer, which the goroutine ignores.
AnswerReturned(r) ==
  /\ gen[r] = "calling"
  /\ gen' = [gen EXCEPT ![r] = "closing"]
  /\ UNCHANGED <<handler, genErr, produced, clientChan, errorChan, timer, httpVars, ctxVars>>

\* GenerateTextAnswer returns an error (LLM, network, missing input).
CallFailed(r) ==
  /\ gen[r] = "calling"
  /\ gen' = [gen EXCEPT ![r] = "failed"]
  /\ genErr' = [genErr EXCEPT ![r] = TRUE]
  /\ UNCHANGED <<handler, produced, clientChan, errorChan, timer, httpVars, ctxVars>>

\* errorChan <- err
PushError(r) ==
  /\ gen[r] = "failed"
  /\ errorChan[r] < ErrorChanCap
  /\ errorChan' = [errorChan EXCEPT ![r] = @ + 1]
  /\ gen' = [gen EXCEPT ![r] = "closing"]
  /\ UNCHANGED <<handler, genErr, produced, clientChan, timer, httpVars, ctxVars>>

\* Fault: a last event is pushed through the message channel before it is
\* closed.
CloseAfterLastEvent(r) ==
  /\ gen[r] = "closing"
  /\ handler[r] = "select"
  /\ clientChan' = [clientChan EXCEPT ![r] = "closed"]
  /\ gen' = [gen EXCEPT ![r] = "exited"]
  /\ UNCHANGED <<handler, genErr, produced, errorChan, timer, httpVars, ctxVars>>

\* defer close(clientChan)
CloseClientChan(r) ==
  /\ gen[r] = "closing"
  /\ clientChan' = [clientChan EXCEPT ![r] = "closed"]
  /\ gen' = [gen EXCEPT ![r] = "exited"]
  /\ UNCHANGED <<handler, genErr, produced, errorChan, timer, httpVars, ctxVars>>

------------------------------------------------------------------------------
(* The handler.                                                            *)

\* c.Stream returns, then ExecutePrompt, and gin recycles the context.
Return(r, how) ==
  /\ handler' = [handler EXCEPT ![r] = "done"]
  /\ ending' = [ending EXCEPT ![r] = how]
  /\ timer' = [timer EXCEPT ![r] = "off"]
  /\ pool' = pool \cup {ctx[r]}
  /\ UNCHANGED ctx

\* Fault: the select has no timeout.
EnterStepUntimed(r) ==
  /\ handler[r] = "loop"
  /\ client[r] = "present"
  /\ handler' = [handler EXCEPT ![r] = "select"]
  /\ UNCHANGED <<genVars, errorChan, timer, httpVars, ctxVars>>

\* The head of the loop of c.Stream: a client that has gone ends the stream,
\* otherwise the step function runs and evaluates time.After.
EnterStep(r) ==
  /\ handler[r] = "loop"
  /\ client[r] = "present"
  /\ handler' = [handler EXCEPT ![r] = "select"]
  /\ timer' = [timer EXCEPT ![r] = "running"]
  /\ UNCHANGED <<genVars, errorChan, httpVars, ctxVars>>

NoticeDisconnect(r) ==
  /\ handler[r] = "loop"
  /\ client[r] = "gone"
  /\ Return(r, "disconnect")
  /\ UNCHANGED <<genVars, errorChan, client, wire>>

\* case msg, ok := <-clientChan with a generator blocked in its send: both
\* goroutines go on.
ReceiveMsg(r) ==
  /\ handler[r] = "select"
  /\ gen[r] = "sending"
  /\ LET msg == Msg(produced[r])
     IN /\ wire' = [wire EXCEPT ![r] = Append(@, msg)]
        /\ IF KeepOpen(msg)
           THEN /\ handler' = [handler EXCEPT ![r] = "loop"]
                /\ timer' = [timer EXCEPT ![r] = "off"]
                /\ UNCHANGED <<ending, ctxVars>>
           ELSE Return(r, "final")
  /\ gen' = [gen EXCEPT ![r] = "calling"]
  /\ UNCHANGED <<genErr, produced, clientChan, errorChan, client>>

\* case msg, ok := <-clientChan with ok false.
ReceiveClosed(r) ==
  /\ handler[r] = "select"
  /\ clientChan[r] = "closed"
  /\ Return(r, "eof")
  /\ UNCHANGED <<genVars, errorChan, client, wire>>

\* case err := <-errorChan
ReceiveError(r) ==
  /\ handler[r] = "select"
  /\ errorChan[r] > 0
  /\ errorChan' = [errorChan EXCEPT ![r] = @ - 1]
  /\ wire' = [wire EXCEPT ![r] = Append(@, ErrorEvent)]
  /\ Return(r, "error")
  /\ UNCHANGED <<genVars, client>>

\* Fault: the stream is kept open after a timeout.
ReceiveTimeoutAndGoOn(r) ==
  /\ handler[r] = "select"
  /\ timer[r] = "fired"
  /\ wire' = [wire EXCEPT ![r] = Append(@, ErrorEvent)]
  /\ handler' = [handler EXCEPT ![r] = "loop"]
  /\ timer' = [timer EXCEPT ![r] = "off"]
  /\ UNCHANGED <<genVars, errorChan, client, ending, ctxVars>>

\* case <-time.After(60 * time.Second)
ReceiveTimeout(r) ==
  /\ handler[r] = "select"
  /\ timer[r] = "fired"
  /\ wire' = [wire EXCEPT ![r] = Append(@, ErrorEvent)]
  /\ Return(r, "timeout")
  /\ UNCHANGED <<genVars, errorChan, client>>

------------------------------------------------------------------------------
(* The environment.                                                        *)

TimerFires(r) ==
  /\ timer[r] = "running"
  /\ timer' = [timer EXCEPT ![r] = "fired"]
  /\ UNCHANGED <<handler, genVars, errorChan, httpVars, ctxVars>>

ClientLeaves(r) ==
  /\ handler[r] \in {"loop", "select"}
  /\ client[r] = "present"
  /\ client' = [client EXCEPT ![r] = "gone"]
  /\ UNCHANGED <<handler, genVars, errorChan, timer, wire, ending, ctxVars>>

HandlerStep(r) == \/ EnterStep(r) \/ NoticeDisconnect(r)
                  \/ ReceiveMsg(r) \/ ReceiveClosed(r)
                  \/ ReceiveError(r) \/ ReceiveTimeout(r)

\* Steps of the generator that depend on the LLM, and those that do not.
LLMStep(r) == Chunk(r) \/ AnswerReturned(r) \/ CallFailed(r)
GenExit(r) == PushError(r) \/ CloseClientChan(r)

Next == \E r \in Requests : \/ Begin(r)
                            \/ LLMStep(r)
                            \/ GenExit(r)
                            \/ HandlerStep(r)
                            \/ TimerFires(r)
                            \/ ClientLeaves(r)

Spec == Init /\ [][Next]_vars

\* The Go runtime runs every runnable goroutine and fires every timer.
\* Nothing is assumed of the LLM: a call may hang for ever.
FairSpec == /\ Spec
            /\ \A r \in Requests : /\ WF_vars(HandlerStep(r))
                                   /\ WF_vars(GenExit(r))
                                   /\ WF_vars(TimerFires(r))

\* What GeneratorSettles assumes in addition: the LLM goes on with every call
\* it was given.
LLMAnswers == \A r \in Requests : WF_vars(LLMStep(r))

------------------------------------------------------------------------------
(* Properties.                                                             *)

Active(r)    == handler[r] \in {"loop", "select"}
InCall(r)    == gen[r] \in {"calling", "sending"}
Abandoned(r) == ending[r] \in {"timeout", "disconnect"}

\* The number of messages written to r: all its events but a final error.
Delivered(r) == IF ending[r] \in {"error", "timeout"} THEN Len(wire[r]) - 1
                                                     ELSE Len(wire[r])

\* Chunks reach the response in the order the LLM client produced them, none
\* twice and none skipped: what was written are the chunks 1, 2, ... up to the
\* last one produced, but for a chunk the generator is still blocked on
\* (handler lines 530-535 against the callback of generateAnswer).
ChunksInOrder ==
  \A r \in Requests :
    /\ \A i \in DOMAIN wire[r] : KeepOpen(wire[r][i]) => wire[r][i].chunk = i
    /\ Delivered(r) = IF gen[r] = "sending" THEN produced[r] - 1
                                            ELSE produced[r]

\* An error event ends the response: it is written at most once, last, and
\* only by a handler that has returned.
ErrorIsLast ==
  \A r \in Requests : \A i \in DOMAIN wire[r] :
    wire[r][i] = ErrorEvent => i = Len(wire[r]) /\ handler[r] = "done"

\* A response that ends because the message channel was closed is complete:
\* the generator has finished and every chunk it produced was written.
EofIsComplete ==
  \A r \in Requests :
    ending[r] = "eof" => gen[r] = "exited" /\ Len(wire[r]) = produced[r]

\* The generator outlives its handler inside the LLM call only when the
\* handler gave up on it (timeout) or lost its client: no other way out of
\* c.Stream leaves a call running, or a goroutine blocked in its send.
OutlivesOnlyIfAbandoned ==
  \A r \in Requests : handler[r] = "done" /\ InCall(r) => Abandoned(r)

\* A call never runs on a gin context that serves another request, unless its
\* stream was abandoned: handlers give a context back while the generator
\* still holds it.
ContextNotShared ==
  \A r, q \in Requests :
    (r # q /\ InCall(r) /\ Active(q) /\ ctx[r] = ctx[q]) => Abandoned(r)

\* Every streaming execution returns, whatever the LLM does: each wait is
\* bounded by the timer and an answer has finitely many chunks.
HandlerReturns ==
  \A r \in Requests : Active(r) ~> handler[r] = "done"

\* A failed generation always ends its goroutine, also when nobody receives
\* from the error channel any more: the channel has room for the one error.
FailureExits ==
  \A r \in Requests : gen[r] = "failed" ~> gen[r] = "exited"

\* When the LLM answers, a generator ends, or else is blocked for ever on a
\* chunk for an abandoned stream.
GeneratorSettles ==
  LLMAnswers => \A r \in Requests :
                  gen[r] = "calling" ~> \/ gen[r] = "exited"
                                        \/ gen[r] = "sending" /\ Abandoned(r)

\* Whoever waits is waited for: the select of a handler has its timer, which
\* runs or has fired, and the error channel has room for the error that is to
\* be pushed, whether or not its handler is still there.
NobodyStuck ==
  \A r \in Requests : /\ handler[r] = "select" => timer[r] # "off"
                      /\ gen[r] = "failed" => errorChan[r] < ErrorChanCap

\* How many steps the handler of r is from its end at the most: two for each
\* event that may still be written, and those of the turn it is in.
Stage(r) == IF handler[r] = "idle" THEN 3 ELSE IF handler[r] = "loop" THEN 2
            ELSE IF handler[r] = "select" THEN 1 ELSE 0
Distance(r) == 2 * (MaxChunks + 1 - Len(wire[r])) + Stage(r)

\* Each step of a handler brings it nearer to its end, and no step of the
\* generator, the timer or the client takes it back.
HandlerAdvances ==
  [][\A r \in Requests :
       /\ Distance(r)' \in 0 .. Distance(r)
       /\ handler'[r] # handler[r] \/ wire'[r] # wire[r] => Distance(r)' < Distance(r)]_vars

\* "Send error as SSE event instead of trying to change status code": a
\* stream that the handler ended by itself after a failure carries the error.
FailureReported ==
  \A r \in Requests :
    handler[r] = "done" /\ genErr[r] /\ ~Abandoned(r)
      => \E i \in DOMAIN wire[r] : wire[r][i] = ErrorEvent

\* The streaming execution implements the stream it promises.
status == [r \in Requests |-> IF handler[r] = "idle" THEN "idle"
                              ELSE IF handler[r] = "done" THEN "closed"
                              ELSE "open"]

Promised == INSTANCE SseStream WITH wire <- wire, status <- status

PromisedSpec == Promised!Spec
------------------------------------------------------------------------------
(* The inductive invariant.                                                *)

\* How far the two goroutines of a request can be apart.
Lifecycle ==
  \A r \in Requests :
    /\ handler[r] = "idle" <=> gen[r] = "none"
    /\ handler[r] = "done" <=> ending[r] # "open"
    /\ clientChan[r] = "closed" <=> gen[r] = "exited"
    /\ gen[r] \notin {"closing", "exited"} => errorChan[r] = 0
    /\ ending[r] = "eof" => gen[r] = "exited"
    /\ ending[r] = "error" => gen[r] \in {"closing", "exited"}
    /\ ending[r] # "final"

\* What is on the wire: the chunks delivered, then the error that ended the
\* stream, if one did.
WireShape ==
  \A r \in Requests :
    /\ Delivered(r) = IF gen[r] = "sending" THEN produced[r] - 1
                                            ELSE produced[r]
    /\ \A i \in 1..Len(wire[r]) :
         wire[r][i] = IF i <= Delivered(r) THEN Msg(i) ELSE ErrorEvent
    /\ gen[r] = "sending" => produced[r] > 0
    /\ gen[r] = "none" => produced[r] = 0

\* An active handler owns its context alone.
ContextOwnership ==
  \A r \in Requests :
    Active(r) => /\ ctx[r] \in Contexts
                 /\ ctx[r] \notin pool
                 /\ \A q \in Requests : Active(q) /\ ctx[q] = ctx[r] => q = r

IInv == TypeOK /\ Lifecycle /\ WireShape /\ ContextOwnership
==============================================================================
