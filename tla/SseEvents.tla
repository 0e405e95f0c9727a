------------------------------ MODULE SseEvents ------------------------------
(***************************************************************************)
(* The progress events a streaming execution writes to its client.  The    *)
(* text of an event is abstracted: a message carries the number of the     *)
(* chunk it transports, an error carries none.  What the handler looks at  *)
(* (the event type and the progress) is kept.                              *)
(***************************************************************************)
EXTENDS Naturals

\* event.NewProgressEvent of ctoup.com/coreapp.
NewProgressEvent(type, chunk, progress) ==
    [eventType |-> type, chunk |-> chunk, progress |-> progress]

\* The n-th chunk of the answer, as the streaming callback of generateAnswer
\* wraps it.
Msg(n) == NewProgressEvent("MSG", n, 50)

\* Fault: an error event that does not say the generation is over.
ErrorEventUnfinished == NewProgressEvent("ERROR", 0, 0)

\* The event the handler writes for a failed and for a timed out generation.
ErrorEvent == NewProgressEvent("ERROR", 0, 100)

\* Fault: the stream ends with the progress of a message.
KeepOpenUnlessMsg(e) == e.eventType # "ERROR" /\ e.progress # 50

\* The value the step function given to c.Stream returns for a message.
KeepOpen(e) == e.eventType # "ERROR" /\ e.progress # 100

Events == [eventType : {"MSG", "ERROR"}, chunk : Nat, progress : {50, 100}]
==============================================================================
