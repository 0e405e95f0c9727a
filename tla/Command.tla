------------------------------- MODULE Command -------------------------------
(***************************************************************************)
(* The command cmd/prompt: main checks its environment, connects to the    *)
(* database, has two samples generated with a context that a signal        *)
(* cancels, and waits for a signal.  Beside it run the goroutine of        *)
(* signal.NotifyContext and whoever sends signals.                         *)
(***************************************************************************)
EXTENDS Naturals

CONSTANT MaxSignals   \* bounds the signals that are sent

VARIABLES
  at,        \* where main is
  env,       \* the variables that are set in the environment
  relay,     \* the channel and the goroutine of NotifyContext: not there, waiting,
             \* with a signal to relay, and done: the context is cancelled
  doomed,    \* the call of the LLM began with a cancelled context
  quit,      \* the channel quit: not registered, empty or full
  signals,   \* how many signals were sent
  heard      \* how many of them when quit was registered (history)

vars == <<at, env, relay, doomed, quit, signals, heard>>

Samples == {"simple", "skills"}
Calling(g) == IF g = "simple" THEN "simple call" ELSE "skills call"
After(g) == IF g = "simple" THEN "skills" ELSE "quit"
Key(g) == IF g = "simple" THEN "OPENAI_API_KEY" ELSE "GOOGLEAI_API_KEY"

Variables == {"LOG_FOLDER", "BACKEND_PORT", "OPENAI_API_KEY", "GOOGLEAI_API_KEY"}

Before  == {"start", "connect", "port", "context"}
Between == {"simple", "simple call", "skills", "skills call", "quit"}
Ended   == {"failed", "killed", "exited"}

TypeOK ==
  /\ at \in Before \cup Between \cup {"waiting", "stop"} \cup Ended
  /\ env \in SUBSET Variables
  /\ relay \in {"none", "idle", "signalled", "done"}
  /\ doomed \in BOOLEAN
  /\ quit \in {"none", "empty", "full"}
  /\ signals \in 0 .. MaxSignals
  /\ heard \in 0 .. MaxSignals

ASSUME SignalAssumption == MaxSignals \in Nat

Init ==
  /\ at = "start"
  /\ env \in SUBSET Variables
  /\ relay = "none"
  /\ doomed = FALSE
  /\ quit = "none"
  /\ signals = 0
  /\ heard = 0

------------------------------------------------------------------------------
(* main                                                                    *)

\* log.Fatal when a variable is not set.
Check(from, v, to) ==
  /\ at = from
  /\ at' = IF v \in env THEN to ELSE "failed"
  /\ UNCHANGED <<env, relay, doomed, quit, signals, heard>>

CheckLogFolder == Check("start", "LOG_FOLDER", "connect")

\* Up to a thousand attempts; the ping that follows is only logged.
Connect ==
  /\ at = "connect"
  /\ at' \in {"port", "failed"}
  /\ UNCHANGED <<env, relay, doomed, quit, signals, heard>>

CheckPort == Check("port", "BACKEND_PORT", "context")

NotifyContext ==
  /\ at = "context"
  /\ at' = "simple"
  /\ relay' = "idle"
  /\ UNCHANGED <<env, doomed, quit, signals, heard>>

\* GenerateSimpleAnswer and GenerateSkillsAnalysis: the chain is made, if its key
\* is there, and the LLM is called.
Begin(g) ==
  /\ at = g
  /\ at' = IF Key(g) \in env THEN Calling(g) ELSE "failed"
  /\ doomed' = (relay = "done")
  /\ UNCHANGED <<env, relay, quit, signals, heard>>

\* An answer may be there before the call notices the cancellation.
Answered(g) ==
  /\ at = Calling(g) /\ ~doomed
  /\ at' = After(g)
  /\ UNCHANGED <<env, relay, doomed, quit, signals, heard>>

\* An error of the call, or an answer that is not as it should be.
Failed(g) ==
  /\ at = Calling(g)
  /\ at' = "failed"
  /\ UNCHANGED <<env, relay, doomed, quit, signals, heard>>

\* Fault: the call is given context.Background().
CancelledNever(g) == FALSE

\* The call notices the cancellation.
Cancelled(g) == relay = "done" /\ Failed(g)

\* signal.Notify(quit, ...)
NotifyQuit ==
  /\ at = "quit"
  /\ at' = "waiting"
  /\ quit' = "empty"
  /\ UNCHANGED <<env, relay, doomed, signals, heard>>

\* <-quit
ReceiveQuit ==
  /\ at = "waiting" /\ quit = "full"
  /\ at' = "stop"
  /\ quit' = "empty"
  /\ UNCHANGED <<env, relay, doomed, signals, heard>>

\* stop(), which cancels the context, and the end of main.
Stop ==
  /\ at = "stop"
  /\ at' = "exited"
  /\ relay' = "done"
  /\ UNCHANGED <<env, doomed, quit, signals, heard>>

------------------------------------------------------------------------------
(* The goroutine of NotifyContext, and signals.                            *)

Cancel ==
  /\ relay = "signalled" /\ at \notin Ended
  /\ relay' = "done"
  /\ UNCHANGED <<at, env, doomed, quit, signals, heard>>

\* Fault: quit has no buffer, and is given a signal only while main receives.
SignalUnbuffered ==
  /\ signals < MaxSignals /\ at \notin Ended
  /\ signals' = signals + 1
  /\ at' = IF relay = "none" THEN "killed" ELSE at
  /\ relay' = IF relay = "idle" THEN "signalled" ELSE relay
  /\ quit' \in {quit, IF quit = "empty" THEN "full" ELSE quit}
  /\ heard' = IF quit = "none" THEN 0 ELSE heard + 1
  /\ UNCHANGED <<env, doomed>>

\* A signal kills a process that has not asked for it; otherwise it goes to
\* every channel that was registered and has room.
Signal ==
  /\ signals < MaxSignals /\ at \notin Ended
  /\ signals' = signals + 1
  /\ at' = IF relay = "none" THEN "killed" ELSE at
  /\ relay' = IF relay = "idle" THEN "signalled" ELSE relay
  /\ quit' = IF quit = "none" THEN "none" ELSE "full"
  /\ heard' = IF quit = "none" THEN 0 ELSE heard + 1
  /\ UNCHANGED <<env, doomed>>

Main == \/ CheckLogFolder \/ Connect \/ CheckPort \/ NotifyContext
        \/ \E g \in Samples : Begin(g)
        \/ NotifyQuit \/ ReceiveQuit \/ Stop

Next == \/ Main \/ Cancel \/ Signal
        \/ \E g \in Samples : Answered(g) \/ Failed(g) \/ Cancelled(g)

Spec == Init /\ [][Next]_vars

\* main and the goroutine go on, and a call ends when its context is
\* cancelled; an LLM need not answer, and nobody need send a signal.
FairSpec == /\ Spec /\ WF_vars(Main) /\ WF_vars(Cancel)
            /\ \A g \in Samples : WF_vars(Cancelled(g))

------------------------------------------------------------------------------
(* What the command promises.                                              *)

\* A signal ends the command although the LLM hangs; or main has come to wait
\* for another one, the signal having met neither a call nor quit.
Obeys == signals > 0 ~> at \in Ended \/ (at = "waiting" /\ heard = 0)

\* A signal is lost only before quit is registered: from then on, main does not
\* wait although one was sent; nor does it ever end by itself without one.
HeardOnce == /\ heard > 0 /\ at = "waiting" => quit = "full"
             /\ at = "exited" => heard > 0

\* The safety half of Obeys: from the first signal on, as long as the command
\* runs, its context is cancelled or about to be, whatever main was doing when
\* the signal came and however many more come.
Relayed == signals > 0 /\ at \notin Ended => relay \in {"signalled", "done"}

------------------------------------------------------------------------------
(* The inductive invariant.                                                *)

\* What is registered where.
Registered ==
  /\ at \in Before => relay = "none"
  /\ at \in Between \cup {"waiting", "stop"} => relay # "none"
  /\ at \in Before \cup Between => quit = "none"
  /\ at \in {"waiting", "stop"} => quit # "none"
  /\ heard <= signals
  /\ heard > 0 <=> quit = "full" \/ at \in {"stop", "exited"}

IInv == TypeOK /\ Registered /\ HeardOnce /\ Relayed
==============================================================================
