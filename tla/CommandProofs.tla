---------------------------- MODULE CommandProofs ----------------------------
(***************************************************************************)
(* Proofs about Command: which signals count.                              *)
(***************************************************************************)
EXTENDS Command, TLAPS

LEMMA Initial == Init => IInv
<1> SUFFICES ASSUME Init PROVE IInv
  OBVIOUS
<1>1. signals \in 0 .. MaxSignals /\ heard \in 0 .. MaxSignals
  BY SignalAssumption DEF Init
<1>2. TypeOK
  BY <1>1 DEF Init, TypeOK, Before
<1>3. Registered /\ HeardOnce /\ Relayed
  BY DEF Init, Registered, HeardOnce, Relayed, Before, Between
<1> QED BY <1>2, <1>3 DEF IInv

\* No step of main, before it waits, is disturbed by what is registered.
LEMMA MainSteps ==
  ASSUME IInv, Main
  PROVE  IInv'
<1> USE DEF IInv, TypeOK, Registered, HeardOnce, Relayed, Before, Between, Ended, Samples, Calling
<1>1. CASE CheckLogFolder \/ CheckPort
  BY <1>1 DEF CheckLogFolder, CheckPort, Check, vars
<1>2. CASE Connect
  BY <1>2 DEF Connect
<1>3. CASE NotifyContext
  BY <1>3 DEF NotifyContext
<1>4. ASSUME NEW g \in Samples, Begin(g) PROVE IInv'
  BY <1>4 DEF Begin
<1>5. CASE NotifyQuit
  BY <1>5 DEF NotifyQuit
<1>6. CASE ReceiveQuit
  BY <1>6 DEF ReceiveQuit
<1>7. CASE Stop
  BY <1>7 DEF Stop
<1> QED BY <1>1, <1>2, <1>3, <1>4, <1>5, <1>6, <1>7 DEF Main

\* A signal reaches what is registered.
LEMMA Signals ==
  ASSUME IInv, Signal
  PROVE  IInv'
<1>1. /\ signals \in 0 .. MaxSignals /\ heard \in 0 .. MaxSignals /\ heard <= signals
      /\ signals < MaxSignals /\ signals' = signals + 1
      /\ heard' = IF quit = "none" THEN 0 ELSE heard + 1
  BY DEF IInv, TypeOK, Registered, Signal
<1>2. /\ signals' \in 0 .. MaxSignals /\ heard' \in 0 .. MaxSignals /\ heard' <= signals'
      /\ quit # "none" => heard' > 0
      /\ quit = "none" => heard' = 0
  BY <1>1, SignalAssumption
<1>3. /\ at' = IF relay = "none" THEN "killed" ELSE at
      /\ relay' = IF relay = "idle" THEN "signalled" ELSE relay
      /\ quit' = IF quit = "none" THEN "none" ELSE "full"
      /\ at \notin Ended /\ env' = env /\ doomed' = doomed
  BY DEF Signal
<1>4. TypeOK'
  BY <1>2, <1>3 DEF IInv, TypeOK, Ended
<1>5. quit # "none" => at \in {"waiting", "stop"} /\ relay # "none"
  BY <1>3 DEF IInv, TypeOK, Registered, Before, Between, Ended
<1>6. quit = "none" => at \in Before \cup Between
  <2>1. at \in {"waiting", "stop"} => quit # "none"
    BY DEF IInv, Registered
  <2>2. at \in Before \cup Between \cup {"waiting", "stop"} \cup Ended /\ at \notin Ended
    BY <1>3 DEF IInv, TypeOK
  <2> QED BY <2>1, <2>2, Zenon
<1>7. Registered' /\ HeardOnce'
  <2>1. CASE quit = "none"
    <3>1. at' \in Before \cup Between \cup {"killed"} /\ quit' = "none" /\ heard' = 0
      BY <1>2, <1>3, <1>6, <2>1
    <3>2. at' \in Before => relay' = "none"
      BY <1>3 DEF IInv, Registered, Before
    <3>3. at' \in Between \cup {"waiting", "stop"} => relay' # "none"
      BY <1>3 DEF IInv, Registered, Between
    <3>4. heard' > 0 <=> quit' = "full" \/ at' \in {"stop", "exited"}
      <4>1. at' \notin {"stop", "exited"} /\ quit' # "full"
        BY <3>1 DEF Before, Between
      <4>2. ~(heard' > 0)
        BY <3>1
      <4> QED BY <4>1, <4>2
    <3>5. at' \notin {"waiting", "exited"}
      BY <3>1 DEF Before, Between
    <3> QED BY <1>2, <3>1, <3>2, <3>3, <3>4, <3>5 DEF Registered, HeardOnce, Before, Between
  <2>2. CASE quit # "none"
    <3>1. at' = at /\ at' \in {"waiting", "stop"} /\ relay' # "none" /\ quit' = "full" /\ heard' > 0
      BY <1>2, <1>3, <1>5, <2>2
    <3> QED BY <1>2, <3>1 DEF Registered, HeardOnce, Before, Between
  <2> QED BY <2>1, <2>2
<1>8. Relayed'
  <2>1. at' \notin Ended => relay # "none"
    BY <1>3 DEF Ended
  <2>2. relay \in {"idle", "signalled", "done"} => relay' \in {"signalled", "done"}
    BY <1>3
  <2> QED BY <2>1, <2>2 DEF IInv, TypeOK, Relayed
<1> QED BY <1>4, <1>7, <1>8 DEF IInv

\* The LLM, the goroutine and those who send signals.
LEMMA OtherSteps ==
  ASSUME IInv
  PROVE  /\ Cancel => IInv'
         /\ Signal => IInv'
         /\ \A g \in Samples : Answered(g) \/ Failed(g) \/ Cancelled(g) => IInv'
         /\ UNCHANGED vars => IInv'
<1> USE DEF IInv, TypeOK, Registered, HeardOnce, Relayed, Before, Between, Ended, Samples, Calling
<1>1. Cancel => IInv'
  BY DEF Cancel
<1>2. Signal => IInv'
  BY Signals
<1>3. ASSUME NEW g \in Samples, Answered(g) PROVE IInv'
  BY <1>3 DEF Answered, After
<1>4. ASSUME NEW g \in Samples, Failed(g) PROVE IInv'
  BY <1>4 DEF Failed
<1>5. UNCHANGED vars => IInv'
  BY DEF vars
<1> QED BY <1>1, <1>2, <1>3, <1>4, <1>5 DEF Cancelled

\* The inductive invariant, for any number of signals.
THEOREM Invariance == Spec => []IInv
<1>1. IInv /\ [Next]_vars => IInv'
  BY MainSteps, OtherSteps DEF Next
<1> QED BY Initial, <1>1, PTL DEF Spec

\* main: once quit is registered, no signal is lost, and main does not end
\* without one.
THEOREM SignalsCount == Spec => []HeardOnce
<1>1. IInv => HeardOnce
  BY DEF IInv
<1> QED BY Invariance, <1>1, PTL

\* NotifyContext: from the first signal on the context of the samples is
\* cancelled or about to be, as long as the command runs.
THEOREM SignalsAreRelayed == Spec => []Relayed
<1>1. IInv => Relayed
  BY DEF IInv
<1> QED BY Invariance, <1>1, PTL
==============================================================================
