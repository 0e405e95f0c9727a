----------------------------- MODULE AtomicChain -----------------------------
(***************************************************************************)
(* What the callers of one chain can rely on, without the words of a       *)
(* string, the choices made before the LLM is called and the many reads of *)
(* the type: the chain has one flag, set once and never taken back, and a  *)
(* call takes effect at one instant, when it returns, on the flag as it is *)
(* then.                                                                   *)
(***************************************************************************)
CONSTANTS Callers, Fields

VARIABLES schemas,     \* the fields a structured answer must have
          structured,  \* the flag
          pending,     \* pending[c] : "none", or the call c is waiting for
          outcome      \* outcome[c] : what the last call of c returned

vars == <<schemas, structured, pending, outcome>>

Result(k, fs) == [kind |-> k, fields |-> fs]

Init == /\ schemas \in SUBSET Fields
        /\ structured \in BOOLEAN
        /\ pending = [c \in Callers |-> "none"]
        /\ outcome = [c \in Callers |-> Result("none", {})]

Call(c, o) == /\ pending[c] = "none"
              /\ pending' = [pending EXCEPT ![c] = o]
              /\ outcome' = [outcome EXCEPT ![c] = Result("none", {})]
              /\ UNCHANGED <<schemas, structured>>

\* The flag is set on behalf of a structured call.
Turn == /\ ~structured
        /\ \E c \in Callers : pending[c] = "structured"
        /\ structured' = TRUE
        /\ UNCHANGED <<schemas, pending, outcome>>

Return(c, r) == /\ pending' = [pending EXCEPT ![c] = "none"]
                /\ outcome' = [outcome EXCEPT ![c] = r]
                /\ UNCHANGED <<schemas, structured>>

\* A text call of a text chain returns the answer, whatever that is.
ReturnText(c) == /\ pending[c] = "text" /\ ~structured
                 /\ Return(c, Result("text", {}))

\* Any call of a structured chain may return a map with all of the fields; a
\* text call returns it printed.
ReturnMap(c, fs) ==
  /\ pending[c] # "none" /\ structured
  /\ schemas \subseteq fs
  /\ Return(c, Result(IF pending[c] = "text" THEN "printed" ELSE "map", fs))

\* Any call may fail, a structured one when the flag is set.
Fail(c) == /\ pending[c] # "none"
           /\ pending[c] = "structured" => structured
           /\ Return(c, Result("error", {}))

\* That the model refuses JSON is said of a structured chain only.
Refuse(c) == /\ pending[c] # "none" /\ structured
             /\ Return(c, Result("unsupported", {}))

Next == \/ Turn
        \/ \E c \in Callers :
             \/ Call(c, "text") \/ Call(c, "structured")
             \/ ReturnText(c) \/ Fail(c) \/ Refuse(c)
             \/ \E fs \in SUBSET Fields : ReturnMap(c, fs)

Spec == Init /\ [][Next]_vars
==============================================================================
