------------------------------ MODULE Authoring ------------------------------
(***************************************************************************)
(* The end every plugin's Read shares: a worker thread runs the layer      *)
(* writer on a detached layer while the caller waits for its future, and   *)
(* the host's layer is touched once, by the caller, at the very end.       *)
(***************************************************************************)
VARIABLES
  pc, result,       \* where the calling thread is; what the call returned
  error,            \* its diagnostic
  worker,           \* the authoring thread
  generated,        \* the detached layer
  layer,            \* the host's layer
  fault             \* an allocation or a call into USD was refused

authorVars == <<worker, generated>>

None == <<>>

Fail(code) == pc' = "return" /\ result' = "false" /\ error' = code
Continue(next) == pc' = next /\ UNCHANGED <<result, error>>

(* std::async(std::launch::async, ...).                                    *)
Spawn ==
  /\ pc = "author"
  /\ worker' = "running"
  /\ Continue("join")
  /\ UNCHANGED <<generated, layer, fault>>

\* Slip: a deferred task runs where the caller waits for it.
AuthoringThread_Deferred == "caller"
AuthoringThread == "worker"

(* Edits made while the editing thread holds an SdfChangeBlock reach the   *)
(* stage only when it is closed: a prim defined on it is not yet there.    *)
Observes(changeBlock) == AuthoringThread = "caller" /\ changeBlock

(* The worker writes error and generated, which the caller owns, and       *)
(* nothing else; the caller looks at them only after get().                *)
Author(problem, authored) ==
  /\ worker = "running"
  /\ \/ /\ problem = ""
        /\ generated' = authored /\ worker' = "true"
        /\ UNCHANGED <<error, fault>>
     \/ /\ problem # ""
        /\ worker' = "false" /\ error' = problem
        /\ UNCHANGED <<generated, fault>>
     \/ /\ worker' = "false" /\ error' = "attributeAuthoringFailed"
        /\ fault' = TRUE /\ UNCHANGED generated
  /\ UNCHANGED <<pc, result, layer>>

(* std::bad_alloc ends the worker; the future holds the exception.         *)
EndByException ==
  /\ worker = "running"
  /\ worker' = "threw" /\ fault' = TRUE
  /\ UNCHANGED <<pc, result, error, generated, layer>>

\* Slip: the caller waits for a value an ended worker never sets.
Get_ValueOnly ==
  /\ pc = "join" /\ worker \in {"true", "false"}
  /\ IF worker = "true" THEN pc' = "transfer" /\ result' = result
                        ELSE pc' = "return" /\ result' = "false"
  /\ UNCHANGED <<error, authorVars, layer, fault>>
(* task.get(): waits, then returns or rethrows.                            *)
Get ==
  /\ pc = "join" /\ worker \in {"true", "false", "threw"}
  /\ CASE worker = "true"  -> pc' = "transfer" /\ result' = result
       [] worker = "false" -> pc' = "return" /\ result' = "false"
       [] OTHER            -> pc' = "return" /\ result' = "threw"
  /\ UNCHANGED <<error, authorVars, layer, fault>>

(* TransferContent, and Read returns true.                                 *)
Transfer == pc = "transfer" /\ layer' = generated /\ result' = "true"
=============================================================================
