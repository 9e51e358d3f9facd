------------------------------ MODULE BidiCall ------------------------------
(***************************************************************************)
(* What a bidirectional call promises its caller, whatever the tunnel      *)
(* underneath does: the callee executes a call at most once and only after *)
(* it was issued, the call is answered only when its own execution is      *)
(* complete, and once it has been answered or has failed its outcome never *)
(* changes.  Invoker.tla implements it with two rpc.Invoker, a stream each *)
(* way, a map of channels and a mutex.                                     *)
(***************************************************************************)
CONSTANT Calls      \* request ids

VARIABLES status,     \* status[r]: what the caller knows of call r
          execution   \* execution[r]: how far the callee is with call r

vars == <<status, execution>>

TypeOK == /\ status \in [Calls -> {"idle", "open", "answered", "failed"}]
          /\ execution \in [Calls -> {"none", "running", "complete"}]

Init == /\ status = [r \in Calls |-> "idle"]
        /\ execution = [r \in Calls |-> "none"]

Issue(r) == /\ status[r] = "idle"
            /\ status' = [status EXCEPT ![r] = "open"]
            /\ UNCHANGED execution

\* The callee may run a call its caller has already given up.
Execute(r) == /\ status[r] # "idle"
              /\ execution[r] = "none"
              /\ execution' = [execution EXCEPT ![r] = "running"]
              /\ UNCHANGED status

Complete(r) == /\ execution[r] = "running"
               /\ execution' = [execution EXCEPT ![r] = "complete"]
               /\ UNCHANGED status

Answer(r) == /\ status[r] = "open"
             /\ execution[r] = "complete"
             /\ status' = [status EXCEPT ![r] = "answered"]
             /\ UNCHANGED execution

Fail(r) == /\ status[r] = "open"
           /\ status' = [status EXCEPT ![r] = "failed"]
           /\ UNCHANGED execution

Next == \E r \in Calls :
          Issue(r) \/ Execute(r) \/ Complete(r) \/ Answer(r) \/ Fail(r)

Spec == Init /\ [][Next]_vars
=============================================================================
