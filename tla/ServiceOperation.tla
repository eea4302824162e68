-------------------------- MODULE ServiceOperation --------------------------
(***************************************************************************)
(* What the broker promises a client about one asynchronous operation, with*)
(* no BOSH in sight: an operation is a fixed number of steps, a step starts*)
(* only when the one before it has passed, and the verdict the client gets *)
(* is "succeeded" only after the last step passed.                         *)
(***************************************************************************)
EXTENDS Naturals

CONSTANT Operations
VARIABLES total,    \* number of steps of each operation (0: not requested yet)
          started,  \* number of steps started
          current,  \* how the latest step stands
          verdict   \* what the client was told last

operationSpecVars == <<total, started, current, verdict>>

Request(o) ==
  /\ total[o] = 0
  /\ total'[o] \in Nat \ {0}
  /\ total' = [total EXCEPT ![o] = total'[o]]
  /\ UNCHANGED <<started, current, verdict>>

StartStep(o) ==
  /\ started[o] < total[o]
  /\ current[o] \in {"none", "passed"}
  /\ started' = [started EXCEPT ![o] = @ + 1]
  /\ current' = [current EXCEPT ![o] = "running"]
  /\ UNCHANGED <<total, verdict>>

EndStep(o) ==
  /\ current[o] = "running"
  /\ \E how \in {"passed", "failed"} : current' = [current EXCEPT ![o] = how]
  /\ UNCHANGED <<total, started, verdict>>

\* Tidying up after the last step may still fail.
Tell(o, v) ==
  /\ verdict[o] \notin {"succeeded", "failed"}
  /\ CASE v = "succeeded"   -> current[o] = "passed" /\ started[o] = total[o]
       [] v = "failed"      -> current[o] = "failed" \/ started[o] = total[o]
       [] v = "in progress" -> started[o] > 0
  /\ verdict' = [verdict EXCEPT ![o] = v]
  /\ UNCHANGED <<total, started, current>>

OperationSpecInit ==
  /\ total = [o \in Operations |-> 0]
  /\ started = [o \in Operations |-> 0]
  /\ current = [o \in Operations |-> "none"]
  /\ verdict = [o \in Operations |-> "none"]

OperationSpecNext ==
  \E o \in Operations :
    \/ Request(o)
    \/ StartStep(o)
    \/ EndStep(o)
    \/ \E v \in {"in progress", "succeeded", "failed"} : Tell(o, v)

OperationSpec == OperationSpecInit /\ [][OperationSpecNext]_operationSpecVars
=============================================================================
