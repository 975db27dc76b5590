----------------------------- MODULE Lifecycle -----------------------------
(***************************************************************************)
(* What SQLGate promises about a request: the state machine its handlers   *)
(* would implement if the check of a status and the UPDATE that follows    *)
(* were one step.  Gate implements it when requests come one at a time.    *)
(***************************************************************************)
EXTENDS Naturals

CONSTANT Ids

VARIABLES
    status,  \* the status of every request
    runs     \* how many times its text was committed at the target

vars == <<status, runs>>

Init ==
    /\ status = [i \in Ids |-> "absent"]
    /\ runs = [i \in Ids |-> 0]

Move(i, from, to) ==
    /\ status[i] = from
    /\ status' = [status EXCEPT ![i] = to]
    /\ UNCHANGED runs

Submit(i) == Move(i, "absent", "submitted")
Preview(i) == Move(i, "submitted", "previewed")
RequestApproval(i) == Move(i, "previewed", "pending_approval")
Approve(i) == Move(i, "pending_approval", "approved")
Reject(i) == Move(i, "pending_approval", "rejected")

\* The text reaches the target while the request is approved ...
Run(i) ==
    /\ status[i] = "approved"
    /\ runs' = [runs EXCEPT ![i] = @ + 1]
    /\ UNCHANGED status

\* ... and only a request that ran becomes "executed".
Record(i) ==
    /\ runs[i] > 0
    /\ Move(i, "approved", "executed")

\* One sweep expires any set of approved requests at once.
Sweep ==
    /\ \E S \in SUBSET {i \in Ids : status[i] = "approved"} :
          status' = [i \in Ids |-> IF i \in S THEN "expired" ELSE status[i]]
    /\ UNCHANGED runs

Next ==
    \/ \E i \in Ids : \/ Submit(i) \/ Preview(i) \/ RequestApproval(i)
                      \/ Approve(i) \/ Reject(i) \/ Run(i) \/ Record(i)
    \/ Sweep

Spec == Init /\ [][Next]_vars
============================================================================
