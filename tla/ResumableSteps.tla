--------------------------- MODULE ResumableSteps ---------------------------
(***************************************************************************)
(* What a job with a step ledger promises: an effect that has landed stays, *)
(* and the job is reported completed only when every effect has landed; any *)
(* other report leaves it open to a retry.                                  *)
(***************************************************************************)
CONSTANTS Job, Effects

VARIABLES
    landed,   \* landed[j]: the effects of j that have happened, or that it does not have
    report    \* report[j]: what the ledger says of j; "none" before it is opened

vars == <<landed, report>>

Reports == {"none", "pending", "completed", "partial_failure", "failed"}

Init ==
    /\ landed \in [Job -> SUBSET Effects]
    /\ report = [j \in Job |-> "none"]

Open(j) ==
    /\ report[j] = "none"
    /\ report' = [report EXCEPT ![j] = "pending"]
    /\ UNCHANGED landed

Land(j) ==
    /\ report[j] # "none"
    /\ \E e \in Effects : landed' = [landed EXCEPT ![j] = @ \cup {e}]
    /\ UNCHANGED report

Tell(j) ==
    /\ report[j] # "none"
    /\ \E v \in Reports \ {"none"} :
         /\ v = "completed" => Effects \subseteq landed[j]
         /\ report' = [report EXCEPT ![j] = v]
    /\ UNCHANGED landed

Next == \E j \in Job : Open(j) \/ Land(j) \/ Tell(j)

Spec == Init /\ [][Next]_vars
=============================================================================
