--------------------------- MODULE CappedDelivery ---------------------------
(***************************************************************************)
(* What a print queue promises: each job is handed out under numbered slips *)
(* and at most Cap of them; a slip is in one hand, is used at most once,    *)
(* and only by whoever holds it; and what the queue tells of a job is true: *)
(* "printed" when a slip was used, "failed" when none is left to hand out.  *)
(* What was told may be taken back.                                         *)
(***************************************************************************)
EXTENDS Naturals

CONSTANTS Job, Cap

VARIABLES
    given,   \* given[j]: slips handed out for j; they are numbered from 1
    out,     \* out[j]: those in somebody's hands
    used,    \* used[j]: those that came out of a printer
    told     \* told[j]: what the queue says of j

vars == <<given, out, used, told>>

Tales == {"open", "printed", "failed"}

Init ==
    /\ given = [j \in Job |-> 0]
    /\ out = [j \in Job |-> {}]
    /\ used = [j \in Job |-> {}]
    /\ told = [j \in Job |-> "open"]

\* A slip may get lost on its way.
HandOut(j) ==
    /\ told[j] = "open"
    /\ given[j] < Cap
    /\ given' = [given EXCEPT ![j] = @ + 1]
    /\ \/ out' = [out EXCEPT ![j] = @ \cup {given'[j]}]
       \/ UNCHANGED out
    /\ UNCHANGED <<used, told>>

\* A slip is used, or torn up.
Use(j) ==
    /\ \E n \in out[j] :
          /\ out' = [out EXCEPT ![j] = @ \ {n}]
          /\ \/ used' = [used EXCEPT ![j] = @ \cup {n}]
             \/ UNCHANGED used
    /\ UNCHANGED <<given, told>>

Tell(j) ==
    /\ \E t \in Tales :
          /\ t = "printed" => used[j] # {}
          /\ t = "failed" => given[j] = Cap
          /\ told' = [told EXCEPT ![j] = t]
    /\ UNCHANGED <<given, out, used>>

Next == \E j \in Job : HandOut(j) \/ Use(j) \/ Tell(j)

Spec == Init /\ [][Next]_vars
=============================================================================
