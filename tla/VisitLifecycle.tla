--------------------------- MODULE VisitLifecycle ---------------------------
(***************************************************************************)
(* What one visit to the centre is promised, with every request taken as   *)
(* one step: it is opened, paid for, possibly called off together with its *)
(* money and reinstated together with it, and becomes at most one job.     *)
(***************************************************************************)

CONSTANT Visits

VARIABLES
  stage,  \* where the visit stands
  money   \* what happened to its payment

vars == <<stage, money>>

TypeOK ==
  /\ stage \in [Visits -> {"none", "open", "cancelled", "removed", "converted"}]
  /\ money \in [Visits -> {"none", "Paid", "Cancelled"}]

\* Registered at reception, or promoted from a booking.
Open(v) ==
  /\ stage[v] = "none"
  /\ stage' = [stage EXCEPT ![v] = "open"]
  /\ UNCHANGED money

\* Collected at the counter, or mirrored from the provider.
Settle(v) ==
  /\ stage[v] = "open"
  /\ money[v] = "none"
  /\ money' = [money EXCEPT ![v] = "Paid"]
  /\ UNCHANGED stage

\* Called off by an operator or upstream. The money goes with it.
CallOff(v) ==
  /\ stage[v] = "open"
  /\ stage' = [stage EXCEPT ![v] = "cancelled"]
  /\ money' = [money EXCEPT ![v] = IF @ = "Paid" THEN "Cancelled" ELSE @]

\* Brought back upstream. The money comes back with it.
Reinstate(v) ==
  /\ stage[v] = "cancelled"
  /\ stage' = [stage EXCEPT ![v] = "open"]
  /\ money' = [money EXCEPT ![v] = IF @ = "Cancelled" THEN "Paid" ELSE @]

\* Removed from the lists, for good. Its money stays where it is.
Remove(v) ==
  /\ stage[v] \in {"open", "cancelled"}
  /\ stage' = [stage EXCEPT ![v] = "removed"]
  /\ UNCHANGED money

\* The visit becomes a job. It was paid for at some time; the code does not
\* refuse a visit that was called off since, if the provider settled it.
Convert(v) ==
  /\ stage[v] \in {"open", "cancelled"}
  /\ money[v] # "none"
  /\ stage' = [stage EXCEPT ![v] = "converted"]
  /\ UNCHANGED money

Init ==
  /\ stage = [v \in Visits |-> "none"]
  /\ money = [v \in Visits |-> "none"]

Next ==
  \E v \in Visits :
    Open(v) \/ Settle(v) \/ CallOff(v) \/ Reinstate(v) \/ Remove(v) \/ Convert(v)

Spec == Init /\ [][Next]_vars

=============================================================================
