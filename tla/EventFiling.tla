----------------------------- MODULE EventFiling -----------------------------
(***************************************************************************)
(* What the outbox promises for each event: it is owed from the moment it  *)
(* is raised, and closed at most once, with the provider's own verdict or  *)
(* as abandoned. The provider never decides an event that was not raised.  *)
(***************************************************************************)

CONSTANT Tx

VARIABLES
  stage,    \* our record: none, owed, applied, rejected, abandoned
  verdict   \* the provider's decision: none, applied, rejected

filing == <<stage, verdict>>

Init ==
  /\ stage = [t \in Tx |-> "none"]
  /\ verdict = [t \in Tx |-> "none"]

\* A request or a retry inserts the event.
Raise(t) ==
  /\ stage[t] = "none"
  /\ stage' = [stage EXCEPT ![t] = "owed"]
  /\ UNCHANGED verdict

\* The provider's worker decides, once, even after the event was abandoned.
Decide(t) ==
  /\ stage[t] # "none"
  /\ verdict[t] = "none"
  /\ verdict' \in {[verdict EXCEPT ![t] = v] : v \in {"applied", "rejected"}}
  /\ UNCHANGED stage

\* The verdict is learnt.
Learn(t) ==
  /\ stage[t] = "owed"
  /\ verdict[t] # "none"
  /\ stage' = [stage EXCEPT ![t] = verdict[t]]
  /\ UNCHANGED verdict

\* The event is given up.
Abandon(t) ==
  /\ stage[t] = "owed"
  /\ stage' = [stage EXCEPT ![t] = "abandoned"]
  /\ UNCHANGED verdict

Next == \E t \in Tx : Raise(t) \/ Decide(t) \/ Learn(t) \/ Abandon(t)

Spec == Init /\ [][Next]_filing

=============================================================================
