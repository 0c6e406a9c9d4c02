----------------------------- MODULE MCCentreSync -----------------------------
(***************************************************************************)
(* Instances of CentreSync: enough rows of Line for more than one chunk    *)
(* and one row of the other tables.                                        *)
(***************************************************************************)
EXTENDS CentreSync

MCRows == [Vehicle |-> 1, Line |-> 3, Job |-> 1]
MCOnboarded == [Vehicle |-> 0, Line |-> 2, Job |-> 0]

\* Bound: a second fault or manual run comes beside one edit, and while at
\* most one run is busy.
Within ==
  calls' = 2 =>
    /\ edits' <= 1
    /\ calls = 1 => Cardinality({k \in Runs : run[k].pc # "idle"}) <= 1

MCSpec == Init /\ [][Next /\ Within]_vars /\ Fairness
=============================================================================
