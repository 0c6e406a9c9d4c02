--------------------------- MODULE MCTajdeedOutbox ---------------------------
(***************************************************************************)
(* A finite instance of TajdeedOutbox.  A behaviour is followed either     *)
(* through faults (a forgotten event, an interruption, a re-push) with one *)
(* operator on one day, or through two operators and a day change; the     *)
(* product of the two is out of TLC's reach.                               *)
(***************************************************************************)
EXTENDS TajdeedOutbox

CONSTANT Second  \* the operator who only comes along when nothing fails

Faulty == lost + cuts + repushes > 0

Apart == Faulty' => /\ today' = 0
                    /\ request'[Second] = Free
                    /\ \A t \in Tx : row'[t].by # Second

MCNext == Next /\ Apart

MCSpec == Init /\ [][MCNext]_vars /\ Fairness

=============================================================================
