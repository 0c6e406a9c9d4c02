------------------------------- MODULE MCDesk -------------------------------
(***************************************************************************)
(* Cashier for TLC.  What is edited, the lanes and branches, the cameras   *)
(* and PCs, or the payments, is chosen once for a behaviour: the three     *)
(* share the lines and the jobs, which each of them keeps moving.          *)
(***************************************************************************)
EXTENDS Cashier, TLC

VARIABLE side

MCInit ==
  /\ side \in {"lanes", "devices", "desk"}
  /\ Init
  /\ side = "desk" => LiveLines = {1}
  /\ side # "devices" => \A d \in Devices : device[d] = "none"
  /\ side = "devices" => \A j \in Jobs : job[j].st = "none"
  /\ side # "desk" => charge["own"] = 1 /\ charge["common"] = 1
                      /\ charge["other"] = 1

Symmetry == Permutations(Requests) \union Permutations(Jobs)

OnLanes(r) ==
  \/ /\ till[r].pc = "idle"
     /\ LineRequest(r) \/ CentreRequest(r) \/ CutMasters(r)
     /\ UNCHANGED dvars
  \/ \E l \in Lines : StartIntake(r, l, 1, TRUE)
  \/ CommitIntake(r)

OnDevices(r) ==
  /\ LineRequest(r) \/ DeviceRequest(r) \/ CutMasters(r)
  /\ UNCHANGED dvars

MCNext ==
  /\ \/ side = "lanes" /\ \E r \in Requests : OnLanes(r)
     \/ side = "devices" /\ \E r \in Requests : OnDevices(r)
     \/ side = "desk" /\ \E r \in Requests : Desk(r)
     \/ EndJob
  /\ UNCHANGED side

MCSpec == MCInit /\ [][MCNext]_<<cvars, side>>

=============================================================================
