--------------------------- MODULE MCCaptureIngest ---------------------------
(***************************************************************************)
(* Instances of CaptureIngest with at most one file that is not of a good  *)
(* event, and one disturbance beside it.                                   *)
(***************************************************************************)
EXTENDS CaptureIngest

Bad == {f \in Files : place[f] # "none" /\ event[f].quality # "good"}

Within == Cardinality(Bad') <= 1 /\ (Bad' # {} => calls' <= 1)

MCSpec == InitIngest /\ [][NextIngest /\ Within]_ingestVars /\ FairnessIngest
=============================================================================
