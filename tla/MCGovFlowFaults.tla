-------------------------- MODULE MCGovFlowFaults --------------------------
(* Plans for the runs with a failing database.                              *)
EXTENDS GovFlowFaults, MCGovFlow

============================================================================
