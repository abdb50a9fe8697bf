----------------------------- MODULE MCEventBus -----------------------------
(* Values for the runs of the event bus: one call per window for a workflow  *)
(* and for the client, and a clock that lets a window pass.                  *)
EXTENDS EventBus

MCKeys == Workflows \cup {Client}
OnePerWindow == [k \in MCKeys |-> 1]

============================================================================
