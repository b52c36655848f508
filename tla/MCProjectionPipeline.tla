------------------------ MODULE MCProjectionPipeline -------------------------
(* A projector of the first release, and two that came later, of which one  *)
(* is needed by snapshots, in the order in which they run.                  *)
EXTENDS ProjectionPipeline

MCProjectors == <<"projects", "pendingApprovals", "threads">>
MCRequired == {"projects", "threads"}
MCFirstRelease == {"projects"}
=============================================================================
