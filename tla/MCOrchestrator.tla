--------------------------- MODULE MCOrchestrator ---------------------------
(* Two repositories; requests for zero, one and two runners.                  *)
EXTENDS Orchestrator

MCCount == {0, 1, 2}
=============================================================================
