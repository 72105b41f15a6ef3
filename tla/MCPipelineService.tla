------------------------- MODULE MCPipelineService -------------------------
(* Four runs: enough for a training, the inference it chains, a standalone *)
(* inference and a second training to overlap.                             *)
EXTENDS PipelineService
=============================================================================
