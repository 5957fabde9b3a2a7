------------------------ MODULE MCLayerOrderRuntime ------------------------
(* LayerOrderRuntime with small bounds, for TLC.                           *)
EXTENDS LayerOrderRuntime
============================================================================
