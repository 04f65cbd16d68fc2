--------------------------- MODULE MCFlowDagCheck ---------------------------
(* All lists of up to three entries over three step ids.                     *)
EXTENDS FlowDagCheck

CONSTANTS a, b, c
=============================================================================
