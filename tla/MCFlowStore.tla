----------------------------- MODULE MCFlowStore ----------------------------
(* A small instance of FlowStore for TLC: three connections append to a flow *)
(* of at most three events.                                                  *)
EXTENDS FlowStore

CONSTANTS w1, w2, w3, e1, e2
=============================================================================
