---------------------------- MODULE MCCircuitBreaker ------------------------
(* Small instances of CircuitBreaker for TLC: the configurations differ in   *)
(* the number of callers and in the breaker's thresholds.                    *)
EXTENDS CircuitBreaker
=============================================================================
