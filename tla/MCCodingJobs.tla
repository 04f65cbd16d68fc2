---------------------------- MODULE MCCodingJobs ----------------------------
(* A small instance of CodingJobs for TLC.                                   *)
EXTENDS CodingJobs
=============================================================================
