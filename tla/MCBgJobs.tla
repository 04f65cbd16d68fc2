------------------------------ MODULE MCBgJobs ------------------------------
(* Small instances of BgJobs for TLC.                                        *)
EXTENDS BgJobs
=============================================================================
