----------------------------- MODULE MCCorrelate -----------------------------
(* Instances of Correlate for TLC.                                         *)
EXTENDS Correlate

\* The clock passes the last stamp by more than Idle: each trace can expire.
ASSUME MCAssumption == Horizon > LastEmit + Idle
=============================================================================
