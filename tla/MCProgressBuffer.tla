-------------------------- MODULE MCProgressBuffer --------------------------
(* Model checking of ProgressBuffer: all constants are set in the cfg.     *)
EXTENDS ProgressBuffer
=============================================================================
