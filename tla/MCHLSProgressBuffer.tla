------------------------ MODULE MCHLSProgressBuffer ------------------------
(* Model checking of HLSProgressBuffer: all constants are set in the cfg.  *)
EXTENDS HLSProgressBuffer
=============================================================================
