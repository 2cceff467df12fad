----------------------------- MODULE MCFanOut -----------------------------
(***************************************************************************)
(* Model checking of FanOut.  N and MaxConcurrent come from the cfg file:  *)
(* more calls than slots, so that Run, errCh and Wait all block.           *)
(***************************************************************************)
EXTENDS FanOut
=============================================================================
