---------------------------- MODULE MCLifecycle ----------------------------
(* The lifecycle machine on a short clock: a ramp of 1, 2, 4, 6 with the   *)
(* ceiling off the powers of two, as 60000 is for 5000.                    *)
EXTENDS Lifecycle
=============================================================================
