----------------------------- MODULE MCRestart ------------------------------
(* Three launches: an instance, its replacement, and one by hand; or two    *)
(* restarts in a row.                                                      *)
EXTENDS Restart
=============================================================================
