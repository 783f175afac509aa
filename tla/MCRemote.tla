------------------------------ MODULE MCRemote ------------------------------
(* Three operations of the installer with an edit between, or a cleanup of *)
(* three uploads and a foreign file.                                       *)
EXTENDS Remote

Rules == {[age |-> 1, keep |-> 0], [age |-> 0, keep |-> 1], [age |-> 1, keep |-> 1]}
=============================================================================
