----------------------------- MODULE MCPipeline -----------------------------
(* Three presses, in two windows, of an image of two chunks, into a directory *)
(* two components deep, the newest upload kept.                            *)
EXTENDS Pipeline
=============================================================================
