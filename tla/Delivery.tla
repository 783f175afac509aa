------------------------------ MODULE Delivery ------------------------------
(***************************************************************************)
(* What one run of the pipeline promises, whatever the server, the channel *)
(* and the desktop do (the head of src/core/app/upload_pipeline.hpp: "The  *)
(* ORDER is the contract"):                                                *)
(*                                                                         *)
(*   - a path reaches the clipboard only after the whole image stands      *)
(*     under it on the server, and the chord follows the path;             *)
(*   - a run reports success only after its chord, and then once;          *)
(*   - one run at a time: nothing of a run happens after its report.       *)
(***************************************************************************)
EXTENDS Naturals

CONSTANT Runs   (* the runs: the numbers, in the order they start          *)

VARIABLES
  stage,   (* how far each run's path has come                             *)
  result   (* what each run reported                                       *)

vars == <<stage, result>>

TypeOK ==
  /\ stage \in [Runs -> {"nothing", "published", "shown", "pasted"}]
  /\ result \in [Runs -> {"none", "success", "error"}]

Init ==
  /\ stage = [r \in Runs |-> "nothing"]
  /\ result = [r \in Runs |-> "none"]

(* Run r has not reported, and every run before it has.                    *)
Turn(r) ==
  /\ result[r] = "none"
  /\ \A q \in Runs : q < r => result[q] # "none"

Advance(r, from, to) ==
  /\ Turn(r) /\ stage[r] = from
  /\ stage' = [stage EXCEPT ![r] = to]
  /\ UNCHANGED result

Publish(r) == Advance(r, "nothing", "published")
Show(r)    == Advance(r, "published", "shown")
Paste(r)   == Advance(r, "shown", "pasted")

Report(r, outcome) ==
  /\ Turn(r)
  /\ outcome = "success" => stage[r] = "pasted"
  /\ result' = [result EXCEPT ![r] = outcome]
  /\ UNCHANGED stage

Next ==
  \E r \in Runs :
    \/ Publish(r) \/ Show(r) \/ Paste(r)
    \/ \E outcome \in {"success", "error"} : Report(r, outcome)

Spec == Init /\ [][Next]_vars
=============================================================================
