------------------------------- MODULE Remote -------------------------------
(***************************************************************************)
(* The two users of the SFTP client beside the upload: the installer of    *)
(* the hook and the cleanup of the upload directory, each over a channel   *)
(* that may be refused, cut or put out of step at any request.  They share *)
(* the client's code and no state, so a behaviour is one of them.          *)
(***************************************************************************)
EXTENDS HookInstall, Retention

VARIABLE job    (* which of them this behaviour is                         *)

vars == <<job, wireVars, hookVars, dirVars>>

(* The other one stays at one of its initial states.                       *)
Init ==
  /\ WireInit
  /\ job \in {"hooks", "cleanup"}
  /\ HookInit /\ (job = "cleanup" => settings = <<>>)
  /\ DirInit /\ (job = "hooks" => present = Foreign /\ (\A n \in Uploads : stamp[n] = NoTime)
                                  /\ pass.now = 0 /\ pass.policy.keep = 0)

Hooks   == job = "hooks" /\ HookStep /\ UNCHANGED <<job, dirVars>>
Cleanup == job = "cleanup" /\ DirStep /\ UNCHANGED <<job, hookVars>>

Next == Hooks \/ Cleanup

Spec == Init /\ [][Next]_vars
-----------------------------------------------------------------------------
TypeOK ==
  /\ up \in BOOLEAN /\ inStep \in BOOLEAN /\ faults \in 0 .. MaxFaults
  /\ HookTypeOK
  /\ DirTypeOK
=============================================================================
