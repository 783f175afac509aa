--------------------------- MODULE LifecycleTable ---------------------------
(***************************************************************************)
(* The transition table and the tray colours of the process lifecycle      *)
(* (src/core/app/lifecycle.cpp).  The table is shared by the module that   *)
(* adds the backoff data to it (Lifecycle) and by the one that drives it   *)
(* from the upload worker (Supervisor).                                    *)
(***************************************************************************)

States == {"Init", "Connecting", "Ready", "Degraded", "Reconnecting",
           "Stopping", "Stopped"}

Events == {"Start", "ConnectOk", "ConnectFail", "ChannelLost", "Retry",
           "Stop", "Stopped"}

(* One row per Handle<State> function: the events it accepts and where they
   lead.  Every other event is kUnhandled and leaves the state alone.      *)
Table ==
  [Init         |-> [Start |-> "Connecting", Stop |-> "Stopping"],
   Connecting   |-> [ConnectOk |-> "Ready", ConnectFail |-> "Reconnecting",
                     Stop |-> "Stopping"],
   Ready        |-> [ChannelLost |-> "Degraded", ConnectFail |-> "Degraded",
                     Stop |-> "Stopping"],
   Degraded     |-> [Retry |-> "Reconnecting", ConnectOk |-> "Ready",
                     ConnectFail |-> "Degraded", Stop |-> "Stopping"],
   Reconnecting |-> [ConnectOk |-> "Ready", ConnectFail |-> "Reconnecting",
                     Stop |-> "Stopping"],
   Stopping     |-> [Stopped |-> "Stopped", Stop |-> "Stopping"],
   Stopped      |-> [Stopped |-> "Stopped", Stop |-> "Stopped"]]

Handles(s, e) == e \in DOMAIN Table[s]

(* Mutant of Target: HandleDegraded without its kConnectOk case.           *)
Mut_DegradedDropsOk(s, e) ==
  IF Handles(s, e) /\ ~(s = "Degraded" /\ e = "ConnectOk") THEN Table[s][e] ELSE s

(* The state after event e is dispatched in state s.                       *)
Target(s, e) == IF Handles(s, e) THEN Table[s][e] ELSE s

(* Lifecycle::Health.                                                      *)
Health(s) ==
  CASE s = "Ready"                    -> "green"
    [] s \in {"Degraded", "Stopped"}  -> "red"
    [] OTHER                          -> "yellow"

Colours == {"green", "yellow", "red"}
=============================================================================
