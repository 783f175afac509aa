----------------------------- MODULE SftpClient -----------------------------
(***************************************************************************)
(* One request of the SFTP client and its reply over the byte stream of an *)
(* ssh child (src/core/sftp/client.cpp).  The client is synchronous: it    *)
(* sends a frame, reads one frame and compares the request id.             *)
(*                                                                         *)
(* An exchange ends in one of five ways.  A stream that broke stays        *)
(* broken.  One that is out of step (a frame larger than the receive       *)
(* buffer, of which the rest was left unread) stays out of step: the       *)
(* server acts on what the client sends and no reply is understood again.  *)
(* Only a new connection helps.                                            *)
(***************************************************************************)
EXTENDS Integers, FiniteSets, Sequences

CONSTANT MaxFaults   (* bound: exchanges that do not simply succeed        *)

ASSUME SftpClientAssumption == MaxFaults \in Nat

VARIABLES
  up,       (* the stream still carries bytes                              *)
  inStep,   (* the next frame read is the reply to the last one sent       *)
  faults    (* faults so far                                               *)

wireVars == <<up, inStep, faults>>

WireInit == up = TRUE /\ inStep = TRUE /\ faults = 0

(* acts: the server does what was asked.  reply: what the client makes of
   it.  A refusal is a STATUS other than OK.                               *)
Done       == [acts |-> TRUE,  reply |-> "ok"]
Refused    == [acts |-> FALSE, reply |-> "refused"]
CutBefore  == [acts |-> FALSE, reply |-> "none"]
CutAfter   == [acts |-> TRUE,  reply |-> "none"]
Unreadable == [acts |-> TRUE,  reply |-> "unreadable"]
(* A WRITE that is acknowledged and not stored.                            *)
Hollow     == [acts |-> FALSE, reply |-> "ok"]
(* A READ before the end of the file that is answered as if it were there:
   with no data, or with EOF.                                              *)
Starved    == [acts |-> TRUE,  reply |-> "short"]

Faults == {Refused, CutBefore, CutAfter, Unreadable}

(* How an exchange may end, "more" being the faults of that request alone. *)
Ends(more) ==
  IF ~up THEN {CutBefore}
  ELSE IF ~inStep THEN {Unreadable}
  ELSE {Done} \cup (IF faults < MaxFaults THEN Faults \cup more ELSE {})

(* SendFrame, ReadFrame and ReadRequestId.                                 *)
Exchange(end) ==
  /\ up' = (up /\ end.reply # "none")
  /\ inStep' = (inStep /\ end.reply # "unreadable")
  /\ faults' = faults + IF up /\ inStep /\ end # Done THEN 1 ELSE 0

(* Connect over a new stream: Init.  A refused or broken handshake leaves no
   client, and the caller tries again.                                     *)
Connect == up' = TRUE /\ inStep' = TRUE /\ UNCHANGED faults
=============================================================================
