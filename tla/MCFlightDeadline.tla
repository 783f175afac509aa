------------------------- MODULE MCFlightDeadline -------------------------
(* Two triggers and the watchdog over two flights: the smallest instance   *)
(* in which a latch of the first flight can meet the second.               *)
EXTENDS FlightDeadline
=============================================================================
