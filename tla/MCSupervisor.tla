---------------------------- MODULE MCSupervisor ----------------------------
(* The worker and the main thread, one channel at a time.  The queue bound *)
(* holds the notices of an upload and of the reconnect that follows it.    *)
EXTENDS Supervisor
=============================================================================
