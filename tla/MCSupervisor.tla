---------------------------- MODULE MCSupervisor ----------------------------
(* Small instance of Supervisor for TLC.                                   *)
EXTENDS Supervisor
=============================================================================
