---------------------------- MODULE MCTicketScan ----------------------------
(***************************************************************************)
(* TicketScanManager with two sockets and two scans posted at once, over   *)
(* enough ticks for three passes of the cleanup task: a session can join   *)
(* after one pass, go stale across the second and expire in the third.     *)
(***************************************************************************)
EXTENDS TicketScanManager
=============================================================================
