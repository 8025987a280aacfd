---------------------------- MODULE MCHostClient ----------------------------
(***************************************************************************)
(* One client with its runs and two reconnects at a time.                  *)
(***************************************************************************)
EXTENDS HostClient
=============================================================================
