------------------------------ MODULE MCDaemon ------------------------------
(***************************************************************************)
(* Instances of Daemon for TLC: two process ids meet in every way that      *)
(* agents, stop commands and other programs can.                            *)
(***************************************************************************)
EXTENDS Daemon
=============================================================================
