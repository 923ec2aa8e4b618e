------------------------------ MODULE MCDaemon -------------------------------
(* Three requests to asvisor-d.                                              *)
EXTENDS Daemon

MCIsols == {"r1", "r2", "r3"}
==============================================================================
