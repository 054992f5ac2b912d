---------------------------- MODULE MCProvisioning ----------------------------
(* Every sequence of commands over two layers that share a data directory.  *)
EXTENDS Provisioning
CONSTANTS c1, p1
==============================================================================
