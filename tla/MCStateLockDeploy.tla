-------------------------- MODULE MCStateLockDeploy --------------------------
(* Small instances of StateLockDeploy for TLC. *)
EXTENDS StateLockDeploy, MCDefs
=============================================================================
